------------------------------- MODULE V1Grammar -------------------------------
(***************************************************************************)
(* What a 1.x file means, said of the whole file at once: how it divides   *)
(* into data sets, which of those are network and which are noise data,    *)
(* and where each matrix entry stands.  V1Reader scans the file line by    *)
(* line and never looks back; here nothing is scanned.  The two agree on   *)
(* every file, which is the claim of ADR 0006 and ADR 0007 that the        *)
(* inference is exact.                                                     *)
(***************************************************************************)
EXTENDS V1Reader, SequencesExt

LinesOf(f, kind) == {i \in 1..Len(f) : f[i].kind = kind}

Openers(f) == {i \in LinesOf(f, "data") : Odd(f[i].n)}

InOrder(f, S) ==
    LET upTo[i \in 0..Len(f)] ==
            IF i = 0 THEN <<>>
            ELSE IF i \in S THEN Append(upTo[i - 1], i) ELSE upTo[i - 1]
    IN  upTo[Len(f)]

(* The opening lines of the data sets, in file order.                        *)
OpeningLines(f) == InOrder(f, Openers(f))

(* All values from one opening line up to the next.                          *)
DataSet(f, k) ==
    LET opening == OpeningLines(f)
        first == opening[k]
        last == IF k = Len(opening) THEN Len(f) ELSE opening[k + 1] - 1
    IN  FlattenSeq([j \in 1..(last - first + 1) |->
            LET line == first + j - 1
            IN  IF f[line].kind = "data"
                THEN [col \in 1..f[line].n |-> <<line, col>>]
                ELSE <<>>])

DataSets(f) == [k \in 1..Len(OpeningLines(f)) |-> DataSet(f, k)]

Hz(f, set) == f[set[1][1]].hz

HeaderHolds(f) ==
    /\ LinesOf(f, "keyword") = {}
    /\ LinesOf(f, "option") # {}
    /\ LET first == Min(LinesOf(f, "option"))
       IN  /\ f[first].form = "ok"
           /\ \A i \in LinesOf(f, "data") : first < i

(* d holds the network data sets, then from the b-th on the noise sets.      *)
Ascending(f, d, from, to) ==
    \A i, j \in from..to : i < j => Hz(f, d[i]) < Hz(f, d[j])

NetworkHolds(f, d, n, b) ==
    /\ Ascending(f, d, 1, b - 1)
    /\ \A k \in 1..(b - 1) : Len(d[k]) = 2 * n * n + 1
    /\ \A k \in 1..(b - 1) : \A i \in DOMAIN d[k] : f[d[k][i][1]].conv

NoiseHolds(f, d, n, b) ==
    b <= Len(d) =>
        /\ n = 2
        /\ Hz(f, d[b]) <= Hz(f, d[b - 1])
        /\ Ascending(f, d, b, Len(d))
        /\ \A k \in b..Len(d) : Len(d[k]) = 5
        /\ \A k \in b..Len(d) : \A i \in DOMAIN d[k] : f[d[k][i][1]].fin

PortsOf(d, given) ==
    IF given # None
    THEN given
    ELSE CHOOSE n \in 1..Len(d[1]) : 2 * n * n + 1 = Len(d[1])

(* The count divides into sets: the one the name gives, if its sets have a   *)
(* size, or the one the first set's length says; a set that was read is no   *)
(* longer than the size type counts.                                         *)
HasPorts(d, given) ==
    IF given = None
    THEN \E n \in 1..Len(d[1]) : 2 * n * n + 1 = Len(d[1]) /\ Len(d[1]) <= MaxUsize
    ELSE given > 0 /\ 2 * given * given + 1 <= MaxUsize

(* b is where the noise section starts; one past the last set if there is    *)
(* none.                                                                     *)
Divides(f, given, b) ==
    LET d == DataSets(f)
    IN  /\ b \in 2..(Len(d) + 1)
        /\ HasPorts(d, given)
        /\ NetworkHolds(f, d, PortsOf(d, given), b)
        /\ NoiseHolds(f, d, PortsOf(d, given), b)

WellFormed(f, given) ==
    /\ HeaderHolds(f)
    /\ LinesOf(f, "data") # {}
    /\ Min(LinesOf(f, "data")) \in Openers(f)
    /\ \A i \in LinesOf(f, "data") :
            f[i].form # "malformed"
    /\ \A i \in Openers(f) : Finite(f[i].hz)
    /\ \E b \in 2..(Len(OpeningLines(f)) + 1) : Divides(f, given, b)
    /\ LET r == f[Min(LinesOf(f, "option"))].n
       IN  r = 1 \/ r = PortsOf(DataSets(f), given)

(* Where pair i of an n-port data set goes, as the standard writes it: 21    *)
(* before 12 at two ports, otherwise row by row.                             *)
Entry(n, i) ==
    IF n = 2
    THEN <<<<1, 1>>, <<2, 1>>, <<1, 2>>, <<2, 2>>>>[i]
    ELSE <<(i - 1) \div n + 1, ((i - 1) % n) + 1>>

-----------------------------------------------------------------------------
(* The scan accepts exactly the well-formed files: no file is misread as     *)
(* valid and no valid file is refused, with or without a port count.         *)
AcceptsExactlyTheGrammar ==
    pc = "done" => (outcome.kind = "network" <=> WellFormed(file, hint))

(* An accepted file is read as it divides: every point and noise point in    *)
(* order, every value of its data set in its place, nothing dropped, nothing *)
(* used twice (v1.rs push_point's transposition, flush's section switch).    *)
ReadsWhatTheFileSays ==
    outcome.kind = "network" =>
        LET d == DataSets(file)
            b == CHOOSE i \in 2..(Len(d) + 1) : Divides(file, hint, i)
            n == PortsOf(d, hint)
        IN  /\ nports = n
            /\ freqHz = [k \in 1..(b - 1) |-> Hz(file, d[k])]
            /\ Len(s) = (b - 1) * n * n
            /\ \A k \in 1..(b - 1) : \A i \in 1..(n * n) :
                  s[(k - 1) * n * n + (Entry(n, i)[1] - 1) * n + Entry(n, i)[2]]
                    = <<d[k][2 * i], d[k][2 * i + 1]>>
            /\ inNoise <=> b <= Len(d)
            /\ noise = [k \in 1..(Len(d) - b + 1) |->
                          [hz |-> Hz(file, d[b + k - 1]), values |-> Tail(d[b + k - 1])]]

(* Metadata.comments holds the comment lines before the first data line, in  *)
(* order, and no others (model.rs, v1.rs before_any_data).                   *)
KeepsHeaderComments ==
    outcome.kind = "network" =>
        /\ \A i, j \in 1..Len(comments) : i < j => comments[i] < comments[j]
        /\ {comments[i] : i \in 1..Len(comments)}
             = {i \in LinesOf(file, "comment") : \A j \in LinesOf(file, "data") : i < j}

(* Every port of every point refers to its own R value, or all to the one.   *)
ReferencesEveryPort ==
    outcome.kind = "network" =>
        /\ Len(z0) = Len(freqHz) * nports
        /\ \A k \in 1..Len(freqHz) : \A port \in 1..nports :
              z0[(k - 1) * nports + port]
                = IF file[optionLine].n = 1 THEN 1 ELSE port

=============================================================================

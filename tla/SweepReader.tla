------------------------------ MODULE SweepReader ------------------------------
(***************************************************************************)
(* What a caller of parse_str or parse_file is promised, whichever version *)
(* the file is: one answer, either a network or an error; a network built  *)
(* only by appending, each frequency above the one before it, each point a *)
(* whole n-by-n matrix, noise only behind a two-port sweep, one reference  *)
(* for each port of each point; and the port count the caller asserted, if *)
(* it asserted one.  V1Reader and V2Reader implement this module, ReadFile *)
(* relies on it.                                                           *)
(***************************************************************************)
EXTENDS Integers, Sequences

CONSTANTS Frequencies,   \* the finite frequencies
          PortCounts,    \* the port counts a network may have
          Unknown        \* no port count: none asserted, or no point yet

VARIABLES requested,   \* ParseOptions.nports
          result,      \* "reading", then "network" or "error"
          ports,       \* the port count, once there is a point
          freqHz,      \* the network's frequencies
          entries,     \* how many matrix entries it holds
          references,  \* how many reference impedances
          noiseHz      \* the noise data's frequencies

vars == <<requested, result, ports, freqHz, entries, references, noiseHz>>

Init ==
    /\ requested \in Nat \cup {Unknown}
    /\ result = "reading"
    /\ ports = Unknown
    /\ freqHz = <<>>
    /\ entries = 0
    /\ references = 0
    /\ noiseHz = <<>>

Above(sweep, hz) == sweep # <<>> => sweep[Len(sweep)] < hz

AddPoint ==
    /\ result = "reading"
    /\ noiseHz = <<>>
    /\ \E hz \in Frequencies : /\ Above(freqHz, hz)
                               /\ freqHz' = Append(freqHz, hz)
    /\ ports' \in PortCounts
    /\ ports # Unknown => ports' = ports
    /\ requested \in {Unknown, ports'}
    /\ entries' = entries + ports' * ports'
    /\ UNCHANGED <<requested, result, references, noiseHz>>

AddNoisePoint ==
    /\ result = "reading"
    /\ ports \in {Unknown, 2}
    /\ requested \in {Unknown, 2}
    /\ \E hz \in Frequencies : /\ Above(noiseHz, hz)
                               /\ noiseHz' = Append(noiseHz, hz)
    /\ UNCHANGED <<requested, result, ports, freqHz, entries, references>>

Accept ==
    /\ result = "reading"
    /\ freqHz # <<>>
    /\ result' = "network"
    /\ references' = Len(freqHz) * ports
    /\ UNCHANGED <<requested, ports, freqHz, entries, noiseHz>>

Reject ==
    /\ result = "reading"
    /\ result' = "error"
    /\ UNCHANGED <<requested, ports, freqHz, entries, references, noiseHz>>

Next == AddPoint \/ AddNoisePoint \/ Accept \/ Reject

(* A call that has started returns.                                          *)
Spec == Init /\ [][Next]_vars /\ WF_vars(Accept \/ Reject)
=============================================================================

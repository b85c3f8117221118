------------------------------- MODULE MCV1Reader -------------------------------
(***************************************************************************)
(* Instances of V1Reader for TLC: small alphabets of lines, and every file *)
(* of a bounded number of them.                                            *)
(***************************************************************************)
EXTENDS V1Grammar

CONSTANTS MaxDataLines,   \* data lines in a file, at most
          MaxNoiseLines   \* the same for files with noise rows

Line(kind, form, n, hz, conv, fin) ==
    [kind |-> kind, form |-> form, n |-> n, hz |-> hz, conv |-> conv, fin |-> fin]
OptionLine(form, n) == Line("option", form, n, 0, TRUE, TRUE)
Data(n, hz) == Line("data", "ok", n, hz, TRUE, TRUE)

FilesOver(header, alphabet, limit) ==
    {header \o body : body \in UNION {[1..k -> alphabet] : k \in 0..limit}}

Header == <<OptionLine("ok", 1)>>

(* Data sets of one, two and three ports, whole or wrapped, in and out of    *)
(* order: 3; 9, 5+4, 3+6; 19, 7+6+6; and the lengths in between.          *)
PortLines ==
    {Data(n, hz) : n \in {3, 5, 7, 9, 19}, hz \in {1, 2}} \cup {Data(n, 1) : n \in {4, 6}}
PortFiles == FilesOver(Header, PortLines, MaxDataLines)
PortHints == {None, 0, 2, 3, 9}

(* Two-port sweeps and the noise rows behind them, whole or wrapped.         *)
NoiseLines == {Data(n, hz) : n \in {5, 9}, hz \in {1, 2, 3}} \cup {Data(4, 1)}
NoiseFiles == FilesOver(Header, NoiseLines, MaxNoiseLines)

(* One-port and two-port files with everything else a line can be.           *)
MixedLines ==
    { Line("blank", "ok", 1, 0, TRUE, TRUE),
      Line("comment", "ok", 1, 0, TRUE, TRUE),
      OptionLine("ok", 1), OptionLine("ok", 2),
      OptionLine("malformed", 1), OptionLine("unsupported", 1),
      Line("keyword", "ok", 1, 0, TRUE, TRUE),
      Line("keyword", "malformed", 1, 0, TRUE, TRUE),
      Line("data", "malformed", 3, 1, TRUE, TRUE),
      Data(3, 1), Data(5, 1), Data(5, -9), Data(5, 9), Data(4, 1), Data(9, 1), Data(9, 2),
      Line("data", "ok", 9, 3, FALSE, TRUE),
      Line("data", "ok", 5, 1, TRUE, FALSE) }

(* parse hands this reader only files whose first line with content is not a *)
(* keyword (sniff_version).                                                  *)
Sniffed(f) ==
    LET content == {i \in 1..Len(f) : f[i].kind \notin {"blank", "comment"}}
    IN  content # {} => f[Min(content)].kind # "keyword"

MixedFiles == {f \in FilesOver(<<>>, MixedLines, MaxDataLines) : Sniffed(f)} \cup NoiseFiles
MixedHints == {None, 2}
=============================================================================

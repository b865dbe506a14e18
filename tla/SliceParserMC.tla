--------------------------- MODULE SliceParserMC ---------------------------
(* Messages for SliceParser: source of three bits, variable fields of one and *)
(* of more slices.                                                          *)
EXTENDS SliceParser

Msg(tcode, src, fields, ts) == [tcode |-> tcode, src |-> src, fields |-> fields, timestamp |-> ts]

\* Every kind of message with small and with large fields, and with a time stamp
LargeOf(width) == IF width = Var THEN 193 ELSE 2^width - 1
SmallOf(width) == IF width = Var THEN 5 ELSE 1
Fill(tcode, second, F(_)) ==
  LET widths == Layout(tcode, <<0, second>>) IN
  [i \in DOMAIN widths |->
     IF i = 2 /\ tcode \in WithCount THEN second
     ELSE IF i = 1 /\ tcode = RESOURCEFULL THEN 8 + second
     ELSE F(widths[i])]

EveryMessage ==
  UNION {{Msg(tcode, 1, Fill(tcode, second, SmallOf), NoTimestamp),
          Msg(tcode, 3, Fill(tcode, second, LargeOf), NoTimestamp),
          Msg(tcode, 2, Fill(tcode, second, SmallOf), 64)} :
           <<tcode, second>> \in Supported \X {0, 1}}

\* Messages that follow others
FewMessages ==
  {Msg(DATA_ACQUISITION, 1, <<2, 200>>, NoTimestamp), Msg(DIRECT_BRANCH, 1, <<3>>, NoTimestamp)}

\* A message of an unsupported code; data acquisitions with data wider than a word,
\* than the decoder takes, and than the server takes, and one with such a tag
SomeJunk == {<<20, 3>>, <<28, 9, 4, 131>>, <<28, 9, 4, 8, 7>>, <<28, 9, 4, 8, 4, 4, 7>>, <<28, 4, 8, 5, 7>>}

\* A null slice, the end of a message, the start of a data acquisition
SomeNoise == {0, 255, 28}
=============================================================================

---------------------------- MODULE MCAppControl ----------------------------
(* Payloads for AppControl: none, one that fits, one whose loader is kept   *)
(* though it is cut, one cut before its loader, and the longest.            *)
EXTENDS AppControl

Text(len, encoded, loader) == [len |-> len, encoded |-> encoded, loader |-> loader]

MCPayloads ==
  {Text(0, 0, 0), Text(20, 24, 20), Text(500, 500, 10), Text(4096, 12288, 4096)}
=============================================================================

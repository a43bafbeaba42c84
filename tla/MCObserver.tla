----------------------------- MODULE MCObserver -----------------------------
(***************************************************************************)
(* Six documents: a delta, a last chunk with its usage, a usage that          *)
(* contradicts it, a usage of the wrong type, two tool calls, and two more    *)
(* choices; each comes as a whole event, and some in parts.                  *)
(***************************************************************************)
EXTENDS Observer, TLC
CONSTANTS delta, last, other, broken, calls, second

Usage(p, c, t, h, r) == [prompt |-> p, completion |-> c, total |-> t, cached |-> h,
                         reasoning |-> r]
Plain(i) == [index |-> i, finish |-> Absent, tools |-> Absent, text |-> TRUE]

Docs6 ==
  (delta  :> [usage |-> Absent, choices |-> <<Plain(0)>>]) @@
  (last   :> [usage |-> Usage(2, 1, 3, 1, 1),
              choices |-> <<[Plain(0) EXCEPT !.finish = "stop"]>>]) @@
  (other  :> [usage |-> Usage(2, 3, 4, Absent, 2),
              choices |-> <<[Plain(0) EXCEPT !.finish = "length"], Invalid>>]) @@
  (broken :> [usage |-> Invalid, choices |-> Absent]) @@
  (calls  :> [usage |-> Usage(1, Absent, Absent, 2, 1),
              choices |-> <<[Plain(0) EXCEPT !.tools = <<0, 1>>, !.text = FALSE]>>]) @@
  (second :> [usage |-> Absent,
              choices |-> <<[Plain(1) EXCEPT !.tools = <<0>>], Plain(2)>>])

Chunks ==
  {<<Prefix, Colon, j, LF, LF>> : j \in Json}
    \cup {<<LF>>, <<CR>>, <<Text>>, <<Prefix, Colon, delta>>, <<Prefix, Colon, last, CR, LF>>}
=============================================================================

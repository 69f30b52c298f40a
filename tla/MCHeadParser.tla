------------------------------ MODULE MCHeadParser ------------------------------
(* Texts for TLC: every short line over a few characters as status line, as only *)
(* header line and as one of two, and every short text where a chunk size is due. *)
EXTENDS HeadParser

HTTP == <<72, SP, 50, SP, 79>>
MCHeads ==
  [status : BoundedSeq({72, 50, 9, SP, CR, LF}, 5), lines : {<<>>, <<<<97, COLON, 65>>>>}, body : {<<50>>}]
  \cup [status : {HTTP}, lines : {<<l>> : l \in BoundedSeq({97, 65, SP, COLON, CR, LF}, 4)}, body : {<<97>>}]
  \cup [status : {HTTP}, lines : BoundedSeq(BoundedSeq({97, 65, SP, COLON}, 3), 2), body : {<<>>, <<97>>}]

MCChunkTexts == {s \o rest : s \in BoundedSeq({48, 70, 102, 120, 43, 45, SP, CR}, 4), rest \in {CRLF \o <<97>>, <<LF, 97>>, <<>>}}
===============================================================================

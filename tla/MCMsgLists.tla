----------------------------- MODULE MCMsgLists -----------------------------
(***************************************************************************)
(* An instance of MsgLists: three messages, the inboxes of the SSI and of a *)
(* thread, and two senders.                                                *)
(***************************************************************************)
EXTENDS MsgLists

CONSTANTS m1, m2, m3, tcb_test

MCmsgTable == <<m1, m2, m3>>
MCInbox == {tcb_SSI, tcb_test}
MCNode == {m1, m2, m3, tcb_SSI, tcb_test, msgFree_h}
MCSender == {tcb_SSI, tcb_test}
=============================================================================

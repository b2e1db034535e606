------------------------------ MODULE MCP2Test ------------------------------
(***************************************************************************)
(* An instance of P2Test for TLC.                                          *)
(***************************************************************************)
EXTENDS P2Test

CONSTANTS t1, t2, t3, t4, t5, t6, t7, t8, t9, t10, t11, t12,
          t13, t14, t15, t16

MCBootFree ==
    <<t1, t2, t3, t4, t5, t6, t7, t8, t9, t10, t11, t12,
      t13, t14, t15, t16>>
MCTcb == {tcb_init, tcb_SSI, tcb_lost, tcb_test} \cup ToSet(MCBootFree)
MCCalls == {"CREATESON", "CREATEBROTHER", "TERMINATE", "GETCPUTIME", "WAITFORCLOCK",
            "SPECPRGMGR", "SPECTLBMGR", "SPECSYSMGR", "send", "recv", "manage", "prg", "sys"}
=============================================================================

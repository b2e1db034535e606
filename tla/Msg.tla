-------------------------------- MODULE Msg --------------------------------
(***************************************************************************)
(* Messages (src/msg.c, header/types11.h). A message carries the sender    *)
(* the receiver filters on (m_sender) and the service record msg_ssi, of   *)
(* which the model keeps the service code, the requesting thread and the   *)
(* payload. The text of a user message is never looked at by the kernel    *)
(* after it is queued and is left out.                                     *)
(***************************************************************************)
EXTENDS Tcb

CONSTANTS
    SSI_MAGIC,    \* the address threads use to name the SSI
    MAXMESSAGES   \* size of the message pool

ASSUME MsgAssumption ==
    /\ SSI_MAGIC \notin Tcb \cup {NULL}
    /\ MAXMESSAGES \in Nat \ {0}

SpecServices == {"SPECPRGMGR", "SPECTLBMGR", "SPECSYSMGR"}

\* The service codes of const11.h the model serves; "BAD" stands for a code
\* out of the range 1 .. MAX_REQUEST_VALUE.
Services ==
    {"CREATEBROTHER", "CREATESON", "TERMINATE", "GETCPUTIME", "WAITFORCLOCK",
     "WAKE_UP_PSEUDO_CLOCK", "BAD"} \cup SpecServices

\* USR_MSG marks what one thread sends to another. JUNK is what the SSI
\* copies from address 0 when it wakes a sleeper with payload 0 (ssi.c:155).
Msg == [m_sender : UserTcb \cup {tcb_SSI, SSI_MAGIC},
        service  : Services \cup {"USR_MSG", "JUNK"},
        sender   : UserTcb \cup {NULL},
        payload  : UserTcb \cup {NULL}]

\* What reaches the inbox of the SSI: requests, and the interrupt handler's.
Tick == [m_sender |-> tcb_SSI, service |-> "WAKE_UP_PSEUDO_CLOCK",
         sender |-> NULL, payload |-> NULL]
Request == [m_sender : UserTcb, service : Services, sender : UserTcb,
            payload : UserTcb \cup {NULL}]

UserMsg(from) ==
    [m_sender |-> from, service |-> "USR_MSG", sender |-> NULL, payload |-> NULL]

\* What SSIRequest makes thread t send: its own address and the service.
RequestMsg(t, service, payload) ==
    [m_sender |-> t, service |-> service, sender |-> t, payload |-> payload]

\* Does a MsgRecv from source accept m? ANYMESSAGE is the null pointer.
Accepts(source, m) == source = NULL \/ m.m_sender = source

\* The messages of an inbox popMessage may return, by position.
Matching(inbox, source) == {i \in 1 .. Len(inbox) : Accepts(source, inbox[i])}

\* Mutant: the last one that matches.
popMessageLast(inbox, source) ==
    CHOOSE i \in Matching(inbox, source) :
        \A j \in Matching(inbox, source) : i >= j

\* The position of the message popMessage takes: the first that matches.
popMessage(inbox, source) ==
    CHOOSE i \in Matching(inbox, source) :
        \A j \in Matching(inbox, source) : i <= j

=============================================================================

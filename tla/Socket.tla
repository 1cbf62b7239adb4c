------------------------------- MODULE Socket -------------------------------
(***************************************************************************)
(* The socket calls of book/Network/socket.c over the TCP4 protocol.       *)
(*                                                                         *)
(* One program makes the calls, one at a time.  Like TestNetwork, it uses  *)
(* whatever Socket returned without a look.  The network stack runs in     *)
(* timer notifications, so it may take a step between any two of a call's. *)
(* A token that a call hands to the stack stays there until the stack      *)
(* completes it or its child is destroyed; the stack then writes the       *)
(* token's Status and signals its event.  SocketWait does not wait: it     *)
(* passes an event of type EVT_NOTIFY_SIGNAL to WaitForEvent, which        *)
(* refuses it.                                                             *)
(***************************************************************************)
EXTENDS Integers, Sequences, FiniteSets

CONSTANTS
  Fds,        \* the indices of Socketfd
  Memory,     \* the blocks that malloc may give for a struct Socket
  NULL,
  ErrorFds,   \* what an EFI_STATUS becomes when Socket returns it as an int:
              \* negative in a 32-bit build, 0 to 35 in a 64-bit one
  MaxSends    \* bound: how often Send is called

ASSUME SocketAssumption ==
  /\ Fds \subseteq Nat /\ Fds # {}
  /\ NULL \notin Memory
  /\ ErrorFds \subseteq Int
  /\ MaxSends \in Nat

Token == {"connect", "send", "recv", "close"}

VARIABLES
  Socketfd,
  mem,       \* a block of Memory: "none", "live", "freed"
  events,    \* the tokens of a socket that have an event
  tstatus,   \* their CompletionToken.Status
  txData,    \* the number of the Send that m_TransData describes; 0 if none
  child,     \* the TCP4 child: "none", "closed", "configured", "connecting",
             \* "connected", "disconnecting", "destroyed"
  proto,     \* m_pTcp4Protocol is not NULL
  queue,     \* the tokens of a socket that the stack holds
  taken,     \* the stack has taken the data of the send token
  peer,      \* what the other side has got: numbers of Sends
  \* the call under way
  pc, op, this,
  ret,       \* what the last call returned
  fds,       \* what Socket returned to the program and it has not closed
  opened,    \* those of them that Socket returned for a whole socket
  sends,     \* how many times Send was called
  fault,     \* a NULL pointer, or one from outside Socketfd, was used
  \* history, for the properties
  earned,    \* the tokens that once completed with EFI_SUCCESS
  overlapped \* the sockets where Send was called with the last one in the stack

sockVars == <<Socketfd, mem, events, proto>>
stackVars == <<child, queue, taken, peer>>
fdVars == <<fds, opened>>
callVars == <<pc, op, this, ret, fdVars>>
vars == <<sockVars, tstatus, txData, stackVars, callVars, sends, fault, earned,
          overlapped>>

Init ==
  /\ Socketfd = [i \in Fds |-> NULL]
  /\ mem = [s \in Memory |-> "none"]
  /\ events = [s \in Memory |-> {}]
  /\ tstatus = [s \in Memory |-> [t \in Token |-> "success"]]
  /\ txData = [s \in Memory |-> 0]
  /\ child = [s \in Memory |-> "none"] /\ proto = [s \in Memory |-> FALSE]
  /\ queue = [s \in Memory |-> {}] /\ taken = [s \in Memory |-> FALSE]
  /\ peer = [s \in Memory |-> <<>>]
  /\ pc = "idle" /\ op = "none" /\ this = NULL /\ ret = "none"
  /\ fds = {} /\ opened = {} /\ sends = 0 /\ fault = FALSE
  /\ earned = [s \in Memory |-> {}] /\ overlapped = {}

-----------------------------------------------------------------------------
(* The network stack *)

\* The stack is done with token t of s.
Complete(s, t, st) ==
  /\ tstatus' = [tstatus EXCEPT ![s][t] = st]
  /\ queue' = [queue EXCEPT ![s] = @ \ {t}]
  /\ earned' = [earned EXCEPT ![s] =
       IF st = "success" THEN @ \union ({t} \intersect {"send", "recv"}) ELSE @]

Established(s) ==
  /\ child[s] = "connecting" /\ "connect" \in queue[s]
  /\ Complete(s, "connect", "success")
  /\ child' = [child EXCEPT ![s] = "connected"]
  /\ UNCHANGED <<sockVars, txData, taken, peer, callVars, sends, fault, overlapped>>

\* The connection is refused, reset or times out.
Broken(s) ==
  /\ child[s] \in {"connecting", "connected", "disconnecting"}
  /\ \E t \in queue[s] : Complete(s, t, "aborted")
  /\ child' = [child EXCEPT ![s] = IF queue'[s] = {} /\ @ # "disconnecting"
                                      THEN "configured" ELSE @]
  /\ taken' = [taken EXCEPT ![s] = @ /\ "send" \in queue'[s]]
  /\ UNCHANGED <<sockVars, txData, peer, callVars, sends, fault, overlapped>>

\* At Transmit, or as late as there is room, the stack reads m_TransData.
TakeData(s) ==
  /\ "send" \in queue[s] /\ ~taken[s] /\ child[s] # "destroyed"
  /\ taken' = [taken EXCEPT ![s] = TRUE]
  /\ peer' = [peer EXCEPT ![s] = Append(@, txData[s])]
  /\ UNCHANGED <<sockVars, tstatus, txData, child, queue, callVars, sends,
                 fault, earned, overlapped>>

Acknowledged(s) ==
  /\ "send" \in queue[s] /\ taken[s]
  /\ Complete(s, "send", "success")
  /\ taken' = [taken EXCEPT ![s] = FALSE]
  /\ UNCHANGED <<sockVars, txData, child, peer, callVars, sends, fault, overlapped>>

Received(s) ==
  /\ "recv" \in queue[s]
  /\ \E st \in {"success", "aborted"} : Complete(s, "recv", st)
  /\ UNCHANGED <<sockVars, txData, child, taken, peer, callVars, sends, fault, overlapped>>

Closed(s) ==
  /\ child[s] = "disconnecting" /\ queue[s] = {"close"}
  /\ Complete(s, "close", "success")
  /\ UNCHANGED <<sockVars, txData, child, taken, peer, callVars, sends, fault, overlapped>>

Stack ==
  \E s \in Memory : \/ Established(s) \/ Broken(s) \/ TakeData(s)
                    \/ Acknowledged(s) \/ Received(s) \/ Closed(s)

\* What Connect, Transmit, Receive and Close of the child answer.
Answer(s, t) ==
  IF t \notin events[s] THEN "invalid"
  ELSE IF child[s] = "closed" THEN "not_started"
  ELSE IF \/ t \in queue[s]
          \/ child[s] # CASE t = "connect" -> "configured"
                          [] t = "close" -> child[s]
                          [] OTHER -> "connected"
  THEN "denied" ELSE "success"

-----------------------------------------------------------------------------
(* Socket *)

\* Variant: the first slot is taken, free or not.
FreeSlot_First(i) == \A j \in Fds : i <= j
FreeSlot(i) ==
  /\ Socketfd[i] = NULL
  /\ \A j \in Fds : j < i => Socketfd[j] # NULL

TableFull == \A i \in Fds : Socketfd[i] # NULL

\* Variant: the status of a token is left as memset made it.
FirstStatus_Zero == "success"
FirstStatus == "aborted"

\* Socket and Initialize.  When LocateProtocol, CreateChild or OpenProtocol
\* fails, the slot stays taken and the status, cut to an int, is the answer.
\* When malloc fails, the answer is a slot that stays free.
NewSocket ==
  /\ pc = "idle" /\ ~fault
  /\ \/ /\ \/ TableFull /\ ret' = -1
           \/ \E i \in Fds : FreeSlot(i) /\ ret' = i
        /\ UNCHANGED <<sockVars, tstatus, child, opened>>
     \/ \E i \in Fds, s \in Memory, got \in {"nothing", "child", "all"} :
          /\ FreeSlot(i) /\ mem[s] = "none"
          /\ mem' = [mem EXCEPT ![s] = "live"]
          /\ Socketfd' = [Socketfd EXCEPT ![i] = s]
          /\ child' = [child EXCEPT ![s] = IF got = "nothing" THEN @ ELSE "closed"]
          /\ IF got = "all"
             THEN /\ proto' = [proto EXCEPT ![s] = TRUE]
                  /\ events' = [events EXCEPT ![s] = Token]
                  /\ tstatus' = [tstatus EXCEPT ![s] = [t \in Token |-> FirstStatus]]
                  /\ ret' = i
                  /\ opened' = opened \union {i}
             ELSE /\ ret' \in ErrorFds
                  /\ UNCHANGED <<proto, events, tstatus, opened>>
  /\ fds' = fds \union {ret'}
  /\ op' = "socket" /\ this' = NULL
  /\ UNCHANGED <<txData, queue, taken, peer, pc, sends, fault, earned, overlapped>>

-----------------------------------------------------------------------------
(* Connect, Send, Recv *)

\* Close alone uses m_pTcp4Protocol without a look at it.
Begin(o, fd, next) ==
  /\ pc = "idle" /\ ~fault
  /\ fd \in fds
  /\ op' = o
  /\ IF /\ fd \in Fds /\ Socketfd[fd] # NULL
        /\ o = "close" => proto[Socketfd[fd]]
     THEN /\ this' = Socketfd[fd] /\ pc' = next
          /\ ret' = IF o = "close" THEN Answer(Socketfd[fd], o) ELSE "none"
          /\ UNCHANGED fault
     ELSE fault' = TRUE /\ ret' = "none" /\ UNCHANGED <<this, pc>>

Return(r) == pc' = "idle" /\ ret' = r /\ UNCHANGED <<op, this, fdVars>>

\* Config, whose result Connect ignores; without m_pTcp4ConfigData, which a
\* failed Socket leaves NULL, it does nothing.
Connect(fd) ==
  /\ Begin("connect", fd, "request")
  /\ child' = IF ~fault' /\ proto[this'] /\ child[this'] = "closed"
              THEN [child EXCEPT ![this'] = "configured"] ELSE child
  /\ UNCHANGED <<sockVars, tstatus, txData, queue, taken, peer, fdVars, sends, earned,
                 overlapped>>

ConfigureFails(fd) ==
  /\ Begin("connect", fd, "request")
  /\ UNCHANGED <<sockVars, tstatus, txData, stackVars, fdVars, sends, earned, overlapped>>

\* Variant: the fragment table keeps the buffer of the first Send.
Fill_Once(s) == IF txData[s] = 0 THEN sends + 1 ELSE txData[s]
Fill(s) == sends + 1

\* m_TransData is filled in, whether or not the stack still has the last one.
Send(fd) ==
  /\ sends < MaxSends
  /\ Begin("send", fd, "request")
  /\ sends' = sends + 1
  /\ IF ~fault' /\ proto[this']
     THEN /\ txData' = [txData EXCEPT ![this'] = Fill(this')]
          /\ overlapped' = IF "send" \in queue[this']
                           THEN overlapped \union {this'} ELSE overlapped
     ELSE UNCHANGED <<txData, overlapped>>
  /\ UNCHANGED <<sockVars, tstatus, stackVars, fdVars, earned>>

Recv(fd) ==
  /\ Begin("recv", fd, "request")
  /\ UNCHANGED <<sockVars, tstatus, txData, stackVars, fdVars, sends, earned, overlapped>>

\* The token goes to the stack, unless the stack refuses it.
Request ==
  /\ pc = "request"
  /\ LET a == IF proto[this] THEN Answer(this, op) ELSE "not_found" IN
     IF a = "success"
     THEN /\ queue' = [queue EXCEPT ![this] = @ \union {op}]
          /\ child' = [child EXCEPT ![this] = IF op = "connect" THEN "connecting" ELSE @]
          /\ pc' = "report"
          /\ UNCHANGED <<op, this, ret, fdVars>>
     ELSE Return(a) /\ UNCHANGED <<queue, child>>
  /\ UNCHANGED <<sockVars, tstatus, txData, taken, peer, sends, fault, earned, overlapped>>

\* SocketWait has returned; Connect returns what WaitForEvent returned, Send and
\* Recv what is in the token.
Report ==
  /\ pc = "report"
  /\ Return(IF op = "connect" THEN "invalid" ELSE tstatus[this][op])
  /\ UNCHANGED <<sockVars, tstatus, txData, stackVars, sends, fault, earned, overlapped>>

-----------------------------------------------------------------------------
(* Close and Destroy *)

\* Variants: the events are closed before the child is destroyed; the child is
\* left alone.
After_EventsFirst == [close |-> "events", events |-> "child", child |-> "free"]
After_NoDestroy == [close |-> "events", events |-> "free", child |-> "free"]
\* What Close does next, and Destroy.
After == [close |-> "child", child |-> "events", events |-> "free"]

\* Close passes CloseToken to the stack and goes on whatever the answer is.
Close(fd) ==
  /\ Begin("close", fd, After["close"])
  /\ IF ret' = "success"
     THEN /\ queue' = [queue EXCEPT ![this'] = @ \union {"close"}]
          /\ child' = [child EXCEPT ![this'] = "disconnecting"]
     ELSE UNCHANGED <<queue, child>>
  /\ IF fault' THEN UNCHANGED fdVars
     ELSE fds' = fds \ {fd} /\ opened' = opened \ {fd}
  /\ UNCHANGED <<sockVars, tstatus, txData, taken, peer, sends, earned, overlapped>>

\* DestroyChild aborts what the stack still holds.
DestroyChild ==
  /\ pc = "child"
  /\ child' = [child EXCEPT ![this] = "destroyed"]
  /\ tstatus' = [tstatus EXCEPT ![this] =
       [t \in Token |-> IF t \in queue[this] THEN "aborted" ELSE @[t]]]
  /\ queue' = [queue EXCEPT ![this] = {}]
  /\ taken' = [taken EXCEPT ![this] = FALSE]
  /\ pc' = After[pc]
  /\ UNCHANGED <<sockVars, txData, peer, op, this, ret, fdVars, sends, fault, earned,
                 overlapped>>

\* CloseToken's event is not closed.
CloseEvents ==
  /\ pc = "events"
  /\ events' = [events EXCEPT ![this] = @ \intersect {"close"}]
  /\ pc' = After[pc]
  /\ UNCHANGED <<Socketfd, mem, proto, tstatus, txData, stackVars, op, this, ret,
                 fdVars, sends, fault, earned, overlapped>>

\* What was in the freed struct, and the history of its socket, is forgotten.
FreeSocket ==
  /\ pc = "free"
  /\ mem' = [mem EXCEPT ![this] = "freed"]
  /\ Socketfd' = [i \in Fds |-> IF Socketfd[i] = this THEN NULL ELSE Socketfd[i]]
  /\ proto' = [proto EXCEPT ![this] = FALSE]
  /\ events' = [events EXCEPT ![this] = {}]
  /\ tstatus' = [tstatus EXCEPT ![this] = [t \in Token |-> "success"]]
  /\ txData' = [txData EXCEPT ![this] = 0]
  /\ peer' = [peer EXCEPT ![this] = <<>>]
  /\ earned' = [earned EXCEPT ![this] = {}]
  /\ overlapped' = overlapped \ {this}
  /\ pc' = "idle" /\ this' = NULL
  /\ UNCHANGED <<child, queue, taken, op, ret, fdVars, sends, fault>>

-----------------------------------------------------------------------------
Program ==
  \/ NewSocket
  \/ \E fd \in fds : \/ Connect(fd) \/ ConfigureFails(fd) \/ Send(fd)
                     \/ Recv(fd) \/ Close(fd)
  \/ Request \/ Report
  \/ DestroyChild \/ CloseEvents \/ FreeSocket

Next == Program \/ Stack

Spec == Init /\ [][Next]_vars

-----------------------------------------------------------------------------
(* Properties *)

TypeOK ==
  /\ Socketfd \in [Fds -> Memory \union {NULL}]
  /\ mem \in [Memory -> {"none", "live", "freed"}]
  /\ events \in [Memory -> SUBSET Token]
  /\ tstatus \in [Memory -> [Token -> {"success", "aborted"}]]
  /\ txData \in [Memory -> 0..MaxSends]
  /\ child \in [Memory -> {"none", "closed", "configured", "connecting",
                           "connected", "disconnecting", "destroyed"}]
  /\ proto \in [Memory -> BOOLEAN]
  /\ queue \in [Memory -> SUBSET Token] /\ taken \in [Memory -> BOOLEAN]
  /\ peer \in [Memory -> Seq(0..MaxSends)]
  /\ pc \in {"idle", "request", "report", "child", "events", "free"}
  /\ pc # "idle" => this \in Memory
  /\ fds \subseteq Fds \union ErrorFds \union {-1} /\ opened \subseteq fds
  /\ sends \in 0..MaxSends
  /\ fault \in BOOLEAN

\* Whatever the stack holds is there when it completes: the struct that its
\* token lies in, and the token's event.  Close destroys the child, which takes
\* the tokens back, before it closes the events and frees the struct.
TokensLive ==
  \A s \in Memory : queue[s] # {} =>
    /\ mem[s] = "live" /\ queue[s] \subseteq events[s]
    /\ child[s] \notin {"none", "closed", "destroyed"}

\* No socket is lost and none is in two slots: a struct or a child that exists
\* is in exactly one slot of Socketfd, also if Socket or Close failed half-way.
TableOwns ==
  \A s \in Memory :
    mem[s] = "live" \/ child[s] \notin {"none", "destroyed"} =>
      Cardinality({i \in Fds : Socketfd[i] = s}) = 1

\* A descriptor that Socket returned for a whole socket stays that socket's
\* until the program closes it, whatever other calls fail half-way or use.  So
\* no call goes wrong in a program that only has such descriptors; it can in
\* one that has what a failed Socket returned, which in a 64-bit build looks
\* like a descriptor and may be that of another socket.
DescriptorsWork ==
  /\ \A fd \in opened : /\ Socketfd[fd] # NULL /\ mem[Socketfd[fd]] = "live"
                        /\ proto[Socketfd[fd]]
  /\ fault => fds # opened

\* Send and Recv do not wait, so the status they return may be an old one; but
\* it is EFI_SUCCESS only if one of the socket's sends, or receives, has
\* succeeded (Initialize sets EFI_ABORTED in the token).
SuccessIsEarned ==
  pc = "idle" /\ op \in {"send", "recv"} /\ ret = "success" => op \in earned[this]

Increasing(q) == \A i, j \in DOMAIN q : i < j => q[i] < q[j]

\* The other side gets the data of each Send at most once, and in order, from
\* a program that never calls Send while the stack has the token of the last.
SentOnceUnlessOverlapped ==
  \A s \in Memory \ overlapped : Increasing(peer[s])

\* socket.c:167: Send does SocketWait(this->SendToken.CompletionToken.Event)
\* before it returns, so the next Send may fill m_TransData again.
SentOnce == \A s \in Memory : Increasing(peer[s])
=============================================================================

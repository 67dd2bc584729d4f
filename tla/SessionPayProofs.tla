--------------------------- MODULE SessionPayProofs ---------------------------
(***************************************************************************)
(* Theorems about SessionPay, for any number of clients, calls, requests   *)
(* and posts.                                                              *)
(*                                                                         *)
(* A client pays twice only by two calls that can both still lead to a     *)
(* transfer.  Such calls are called Live here: at work, or with a user     *)
(* operation at the bundler, or mined.  The invariant says that of a       *)
(* client's live calls all but one were abandoned, and that a client which *)
(* may still post has abandoned all but the one it listens to.             *)
(***************************************************************************)
EXTENDS SessionPay, SumTheorems

Answers == {"paid", "failed", "again"}

Sent(c) == c \in mined \/ \E op \in mempool : op.call = c
Live(c) == calls[c].stage \in InProgress \/ Sent(c)

\* A client listens to a call of its own that is at work.
ListensWell ==
    \A x \in Clients : clients[x].listens # NoCall =>
        /\ clients[x].state = "paying"
        /\ calls[clients[x].listens].by = x
        /\ calls[clients[x].listens].stage \in InProgress

\* What was sent was sent by a call that came that far.
SentLate == \A c \in Calls : Sent(c) => calls[c].stage \in {"waiting", "done"}

\* A client that may still post has given up on its live calls but the one it hears.
PayingAbandoned ==
    \A c \in Calls : \A x \in Clients :
        calls[c].by = x /\ clients[x].state = "paying" /\ Live(c) =>
            c \in abandoned \/ c = clients[x].listens

\* Of two live calls of one client, one was given up on.
LiveAbandoned ==
    \A c, d \in Calls :
        c # d /\ Live(c) /\ Live(d) /\ calls[c].by = calls[d].by => c \in abandoned \/ d \in abandoned

PayInv ==
    /\ SessionPayTypeOK
    /\ ListensWell
    /\ SentLate
    /\ PayingAbandoned
    /\ LiveAbandoned
    /\ AnsweredPaidMined

-----------------------------------------------------------------------------
\* The queue

InLine == Inside \cup {"queued"}

\* Of two calls in line one is behind the other; the map's entry is the last in
\* line; and whoever is inside has only open gates before it.
LineOrdered ==
    /\ \A c, d \in Calls : c # d /\ calls[c].stage \in InLine /\ calls[d].stage \in InLine =>
          c \in calls[d].behind \/ d \in calls[c].behind
    /\ \A c \in Calls : calls[c].stage \in InLine =>
          /\ tail # NoCall
          /\ c = tail \/ c \in calls[tail].behind
    /\ tail # NoCall => calls[tail].stage \in InLine
    /\ \A c \in Calls : calls[c].stage \in Inside =>
          \A d \in calls[c].behind : calls[d].stage = "done"

LineInv == SessionPayTypeOK /\ LineOrdered

-----------------------------------------------------------------------------
\* Types

\* A client that is free to post has a post left.
PostsLeft ==
    \A x \in Clients :
        clients[x].state = "paying" /\ clients[x].listens = NoCall => clients[x].posts < MaxPosts

LEMMA AgainTyped == \A x \in Clients : again(x) \in {"paying", "failed"}
  BY DEF again

LEMMA AnsweredTyped ==
  ASSUME SessionPayTypeOK, NEW c \in Calls \cup {NoCall}, NEW answer \in Answers, answered(c, answer)
  PROVE  clients' \in [Clients -> Client]
<1> SUFFICES ASSUME NEW x \in Clients
             PROVE  (IF clients[x].listens # c THEN clients[x]
                     ELSE [clients[x] EXCEPT !.listens = NoCall,
                              !.state = IF answer = "again" THEN again(x) ELSE answer]) \in Client
  BY DEF answered
<1>1. clients[x] \in Client
  BY DEF SessionPayTypeOK
<1>2. (IF answer = "again" THEN again(x) ELSE answer) \in {"paying", "paid", "failed"}
  BY AgainTyped DEF Answers
<1> QED  BY <1>1, <1>2 DEF Client

LEMMA StageTyped ==
  ASSUME SessionPayTypeOK, NEW c \in Calls, NEW stage \in Stage
  PROVE  [calls EXCEPT ![c].stage = stage] \in [Calls -> Call]
<1>1. calls \in [Calls -> Call] /\ calls[c] \in Call
  BY DEF SessionPayTypeOK
<1>2. [calls[c] EXCEPT !.stage = stage] \in Call
  BY <1>1 DEF Call
<1> QED  BY <1>1, <1>2

LEMMA QueuedTyped ==
  ASSUME SessionPayTypeOK, NEW c \in Calls, NEW behind \in SUBSET Calls
  PROVE  [calls EXCEPT ![c].stage = "queued", ![c].behind = behind] \in [Calls -> Call]
<1>1. calls \in [Calls -> Call] /\ calls[c] \in Call
  BY DEF SessionPayTypeOK
<1>2. [calls[c] EXCEPT !.stage = "queued", !.behind = behind] \in Call
  BY <1>1 DEF Call, Stage
<1> QED  BY <1>1, <1>2

LEMMA NonceTyped ==
  ASSUME SessionPayTypeOK, NEW c \in Calls, NEW stage \in Stage, NEW n \in 0..MaxNonce
  PROVE  [calls EXCEPT ![c].stage = stage, ![c].nonce = n] \in [Calls -> Call]
<1>1. calls \in [Calls -> Call] /\ calls[c] \in Call
  BY DEF SessionPayTypeOK
<1>2. [calls[c] EXCEPT !.stage = stage, !.nonce = n] \in Call
  BY <1>1 DEF Call
<1> QED  BY <1>1, <1>2

LEMMA BehindTyped == SessionPayTypeOK => behindAll \in SUBSET Calls
<1> SUFFICES ASSUME SessionPayTypeOK, tail # NoCall
             PROVE  calls[tail].behind \cup {tail} \subseteq Calls
  BY DEF behindAll
<1>1. tail \in Calls /\ calls[tail] \in Call
  BY DEF SessionPayTypeOK
<1> QED  BY <1>1 DEF Call

LEMMA BareTyped ==
  \A x \in Clients \cup {NoCall}, stage \in Stage : Bare(x, stage) \in Call
  BY SessionPayAssumption DEF Bare, Call

LEMMA OverTyped ==
  ASSUME SessionPayTypeOK, NEW c \in Calls
  PROVE  over(c) \in Call /\ over(c).stage = "done" /\ over(c).by = calls[c].by
<1>1. calls[c].by \in Clients \cup {NoCall}
  BY DEF SessionPayTypeOK, Call
<1>2. over(c) \in Call
  BY <1>1, BareTyped DEF over, Stage
<1> QED  BY <1>2 DEF over, Bare

LEMMA ReleaseTyped ==
  ASSUME SessionPayTypeOK, NEW c \in Calls, release(c)
  PROVE  calls' \in [Calls -> Call] /\ tail' \in Calls \cup {NoCall}
  BY OverTyped DEF release, SessionPayTypeOK

LEMMA TakenTyped ==
  ASSUME SessionPayTypeOK, NEW c \in Calls, takenByBundler(c)
  PROVE  mempool' \subseteq UserOp
  BY DEF takenByBundler, SessionPayTypeOK, UserOp

LEMMA AttemptFailsTyped ==
  ASSUME SessionPayTypeOK, NEW c \in Calls, attemptFails(c),
         mempool' \subseteq UserOp, UNCHANGED <<nonce, mined>>
  PROVE  SessionPayTypeOK'
<1>1. calls' \in [Calls -> Call] /\ tail' \in Calls \cup {NoCall}
  BY ReleaseTyped DEF attemptFails
<1>2. clients' \in [Clients -> Client]
  BY AnsweredTyped DEF attemptFails, Answers
<1> QED  BY <1>1, <1>2 DEF attemptFails, SessionPayTypeOK

LEMMA TypeInit == Init => SessionPayTypeOK
<1> SUFFICES ASSUME Init PROVE SessionPayTypeOK
  OBVIOUS
<1>1. clients \in [Clients -> Client]
  BY SessionPayAssumption DEF Init, Client
<1>2. Bare(NoCall, "unused") \in Call
  BY BareTyped DEF Stage
<1> QED  BY <1>1, <1>2, SessionPayAssumption DEF Init, SessionPayTypeOK

LEMMA TypeStep == SessionPayTypeOK /\ PostsLeft /\ [Next]_vars => SessionPayTypeOK'
<1> SUFFICES ASSUME SessionPayTypeOK, PostsLeft, [Next]_vars PROVE SessionPayTypeOK'
  OBVIOUS
<1>1. ASSUME NEW x \in Clients, NEW c \in Calls, post(x, c) PROVE SessionPayTypeOK'
  <2>0. clients \in [Clients -> Client] /\ clients[x] \in Client
    BY DEF SessionPayTypeOK
  <2>1. clients' \in [Clients -> Client]
    <3>1. CASE clients[x].request \in pending
      <4>1. clients[x].posts + 1 \in 0..MaxPosts
        BY <1>1, <2>0, SessionPayAssumption DEF post, Client, PostsLeft
      <4>2. [clients[x] EXCEPT !.posts = @ + 1, !.listens = c] \in Client
        BY <4>1, <2>0 DEF Client
      <4> QED  BY <1>1, <2>0, <3>1, <4>2 DEF post
    <3>2. CASE clients[x].request \notin pending
      <4>1. [clients[x] EXCEPT !.state = "failed"] \in Client
        BY <2>0 DEF Client
      <4> QED  BY <1>1, <2>0, <3>2, <4>1 DEF post
    <3> QED  BY <3>1, <3>2
  <2>2. Bare(x, "checks") \in Call
    BY BareTyped DEF Stage
  <2> QED  BY <1>1, <2>1, <2>2 DEF post, SessionPayTypeOK, chain
<1>2. ASSUME NEW x \in Clients, abort(x) PROVE SessionPayTypeOK'
  <2>1. clients[x].listens \in Calls
    BY <1>2 DEF abort, SessionPayTypeOK, Client
  <2>2. clients' \in [Clients -> Client]
    BY <1>2, <2>1, AnsweredTyped DEF abort, Answers
  <2> QED  BY <1>2, <2>1, <2>2 DEF abort, SessionPayTypeOK, chain
<1>3. ASSUME NEW c \in Calls, checksFail(c) PROVE SessionPayTypeOK'
  <2>1. clients' \in [Clients -> Client]
    BY <1>3, AnsweredTyped DEF checksFail, Answers
  <2>2. calls' \in [Calls -> Call]
    BY <1>3, OverTyped DEF checksFail, SessionPayTypeOK
  <2> QED  BY <1>3, <2>1, <2>2 DEF checksFail, SessionPayTypeOK, chain
<1>4. ASSUME NEW c \in Calls, enqueue(c) PROVE SessionPayTypeOK'
  <2>1. calls' \in [Calls -> Call]
    BY <1>4, BehindTyped, QueuedTyped DEF enqueue
  <2> QED  BY <1>4, <2>1 DEF enqueue, SessionPayTypeOK, chain
<1>5. ASSUME NEW c \in Calls, takeTurn(c) PROVE SessionPayTypeOK'
  <2>1. calls' \in [Calls -> Call]
    BY <1>5, StageTyped DEF takeTurn, goes, Stage
  <2> QED  BY <1>5, <2>1 DEF takeTurn, SessionPayTypeOK, chain
<1>6. ASSUME NEW c \in Calls, getNonce(c) PROVE SessionPayTypeOK'
  <2>1. PICK n \in {nonce, 0} :
               calls' = [calls EXCEPT ![c].stage = "sending", ![c].nonce = n]
    BY <1>6 DEF getNonce
  <2>2. n \in 0..MaxNonce /\ "sending" \in Stage
    BY SessionPayAssumption DEF SessionPayTypeOK, Stage
  <2>3. calls' \in [Calls -> Call]
    BY <2>1, <2>2, NonceTyped
  <2> QED  BY <1>6, <2>3 DEF getNonce, SessionPayTypeOK, chain
<1>7. ASSUME NEW c \in Calls, submitted(c) PROVE SessionPayTypeOK'
  <2>1. calls' \in [Calls -> Call]
    <3>1. 0 \in 0..MaxNonce /\ "waiting" \in Stage
      BY SessionPayAssumption DEF Stage
    <3> QED  BY <1>7, <3>1, NonceTyped DEF submitted
  <2> QED  BY <1>7, <2>1, TakenTyped DEF submitted, SessionPayTypeOK
<1>8. ASSUME NEW c \in Calls, submitFails(c) PROVE SessionPayTypeOK'
  <2>1. mempool' \subseteq UserOp
    BY <1>8, TakenTyped DEF submitFails, SessionPayTypeOK
  <2> QED  BY <1>8, <2>1, AttemptFailsTyped DEF submitFails
<1>9. ASSUME NEW c \in Calls, receiptMissing(c) PROVE SessionPayTypeOK'
  <2>1. mempool' \subseteq UserOp
    BY <1>9 DEF receiptMissing, chain, SessionPayTypeOK
  <2> QED  BY <1>9, <2>1, AttemptFailsTyped DEF receiptMissing, chain
<1>10. ASSUME NEW c \in Calls, receiptArrives(c) PROVE SessionPayTypeOK'
  <2>1. clients' \in [Clients -> Client]
    BY <1>10, AnsweredTyped DEF receiptArrives, Answers
  <2> QED  BY <1>10, <2>1, ReleaseTyped DEF receiptArrives, SessionPayTypeOK, chain
<1>11. ASSUME NEW op \in mempool, opMined(op) PROVE SessionPayTypeOK'
  BY <1>11, SessionPayAssumption DEF opMined, SessionPayTypeOK, UserOp
<1>12. ASSUME NEW op \in mempool, opDropped(op) PROVE SessionPayTypeOK'
  BY <1>12 DEF opDropped, SessionPayTypeOK
<1>13. CASE otherOpMined
  BY <1>13, SessionPayAssumption DEF otherOpMined, SessionPayTypeOK
<1>14. ASSUME NEW q \in Requests, rowChanges(q) PROVE SessionPayTypeOK'
  BY <1>14 DEF rowChanges, SessionPayTypeOK, chain
<1>15. CASE Crash
  <2>1. clients' \in [Clients -> Client]
    <3>1. \A x \in Clients : clients[x] \in Client
      BY DEF SessionPayTypeOK
    <3>2. \A k \in Client : [k EXCEPT !.state = "failed", !.listens = NoCall] \in Client
      BY DEF Client
    <3> QED  BY <1>15, <3>1, <3>2 DEF Crash
  <2>2. calls' \in [Calls -> Call]
    BY <1>15, OverTyped DEF Crash, SessionPayTypeOK
  <2> QED  BY <1>15, <2>1, <2>2 DEF Crash, SessionPayTypeOK, chain
<1>16. CASE UNCHANGED vars
  BY <1>16 DEF vars, chain, SessionPayTypeOK
<1> QED
  BY <1>1, <1>2, <1>3, <1>4, <1>5, <1>6, <1>7, <1>8, <1>9, <1>10, <1>11, <1>12, <1>13,
     <1>14, <1>15, <1>16 DEF Next

LEMMA PostsLeftAnswered ==
  ASSUME SessionPayTypeOK, PostsLeft, NEW c \in Calls, NEW answer \in Answers, answered(c, answer)
  PROVE  PostsLeft'
<1> SUFFICES ASSUME NEW x \in Clients, clients'[x].state = "paying", clients'[x].listens = NoCall
             PROVE  clients'[x].posts < MaxPosts
  BY DEF PostsLeft
<1>1. clients[x] \in Client
  BY DEF SessionPayTypeOK
<1>2. CASE clients[x].listens # c
  BY <1>2 DEF answered, PostsLeft
<1>3. CASE clients[x].listens = c
  <2>1. clients'[x] = [clients[x] EXCEPT !.listens = NoCall,
                           !.state = IF answer = "again" THEN again(x) ELSE answer]
    BY <1>3 DEF answered
  <2>2. clients'[x].state = (IF answer = "again" THEN again(x) ELSE answer)
        /\ clients'[x].posts = clients[x].posts
    BY <1>1, <2>1 DEF Client
  <2>3. again(x) = "paying"
    BY <2>2 DEF Answers
  <2> QED  BY <2>2, <2>3 DEF again
<1> QED  BY <1>2, <1>3

LEMMA PostsLeftStep == SessionPayTypeOK /\ PostsLeft /\ [Next]_vars => PostsLeft'
<1> SUFFICES ASSUME SessionPayTypeOK, PostsLeft, [Next]_vars PROVE PostsLeft'
  OBVIOUS
<1>1. ASSUME NEW x \in Clients, NEW c \in Calls, post(x, c) PROVE PostsLeft'
  BY <1>1, SessionPayAssumption DEF post, PostsLeft, SessionPayTypeOK, Client
<1>2. ASSUME NEW x \in Clients, abort(x) PROVE PostsLeft'
  <2>1. clients[x].listens \in Calls
    BY <1>2 DEF abort, SessionPayTypeOK, Client
  <2> QED  BY <1>2, <2>1, PostsLeftAnswered DEF abort, Answers
<1>3. ASSUME NEW c \in Calls, checksFail(c) PROVE PostsLeft'
  BY <1>3, PostsLeftAnswered DEF checksFail, Answers
<1>4. ASSUME NEW c \in Calls, attemptFails(c) PROVE PostsLeft'
  BY <1>4, PostsLeftAnswered DEF attemptFails, Answers
<1>5. ASSUME NEW c \in Calls, receiptArrives(c) PROVE PostsLeft'
  BY <1>5, PostsLeftAnswered DEF receiptArrives, Answers
<1>6. CASE Crash
  BY <1>6 DEF Crash, PostsLeft, SessionPayTypeOK, Client
<1>7. CASE UNCHANGED clients
  BY <1>7 DEF PostsLeft
<1> QED
  BY <1>1, <1>2, <1>3, <1>4, <1>5, <1>6, <1>7
     DEF Next, vars, enqueue, takeTurn, getNonce, submitted, submitFails, receiptMissing,
         opMined, opDropped, otherOpMined, rowChanges

LEMMA PostsLeftInit == Init => PostsLeft
  BY SessionPayAssumption DEF Init, PostsLeft

\* Clients, calls, the queue and the chain keep to their types.
THEOREM SessionPayTyped == Spec => []SessionPayTypeOK
<1>1. Spec => [](SessionPayTypeOK /\ PostsLeft)
  BY TypeInit, TypeStep, PostsLeftInit, PostsLeftStep, PTL DEF Spec
<1> QED  BY <1>1, PTL

-----------------------------------------------------------------------------
\* A client pays twice only by a call it gave up on

\* What an answer leaves of a client.
LEMMA AnsweredClient ==
  ASSUME SessionPayTypeOK, NEW c \in Calls, NEW answer \in Answers, answered(c, answer),
         NEW x \in Clients
  PROVE  /\ clients[x].listens # c => clients'[x] = clients[x]
         /\ clients[x].listens = c =>
              /\ clients'[x].listens = NoCall
              /\ clients'[x].state = "paying" => answer = "again"
              /\ clients'[x].state = "paid" => answer = "paid"
<1>1. clients[x] \in Client
  BY DEF SessionPayTypeOK
<1>2. CASE clients[x].listens # c
  BY <1>2 DEF answered
<1>3. CASE clients[x].listens = c
  <2>1. clients'[x] = [clients[x] EXCEPT !.listens = NoCall,
                           !.state = IF answer = "again" THEN again(x) ELSE answer]
    BY <1>3 DEF answered
  <2>2. /\ clients'[x].listens = NoCall
        /\ clients'[x].state = (IF answer = "again" THEN again(x) ELSE answer)
    BY <1>1, <2>1 DEF Client
  <2> QED  BY <1>3, <2>2, AgainTyped DEF Answers
<1> QED  BY <1>2, <1>3

\* A step that answers nobody, starts no call, and gives up on none.
LEMMA QuietStep ==
  ASSUME PayInv, SessionPayTypeOK', UNCHANGED <<clients, abandoned, records>>, mined \subseteq mined',
         \A c \in Calls : /\ calls'[c].by = calls[c].by
                          /\ calls[c].stage \in InProgress => calls'[c].stage \in InProgress
                          /\ Live(c)' => Live(c)
  PROVE  ListensWell' /\ PayingAbandoned' /\ LiveAbandoned' /\ AnsweredPaidMined'
<1>1. \A x \in Clients : clients[x].listens \in Calls \cup {NoCall}
  BY DEF PayInv, SessionPayTypeOK, Client
<1>2. ListensWell'
  BY <1>1 DEF PayInv, ListensWell
<1>3. PayingAbandoned'
  BY DEF PayInv, PayingAbandoned
<1>4. LiveAbandoned'
  BY DEF PayInv, LiveAbandoned
<1>5. AnsweredPaidMined'
  BY DEF PayInv, AnsweredPaidMined, SessionPayTypeOK
<1> QED  BY <1>2, <1>3, <1>4, <1>5

\* A step that tells the client of c, if it still listens, how c ended.
LEMMA AnswerStep ==
  ASSUME PayInv, SessionPayTypeOK', NEW c \in Calls, NEW answer \in Answers, answered(c, answer),
         abandoned \subseteq abandoned',
         records \subseteq records', records' \subseteq mined',
         answer = "paid" => c \in records',
         answer = "again" => c \in abandoned' \/ ~Live(c)',
         \A d \in Calls : /\ calls'[d].by = calls[d].by
                          /\ d # c /\ calls[d].stage \in InProgress => calls'[d].stage \in InProgress
                          /\ Live(d)' => Live(d)
  PROVE  ListensWell' /\ PayingAbandoned' /\ LiveAbandoned' /\ AnsweredPaidMined'
<1>1. \A x \in Clients : clients[x].listens \in Calls \cup {NoCall}
  BY DEF PayInv, SessionPayTypeOK, Client
<1>2. SessionPayTypeOK /\ NoCall \notin Calls
  BY SessionPayAssumption DEF PayInv
<1>3. ListensWell'
  BY <1>1, <1>2, AnsweredClient DEF PayInv, ListensWell
<1>4. PayingAbandoned'
  <2> SUFFICES ASSUME NEW d \in Calls, NEW x \in Clients,
                      calls'[d].by = x, clients'[x].state = "paying", Live(d)'
               PROVE  d \in abandoned' \/ d = clients'[x].listens
    BY DEF PayingAbandoned
  <2>1. CASE clients[x].listens # c
    BY <1>2, <2>1, AnsweredClient DEF PayInv, PayingAbandoned
  <2>2. CASE clients[x].listens = c
    <3>1. clients[x].state = "paying" /\ answer = "again"
      BY <1>2, <2>2, AnsweredClient DEF PayInv, ListensWell
    <3>2. d \in abandoned \/ d = c
      BY <2>2, <3>1 DEF PayInv, PayingAbandoned
    <3> QED  BY <3>1, <3>2
  <2> QED  BY <2>1, <2>2
<1>5. LiveAbandoned'
  BY DEF PayInv, LiveAbandoned
<1>6. AnsweredPaidMined'
  <2> SUFFICES ASSUME NEW x \in Clients, clients'[x].state = "paid"
               PROVE  \E d \in records' : calls'[d].by = x
    BY DEF AnsweredPaidMined
  <2>1. CASE clients[x].listens # c
    <3>1. PICK d \in records : calls[d].by = x
      BY <1>2, <2>1, AnsweredClient DEF PayInv, AnsweredPaidMined
    <3> QED  BY <3>1, <1>2 DEF SessionPayTypeOK
  <2>2. CASE clients[x].listens = c
    BY <1>2, <2>2, AnsweredClient DEF PayInv, ListensWell
  <2> QED  BY <2>1, <2>2
<1> QED  BY <1>3, <1>4, <1>5, <1>6

\* A call that is answered with a failure, or with its transfer, is over.
LEMMA OverCalls ==
  ASSUME SessionPayTypeOK, NEW c \in Calls, calls' = [calls EXCEPT ![c] = over(c)]
  PROVE  /\ calls'[c].stage = "done"
         /\ \A d \in Calls : calls'[d].by = calls[d].by /\ (d # c => calls'[d] = calls[d])
  BY OverTyped DEF SessionPayTypeOK

LEMMA StagesApart ==
  /\ "done" \notin InProgress /\ "unused" \notin InProgress
  /\ {"checks", "queued", "preparing", "sending", "waiting"} = InProgress
  BY DEF InProgress, Inside

LEMMA PayInit == Init => PayInv
<1> SUFFICES ASSUME Init PROVE PayInv
  OBVIOUS
<1>1. \A c \in Calls : ~Live(c) /\ ~Sent(c)
  BY StagesApart DEF Init, Live, Sent, Bare
<1>2. \A x \in Clients : clients[x].listens = NoCall /\ clients[x].state = "paying"
  BY DEF Init
<1> QED
  BY <1>1, <1>2, TypeInit DEF PayInv, ListensWell, SentLate, PayingAbandoned, LiveAbandoned,
     AnsweredPaidMined, Init

\* What c does alone: the steps before the bundler has it.
LEMMA StageSteps ==
  ASSUME SessionPayTypeOK, NEW c \in Calls,
         calls[c].stage \in InProgress,
         enqueue(c) \/ takeTurn(c) \/ getNonce(c) \/ submitted(c)
  PROVE  /\ calls'[c].stage \in InProgress
         /\ \A d \in Calls : calls'[d].by = calls[d].by /\ (d # c => calls'[d] = calls[d])
         /\ calls[c].stage \notin {"waiting", "done"}
         /\ submitted(c) => calls'[c].stage = "waiting"
<1>1. calls \in [Calls -> Call] /\ \A d \in Calls : calls[d] \in Call
  BY DEF SessionPayTypeOK
<1>2. CASE enqueue(c)
  BY <1>1, <1>2, StagesApart DEF enqueue, submitted, at, Call
<1>3. CASE takeTurn(c)
  BY <1>1, <1>3, StagesApart DEF takeTurn, submitted, goes, at, Call
<1>4. CASE getNonce(c)
  <2>1. PICK n \in {nonce, 0} :
               calls' = [calls EXCEPT ![c].stage = "sending", ![c].nonce = n]
    BY <1>4 DEF getNonce
  <2> QED  BY <1>1, <1>4, <2>1, StagesApart DEF getNonce, submitted, at, Call
<1>5. CASE submitted(c)
  BY <1>1, <1>5, StagesApart DEF submitted, at, Call
<1> QED  BY <1>2, <1>3, <1>4, <1>5

\* A call on its way to the bundler.
LEMMA SendingStep ==
  ASSUME PayInv, SessionPayTypeOK', NEW c \in Calls,
         enqueue(c) \/ takeTurn(c) \/ getNonce(c) \/ submitted(c)
  PROVE  PayInv'
<1>0. SessionPayTypeOK /\ SentLate
  BY DEF PayInv
<1>1. calls[c].stage \in InProgress
  BY StagesApart DEF enqueue, takeTurn, getNonce, submitted, at
<1>2. /\ calls'[c].stage \in InProgress
      /\ \A d \in Calls : calls'[d].by = calls[d].by /\ (d # c => calls'[d] = calls[d])
      /\ calls[c].stage \notin {"waiting", "done"}
      /\ submitted(c) => calls'[c].stage = "waiting"
  BY <1>0, <1>1, StageSteps
<1>3. UNCHANGED <<clients, abandoned, records, mined>>
  BY DEF enqueue, takeTurn, getNonce, submitted, chain
<1>4. \A d \in Calls : Sent(d)' => Sent(d) \/ (d = c /\ submitted(c))
  BY DEF enqueue, takeTurn, getNonce, submitted, takenByBundler, chain, Sent
<1>5. \A d \in Calls : Live(d)' => Live(d)
  BY <1>1, <1>2, <1>4 DEF Live
<1>6. ListensWell' /\ PayingAbandoned' /\ LiveAbandoned' /\ AnsweredPaidMined'
  BY <1>1, <1>2, <1>3, <1>5, QuietStep
<1>7. SentLate'
  BY <1>0, <1>2, <1>4 DEF SentLate
<1> QED  BY <1>6, <1>7 DEF PayInv

\* A call that ends, and says so.
LEMMA EndingStep ==
  ASSUME PayInv, SessionPayTypeOK', NEW c \in Calls,
         checksFail(c) \/ submitFails(c) \/ receiptMissing(c) \/ receiptArrives(c)
  PROVE  PayInv'
<1>0. SessionPayTypeOK /\ SentLate
  BY DEF PayInv
<1>1. calls' = [calls EXCEPT ![c] = over(c)]
  BY DEF checksFail, submitFails, receiptMissing, receiptArrives, attemptFails, release
<1>2. /\ calls'[c].stage = "done"
      /\ \A d \in Calls : calls'[d].by = calls[d].by /\ (d # c => calls'[d] = calls[d])
  BY <1>0, <1>1, OverCalls
<1>3. calls[c].stage \in InProgress
  BY StagesApart DEF checksFail, submitFails, receiptMissing, receiptArrives, at
<1>4. UNCHANGED <<abandoned, mined>>
  BY DEF checksFail, submitFails, receiptMissing, receiptArrives, attemptFails, chain
<1>5. \A d \in Calls : Sent(d)' => Sent(d) \/ d = c
  BY DEF checksFail, submitFails, receiptMissing, receiptArrives, takenByBundler, chain, Sent
<1>6. \A d \in Calls : Live(d)' => Live(d)
  BY <1>2, <1>3, <1>5 DEF Live
<1>7. SentLate'
  BY <1>0, <1>2, <1>5 DEF SentLate
<1>8. PICK answer \in Answers :
        /\ answered(c, answer)
        /\ answer = "paid" => receiptArrives(c)
        /\ answer = "again" => checksFail(c)
  BY DEF checksFail, submitFails, receiptMissing, receiptArrives, attemptFails, Answers
<1>9. records \subseteq records' /\ (receiptArrives(c) => c \in records')
  BY DEF checksFail, submitFails, receiptMissing, receiptArrives, attemptFails
<1>10. records' \subseteq mined'
  BY <1>4 DEF checksFail, submitFails, receiptMissing, receiptArrives, attemptFails, confirmed,
              PayInv, AnsweredPaidMined
<1>11. checksFail(c) => ~Live(c)'
  <2> SUFFICES ASSUME checksFail(c) PROVE ~Live(c)'
    OBVIOUS
  <2>1. ~Sent(c)
    BY <1>0 DEF checksFail, at, SentLate
  <2>2. ~Sent(c)'
    BY <2>1 DEF checksFail, chain, Sent
  <2> QED  BY <1>2, <2>2, StagesApart DEF Live
<1>12. ListensWell' /\ PayingAbandoned' /\ LiveAbandoned' /\ AnsweredPaidMined'
  <2>1. abandoned \subseteq abandoned'
    BY <1>4
  <2>2. \A d \in Calls : d # c /\ calls[d].stage \in InProgress => calls'[d].stage \in InProgress
    BY <1>2
  <2> HIDE DEF Live
  <2> QED  BY <1>2, <1>6, <1>8, <1>9, <1>10, <1>11, <2>1, <2>2, AnswerStep
<1> QED  BY <1>7, <1>12 DEF PayInv

LEMMA AbortStep ==
  ASSUME PayInv, SessionPayTypeOK', NEW x \in Clients, abort(x)
  PROVE  PayInv'
<1>1. clients[x].listens \in Calls
  BY DEF abort, PayInv, SessionPayTypeOK, Client
<1>2. PICK answer \in Answers : answered(clients[x].listens, answer) /\ answer # "paid"
  BY DEF abort, Answers
<1>3. UNCHANGED <<calls, mempool, mined, records>>
  BY DEF abort, chain
<1>4. \A d \in Calls : (Live(d)' <=> Live(d)) /\ (Sent(d)' <=> Sent(d))
  BY <1>3 DEF Live, Sent
<1>5. records' \subseteq mined'
  BY <1>3 DEF PayInv, AnsweredPaidMined
<1>6. abandoned \subseteq abandoned' /\ clients[x].listens \in abandoned'
  BY DEF abort
<1>7. ListensWell' /\ PayingAbandoned' /\ LiveAbandoned' /\ AnsweredPaidMined'
  BY <1>1, <1>2, <1>3, <1>4, <1>5, <1>6, AnswerStep
<1>8. SentLate'
  BY <1>3, <1>4 DEF PayInv, SentLate
<1> QED  BY <1>7, <1>8 DEF PayInv

LEMMA PostStep ==
  ASSUME PayInv, SessionPayTypeOK', NEW x \in Clients, NEW c \in Calls, post(x, c)
  PROVE  PayInv'
<1>0. /\ SessionPayTypeOK /\ NoCall \notin Calls
      /\ clients \in [Clients -> Client] /\ calls \in [Calls -> Call]
      /\ \A y \in Clients : clients[y] \in Client
  BY SessionPayAssumption DEF PayInv, SessionPayTypeOK
<1>1. UNCHANGED <<mempool, mined, records, abandoned>>
  BY DEF post, chain
<1>2. \A d \in Calls : Sent(d)' <=> Sent(d)
  BY <1>1 DEF Sent
<1>3. calls[c].stage = "unused" /\ ~Sent(c) /\ calls[c].stage \notin InProgress
  BY StagesApart DEF post, at, PayInv, SentLate
<1>4. CASE clients[x].request \in pending
  <2>1. /\ calls'[c].stage = "checks" /\ calls'[c].by = x
        /\ \A d \in Calls : d # c => calls'[d] = calls[d]
    BY <1>0, <1>4 DEF post, Bare
  <2>2. /\ clients'[x].listens = c /\ clients'[x].state = "paying"
        /\ \A y \in Clients : y # x => clients'[y] = clients[y]
    BY <1>0, <1>4 DEF post, Client
  <2>3. \A d \in Calls : d # c => (Live(d)' <=> Live(d))
    BY <1>2, <2>1 DEF Live
  <2>4. \A d \in Calls : d # c /\ calls[d].by = x /\ Live(d) => d \in abandoned
    BY <1>0 DEF PayInv, PayingAbandoned, post
  <2>5. ListensWell'
    <3> SUFFICES ASSUME NEW y \in Clients, clients'[y].listens # NoCall
                 PROVE  /\ clients'[y].state = "paying"
                        /\ calls'[clients'[y].listens].by = y
                        /\ calls'[clients'[y].listens].stage \in InProgress
      BY DEF ListensWell
    <3>1. CASE y = x
      BY <2>1, <2>2, <3>1, StagesApart
    <3>2. CASE y # x
      <4>1. clients[y].listens \in Calls /\ clients[y].listens # c
        BY <1>0, <1>3, <2>2, <3>2 DEF Client, PayInv, ListensWell
      <4> QED  BY <2>1, <2>2, <3>2, <4>1 DEF PayInv, ListensWell
    <3> QED  BY <3>1, <3>2
  <2>6. PayingAbandoned'
    <3> SUFFICES ASSUME NEW d \in Calls, NEW y \in Clients,
                        calls'[d].by = y, clients'[y].state = "paying", Live(d)'
                 PROVE  d \in abandoned' \/ d = clients'[y].listens
      BY DEF PayingAbandoned
    <3>1. CASE d = c
      BY <2>1, <2>2, <3>1
    <3>2. CASE d # c /\ y = x
      BY <1>1, <2>1, <2>3, <2>4, <3>2
    <3>3. CASE d # c /\ y # x
      BY <1>1, <2>1, <2>2, <2>3, <3>3 DEF PayInv, PayingAbandoned
    <3> QED  BY <3>1, <3>2, <3>3
  <2>7. LiveAbandoned'
    BY <1>1, <2>1, <2>3, <2>4 DEF PayInv, LiveAbandoned
  <2>8. AnsweredPaidMined'
    <3> SUFFICES ASSUME NEW y \in Clients, clients'[y].state = "paid"
                 PROVE  \E d \in records : calls'[d].by = y
      BY <1>1 DEF PayInv, AnsweredPaidMined
    <3>1. y # x
      BY <2>2
    <3>2. PICK d \in records : calls[d].by = y
      BY <2>2, <3>1 DEF PayInv, AnsweredPaidMined
    <3>3. Sent(d) /\ d \in Calls
      BY <1>0, <3>2 DEF PayInv, AnsweredPaidMined, Sent, SessionPayTypeOK
    <3> QED  BY <1>3, <2>1, <3>2, <3>3
  <2>9. SentLate'
    BY <1>2, <1>3, <2>1 DEF PayInv, SentLate
  <2> QED  BY <2>5, <2>6, <2>7, <2>8, <2>9 DEF PayInv
<1>5. CASE clients[x].request \notin pending
  <2>1. UNCHANGED calls /\ \A d \in Calls : Live(d)' <=> Live(d)
    BY <1>2, <1>5 DEF post, Live
  <2>2. /\ clients'[x].state = "failed" /\ clients'[x].listens = NoCall
        /\ \A y \in Clients : y # x => clients'[y] = clients[y]
    BY <1>0, <1>5 DEF post, Client
  <2>3. ListensWell'
    BY <2>1, <2>2 DEF PayInv, ListensWell
  <2>4. PayingAbandoned'
    BY <1>1, <2>1, <2>2 DEF PayInv, PayingAbandoned
  <2>5. LiveAbandoned'
    BY <1>1, <2>1 DEF PayInv, LiveAbandoned
  <2>6. AnsweredPaidMined'
    BY <1>1, <2>1, <2>2 DEF PayInv, AnsweredPaidMined
  <2>7. SentLate'
    BY <1>2, <2>1 DEF PayInv, SentLate
  <2> QED  BY <2>3, <2>4, <2>5, <2>6, <2>7 DEF PayInv
<1> QED  BY <1>4, <1>5

LEMMA CrashStep ==
  ASSUME PayInv, SessionPayTypeOK', Crash
  PROVE  PayInv'
<1>0. SessionPayTypeOK
  BY DEF PayInv
<1>1. UNCHANGED <<mempool, mined, records, abandoned>>
  BY DEF Crash, chain
<1>2. \A d \in Calls : Sent(d)' <=> Sent(d)
  BY <1>1 DEF Sent
<1>3. \A d \in Calls : /\ calls'[d].by = calls[d].by
                       /\ calls'[d].stage \notin InProgress
                       /\ calls[d].stage = "done" => calls'[d].stage = "done"
                       /\ calls[d].stage = "waiting" => calls'[d].stage = "done"
  BY <1>0, OverTyped, StagesApart DEF Crash
<1>4. \A x \in Clients : /\ clients'[x].state # "paying"
                         /\ clients'[x].listens = NoCall
                         /\ clients'[x].state = "paid" => clients[x].state = "paid"
  <2> SUFFICES ASSUME NEW x \in Clients
               PROVE  /\ clients'[x].state # "paying"
                      /\ clients'[x].listens = NoCall
                      /\ clients'[x].state = "paid" => clients[x].state = "paid"
    OBVIOUS
  <2>1. clients[x] \in Client
    BY <1>0 DEF SessionPayTypeOK
  <2>2. clients[x].state # "paying" => clients[x].listens = NoCall
    BY DEF PayInv, ListensWell
  <2> QED  BY <2>1, <2>2 DEF Crash, Client
<1>5. \A d \in Calls : Live(d)' => Live(d)
  BY <1>2, <1>3 DEF Live
<1>6. ListensWell' /\ PayingAbandoned'
  BY <1>4 DEF ListensWell, PayingAbandoned
<1>7. LiveAbandoned'
  BY <1>1, <1>3, <1>5 DEF PayInv, LiveAbandoned
<1>8. AnsweredPaidMined'
  BY <1>0, <1>1, <1>3, <1>4 DEF PayInv, AnsweredPaidMined, SessionPayTypeOK
<1>9. SentLate'
  BY <1>2, <1>3 DEF PayInv, SentLate
<1> QED  BY <1>6, <1>7, <1>8, <1>9 DEF PayInv

\* The bundler, the row, and steps that change nothing here.
LEMMA OutsideStep ==
  ASSUME PayInv, SessionPayTypeOK', UNCHANGED <<clients, calls, records, abandoned>>,
         mined \subseteq mined', \A d \in Calls : Sent(d)' => Sent(d)
  PROVE  PayInv'
<1>1. \A d \in Calls : Live(d)' => Live(d)
  BY DEF Live
<1>2. ListensWell' /\ PayingAbandoned' /\ LiveAbandoned' /\ AnsweredPaidMined'
  BY <1>1, QuietStep
<1>3. SentLate'
  BY DEF PayInv, SentLate
<1> QED  BY <1>2, <1>3 DEF PayInv

LEMMA PayStep == PayInv /\ SessionPayTypeOK' /\ [Next]_vars => PayInv'
<1> SUFFICES ASSUME PayInv, SessionPayTypeOK', [Next]_vars PROVE PayInv'
  OBVIOUS
<1>1. ASSUME NEW x \in Clients, NEW c \in Calls, post(x, c) PROVE PayInv'
  BY <1>1, PostStep
<1>2. ASSUME NEW x \in Clients, abort(x) PROVE PayInv'
  BY <1>2, AbortStep
<1>3. ASSUME NEW c \in Calls, enqueue(c) \/ takeTurn(c) \/ getNonce(c) \/ submitted(c)
      PROVE  PayInv'
  BY <1>3, SendingStep
<1>4. ASSUME NEW c \in Calls,
             checksFail(c) \/ submitFails(c) \/ receiptMissing(c) \/ receiptArrives(c)
      PROVE  PayInv'
  BY <1>4, EndingStep
<1>5. ASSUME NEW op \in mempool, opMined(op) PROVE PayInv'
  <2>1. UNCHANGED <<clients, calls, records, abandoned>> /\ mined \subseteq mined'
    BY <1>5 DEF opMined
  <2>2. \A d \in Calls : Sent(d)' => Sent(d)
    BY <1>5 DEF opMined, Sent
  <2> QED  BY <2>1, <2>2, OutsideStep
<1>6. ASSUME NEW op \in mempool, opDropped(op) PROVE PayInv'
  BY <1>6, OutsideStep DEF opDropped, Sent
<1>7. CASE otherOpMined
  BY <1>7, OutsideStep DEF otherOpMined, Sent
<1>8. ASSUME NEW q \in Requests, rowChanges(q) PROVE PayInv'
  BY <1>8, OutsideStep DEF rowChanges, chain, Sent
<1>9. CASE Crash
  BY <1>9, CrashStep
<1>10. CASE UNCHANGED vars
  BY <1>10, OutsideStep DEF vars, chain, Sent
<1> QED
  BY <1>1, <1>2, <1>3, <1>4, <1>5, <1>6, <1>7, <1>8, <1>9, <1>10 DEF Next

LEMMA PayInvariant == Spec => [](SessionPayTypeOK /\ PayInv)
<1>1. Spec => []SessionPayTypeOK
  BY SessionPayTyped
<1>2. PayInv /\ SessionPayTypeOK' /\ [Next]_vars => PayInv'
  BY PayStep
<1> QED  BY <1>1, <1>2, PayInit, PTL DEF Spec

\* A client pays twice only if it gave up on one of the two calls while it was at work,
\* whatever the bundler does, whenever the process crashes.
THEOREM PaidTwiceExplained == Spec => []PaidTwiceOnlyAbandoned
<1>1. PayInv => PaidTwiceOnlyAbandoned
  BY DEF PayInv, SessionPayTypeOK, LiveAbandoned, Live, Sent, PaidTwiceOnlyAbandoned
<1> QED  BY <1>1, PayInvariant, PTL

\* Who was told paid has a transfer and a record, and no record lacks its transfer.
THEOREM AnsweredPaid == Spec => []AnsweredPaidMined
<1>1. PayInv => AnsweredPaidMined
  BY DEF PayInv
<1> QED  BY <1>1, PayInvariant, PTL

-----------------------------------------------------------------------------
\* One sender at a time

LEMMA BehindCalls ==
  SessionPayTypeOK => \A c \in Calls : calls[c].behind \subseteq Calls /\ calls[c].stage \in Stage
  BY DEF SessionPayTypeOK, Call

\* A step that lets nobody into the line and nobody out of it.
LEMMA LineStays ==
  ASSUME LineInv, UNCHANGED tail,
         \A c \in Calls :
            /\ calls[c].stage \in InLine <=> calls'[c].stage \in InLine
            /\ calls[c].stage \in InLine => calls'[c].behind = calls[c].behind
            /\ calls[c].stage = "done" => calls'[c].stage = "done"
            /\ calls'[c].stage \in Inside => \A d \in calls[c].behind : calls[d].stage = "done"
  PROVE  LineOrdered'
<1>1. /\ SessionPayTypeOK /\ LineOrdered /\ tail \in Calls \cup {NoCall}
      /\ \A c \in Calls : calls[c].behind \subseteq Calls
      /\ \A c \in Calls : calls[c].stage \in Inside => calls[c].stage \in InLine
      /\ \A c \in Calls : calls'[c].stage \in Inside => calls'[c].stage \in InLine
  BY BehindCalls DEF LineInv, SessionPayTypeOK, InLine
<1>2. \A c, d \in Calls : c # d /\ calls'[c].stage \in InLine /\ calls'[d].stage \in InLine =>
          c \in calls'[d].behind \/ d \in calls'[c].behind
  BY <1>1 DEF LineOrdered
<1>3. \A c \in Calls : calls'[c].stage \in InLine =>
          tail # NoCall /\ (c = tail \/ c \in calls'[tail].behind)
  BY <1>1 DEF LineOrdered
<1>4. tail # NoCall => calls'[tail].stage \in InLine
  BY <1>1 DEF LineOrdered
<1>5. \A c \in Calls : calls'[c].stage \in Inside =>
          \A d \in calls'[c].behind : calls'[d].stage = "done"
  BY <1>1
<1> QED  BY <1>2, <1>3, <1>4, <1>5 DEF LineOrdered

LEMMA LineEnqueue ==
  ASSUME LineInv, NEW c \in Calls, enqueue(c)
  PROVE  LineOrdered'
<1>1. /\ LineOrdered /\ tail \in Calls \cup {NoCall} /\ NoCall \notin Calls
      /\ \A d \in Calls : calls[d].behind \subseteq Calls
      /\ calls \in [Calls -> Call]
  BY BehindCalls, SessionPayAssumption DEF LineInv, SessionPayTypeOK
<1>2. /\ calls[c].stage = "checks" /\ tail' = c
      /\ calls'[c].stage = "queued" /\ calls'[c].behind = behindAll
      /\ \A d \in Calls : d # c => calls'[d] = calls[d]
  BY <1>1 DEF enqueue, at, Call
<1>3. calls[c].stage \notin InLine /\ calls'[c].stage \in InLine /\ calls'[c].stage \notin Inside
  BY <1>2 DEF InLine, Inside
<1>4. \A d \in Calls : calls[d].stage \in InLine => d \in behindAll
  BY <1>1 DEF LineOrdered, behindAll
<1>5. \A d, e \in Calls : d # e /\ calls'[d].stage \in InLine /\ calls'[e].stage \in InLine =>
          d \in calls'[e].behind \/ e \in calls'[d].behind
  BY <1>1, <1>2, <1>4 DEF LineOrdered
<1>6. \A d \in Calls : calls'[d].stage \in InLine => d = c \/ d \in calls'[c].behind
  BY <1>2, <1>4
<1>7. ASSUME NEW d \in Calls, calls'[d].stage \in Inside, NEW e \in calls'[d].behind
      PROVE  calls'[e].stage = "done"
  <2>1. calls'[d] = calls[d] /\ d # c
    BY <1>2, <1>3, <1>7
  <2>2. calls[e].stage = "done" /\ e \in Calls
    BY <1>1, <1>7, <2>1 DEF LineOrdered
  <2> QED  BY <1>2, <2>2
<1> QED  BY <1>1, <1>2, <1>3, <1>5, <1>6, <1>7 DEF LineOrdered

LEMMA LineRelease ==
  ASSUME LineInv, NEW c \in Calls, calls[c].stage \in Inside, release(c)
  PROVE  LineOrdered'
<1>1. /\ LineOrdered /\ tail \in Calls \cup {NoCall} /\ NoCall \notin Calls
      /\ \A d \in Calls : calls[d].behind \subseteq Calls
      /\ SessionPayTypeOK
  BY BehindCalls, SessionPayAssumption DEF LineInv, SessionPayTypeOK
<1>2. /\ calls'[c].stage = "done"
      /\ \A d \in Calls : d # c => calls'[d] = calls[d]
      /\ tail' = IF tail = c THEN NoCall ELSE tail
  BY <1>1, OverCalls DEF release
<1>3. "done" \notin InLine /\ "done" \notin Inside /\ calls[c].stage \in InLine
  BY DEF InLine, Inside
<1>4. \A d \in Calls : calls'[d].stage \in InLine => d # c /\ tail # c
  BY <1>1, <1>2, <1>3 DEF LineOrdered
<1>5. \A d, e \in Calls : d # e /\ calls'[d].stage \in InLine /\ calls'[e].stage \in InLine =>
          d \in calls'[e].behind \/ e \in calls'[d].behind
  BY <1>1, <1>2, <1>4 DEF LineOrdered
<1>6. \A d \in Calls : calls'[d].stage \in InLine =>
          tail' # NoCall /\ (d = tail' \/ d \in calls'[tail'].behind)
  BY <1>1, <1>2, <1>4 DEF LineOrdered
<1>7. tail' # NoCall => calls'[tail'].stage \in InLine
  BY <1>1, <1>2 DEF LineOrdered
<1>8. \A d \in Calls : calls'[d].stage \in Inside =>
          \A e \in calls'[d].behind : calls'[e].stage = "done"
  BY <1>1, <1>2, <1>3 DEF LineOrdered
<1> QED  BY <1>5, <1>6, <1>7, <1>8 DEF LineOrdered

LEMMA LineInit == Init => LineInv
<1> SUFFICES ASSUME Init PROVE LineInv
  OBVIOUS
<1>1. \A c \in Calls : calls[c].stage \notin InLine /\ calls[c].stage \notin Inside
  BY DEF Init, Bare, InLine, Inside
<1> QED  BY <1>1, TypeInit DEF LineInv, LineOrdered, Init

LEMMA LineStep == LineInv /\ SessionPayTypeOK' /\ [Next]_vars => LineInv'
<1> SUFFICES ASSUME LineInv, [Next]_vars PROVE LineOrdered'
  BY DEF LineInv
<1>0. /\ LineOrdered /\ SessionPayTypeOK
      /\ calls \in [Calls -> Call] /\ \A c \in Calls : calls[c] \in Call
      /\ \A c \in Calls : calls[c].behind \subseteq Calls
  BY BehindCalls DEF LineInv, SessionPayTypeOK
<1>1. ASSUME NEW x \in Clients, NEW c \in Calls, post(x, c) PROVE LineOrdered'
  <2>1. UNCHANGED tail
    BY <1>1 DEF post
  <2>2. calls[c].stage = "unused" /\ (calls'[c].stage = "checks" \/ calls' = calls)
        /\ \A d \in Calls : d # c => calls'[d] = calls[d]
    BY <1>0, <1>1 DEF post, at, Bare
  <2> QED  BY <1>0, <2>1, <2>2, LineStays DEF LineOrdered, InLine, Inside
<1>2. CASE UNCHANGED <<calls, tail>>
  BY <1>0, <1>2, LineStays DEF LineOrdered
<1>3. ASSUME NEW c \in Calls, checksFail(c) PROVE LineOrdered'
  <2>1. UNCHANGED tail /\ calls[c].stage = "checks"
    BY <1>3 DEF checksFail, at
  <2>2. calls'[c].stage = "done" /\ \A d \in Calls : d # c => calls'[d] = calls[d]
    BY <1>0, <1>3, OverCalls DEF checksFail
  <2> QED  BY <1>0, <2>1, <2>2, LineStays DEF LineOrdered, InLine, Inside
<1>4. ASSUME NEW c \in Calls, enqueue(c) PROVE LineOrdered'
  BY <1>4, LineEnqueue
<1>5. ASSUME NEW c \in Calls, takeTurn(c) PROVE LineOrdered'
  <2>1. UNCHANGED tail /\ calls[c].stage = "queued"
        /\ \A d \in calls[c].behind : calls[d].stage = "done"
    BY <1>5 DEF takeTurn, at
  <2>2. calls'[c].stage = "preparing" /\ calls'[c].behind = calls[c].behind
        /\ \A d \in Calls : d # c => calls'[d] = calls[d]
    BY <1>0, <1>5 DEF takeTurn, goes, Call
  <2> QED  BY <1>0, <2>1, <2>2, LineStays DEF LineOrdered, InLine, Inside
<1>6. ASSUME NEW c \in Calls, getNonce(c) PROVE LineOrdered'
  <2>1. UNCHANGED tail /\ calls[c].stage = "preparing"
    BY <1>6 DEF getNonce, at
  <2>2. calls'[c].stage = "sending" /\ calls'[c].behind = calls[c].behind
        /\ \A d \in Calls : d # c => calls'[d] = calls[d]
    BY <1>0, <1>6 DEF getNonce, Call
  <2> QED  BY <1>0, <2>1, <2>2, LineStays DEF LineOrdered, InLine, Inside
<1>7. ASSUME NEW c \in Calls, submitted(c) PROVE LineOrdered'
  <2>1. UNCHANGED tail /\ calls[c].stage = "sending"
    BY <1>7 DEF submitted, at
  <2>2. calls'[c].stage = "waiting" /\ calls'[c].behind = calls[c].behind
        /\ \A d \in Calls : d # c => calls'[d] = calls[d]
    BY <1>0, <1>7 DEF submitted, Call
  <2> QED  BY <1>0, <2>1, <2>2, LineStays DEF LineOrdered, InLine, Inside
<1>8. ASSUME NEW c \in Calls, submitFails(c) \/ receiptMissing(c) \/ receiptArrives(c)
      PROVE  LineOrdered'
  <2>1. release(c) /\ calls[c].stage \in {"sending", "waiting"}
    BY <1>8 DEF submitFails, receiptMissing, receiptArrives, attemptFails, at
  <2> QED  BY <2>1, LineRelease DEF Inside
<1>9. CASE Crash
  <2>1. \A c \in Calls : calls'[c].stage \notin InLine /\ calls'[c].stage \notin Inside
    BY <1>0, <1>9, OverTyped DEF Crash, InProgress, InLine, Inside
  <2> QED  BY <1>9, <2>1 DEF Crash, LineOrdered
<1> QED
  BY <1>1, <1>2, <1>3, <1>4, <1>5, <1>6, <1>7, <1>8, <1>9
     DEF Next, vars, abort, opMined, opDropped, otherOpMined, rowChanges

\* The queue, kept as one promise that is forgotten when the last in line leaves,
\* lets one call of the payer through at a time.
THEOREM OneAtATime == Spec => []OneSender
<1>1. LineInv => OneSender
  BY DEF LineInv, LineOrdered, OneSender, InLine, Inside
<1>2. Spec => []SessionPayTypeOK
  BY SessionPayTyped
<1>3. Spec => []LineInv
  BY <1>2, LineInit, LineStep, PTL DEF Spec
<1> QED  BY <1>1, <1>3, PTL

-----------------------------------------------------------------------------
\* Nobody waits in a circle

\* Whoever a call in line is behind is done, or is in line behind fewer.
LineChained ==
    /\ \A c \in Calls : IsFiniteSet(calls[c].behind)
    /\ \A c \in Calls : calls[c].stage \in InLine =>
          /\ c \notin calls[c].behind
          /\ \A d \in calls[c].behind :
                \/ calls[d].stage = "done"
                \/ calls[d].stage \in InLine /\ calls[d].behind \subseteq calls[c].behind

\* Out of the line there is one way, to the end, where the gate is open.
LEMMA ChainStays ==
  ASSUME LineInv, LineChained,
         \A c \in Calls :
            /\ IsFiniteSet(calls'[c].behind)
            /\ calls'[c].stage \in InLine => calls[c].stage \in InLine /\ calls'[c].behind = calls[c].behind
            /\ calls[c].stage \in InLine => calls'[c].stage \in InLine \cup {"done"}
            /\ calls[c].stage = "done" => calls'[c].stage = "done"
  PROVE  LineChained'
<1>1. \A c \in Calls : calls[c].behind \subseteq Calls
  BY BehindCalls DEF LineInv
<1>2. ASSUME NEW c \in Calls, calls'[c].stage \in InLine
      PROVE  /\ c \notin calls'[c].behind
             /\ \A d \in calls'[c].behind :
                   \/ calls'[d].stage = "done"
                   \/ calls'[d].stage \in InLine /\ calls'[d].behind \subseteq calls'[c].behind
  <2>1. calls[c].stage \in InLine /\ calls'[c].behind = calls[c].behind
    BY <1>2
  <2>2. c \notin calls'[c].behind
    BY <2>1 DEF LineChained
  <2>3. ASSUME NEW d \in calls[c].behind
        PROVE  \/ calls'[d].stage = "done"
               \/ calls'[d].stage \in InLine /\ calls'[d].behind \subseteq calls[c].behind
    <3>1. /\ d \in Calls
          /\ \/ calls[d].stage = "done"
             \/ calls[d].stage \in InLine /\ calls[d].behind \subseteq calls[c].behind
      BY <1>1, <2>1 DEF LineChained
    <3> QED  BY <3>1
  <2> QED  BY <2>1, <2>2, <2>3
<1> QED  BY <1>2 DEF LineChained

\* A newcomer is behind the last in line and all that one is behind.
LEMMA ChainEnqueue ==
  ASSUME LineInv, LineChained, NEW c \in Calls, enqueue(c)
  PROVE  LineChained'
<1>1. /\ LineOrdered /\ tail \in Calls \cup {NoCall} /\ NoCall \notin Calls
      /\ \A d \in Calls : calls[d].behind \subseteq Calls
      /\ calls \in [Calls -> Call]
  BY BehindCalls, SessionPayAssumption DEF LineInv, SessionPayTypeOK
<1>2. /\ calls[c].stage = "checks"
      /\ calls'[c].stage = "queued" /\ calls'[c].behind = behindAll
      /\ \A d \in Calls : d # c => calls'[d] = calls[d]
  BY <1>1 DEF enqueue, at, Call
<1>3. calls[c].stage \notin InLine /\ calls[c].stage # "done"
  BY <1>2 DEF InLine, Inside
<1>4. tail # NoCall => tail \in Calls /\ calls[tail].stage \in InLine /\ tail # c
  BY <1>1, <1>3 DEF LineOrdered
<1>5. /\ IsFiniteSet(behindAll) /\ behindAll \subseteq Calls /\ c \notin behindAll
      /\ \A d \in behindAll :
            \/ calls[d].stage = "done"
            \/ calls[d].stage \in InLine /\ calls[d].behind \subseteq behindAll
  <2>1. CASE tail = NoCall
    BY <2>1, FS_EmptySet DEF behindAll
  <2>2. CASE tail # NoCall
    <3>1. behindAll = calls[tail].behind \cup {tail}
      BY <2>2 DEF behindAll
    <3>2. IsFiniteSet(behindAll)
      BY <1>4, <2>2, <3>1, FS_AddElement DEF LineChained
    <3>3. \A d \in calls[tail].behind :
             \/ calls[d].stage = "done"
             \/ calls[d].stage \in InLine /\ calls[d].behind \subseteq calls[tail].behind
      BY <1>4, <2>2 DEF LineChained
    <3>4. c \notin calls[tail].behind
      BY <1>3, <3>3
    <3> QED  BY <1>1, <1>4, <2>2, <3>1, <3>2, <3>3, <3>4
  <2> QED  BY <2>1, <2>2
<1>6. \A d \in Calls : IsFiniteSet(calls'[d].behind)
  BY <1>2, <1>5 DEF LineChained
<1>7. ASSUME NEW d \in Calls, calls'[d].stage \in InLine
      PROVE  /\ d \notin calls'[d].behind
             /\ \A e \in calls'[d].behind :
                   \/ calls'[e].stage = "done"
                   \/ calls'[e].stage \in InLine /\ calls'[e].behind \subseteq calls'[d].behind
  <2>1. CASE d = c
    <3>1. calls'[d].behind = behindAll
      BY <1>2, <2>1
    <3>2. \A e \in behindAll : calls'[e] = calls[e]
      BY <1>2, <1>5
    <3> QED  BY <1>5, <2>1, <3>1, <3>2
  <2>2. CASE d # c
    <3>1. calls'[d] = calls[d] /\ calls[d].stage \in InLine
      BY <1>2, <1>7, <2>2
    <3>2. /\ d \notin calls[d].behind
          /\ \A e \in calls[d].behind :
                \/ calls[e].stage = "done"
                \/ calls[e].stage \in InLine /\ calls[e].behind \subseteq calls[d].behind
      BY <3>1 DEF LineChained
    <3>3. \A e \in calls[d].behind : e # c /\ e \in Calls
      BY <1>1, <1>3, <3>2
    <3>4. \A e \in calls[d].behind : calls'[e] = calls[e]
      BY <1>2, <3>3
    <3> QED  BY <3>1, <3>2, <3>4
  <2> QED  BY <2>1, <2>2
<1> QED  BY <1>6, <1>7 DEF LineChained

\* A call that leaves has nobody before it any more.
LEMMA OverStage ==
  ASSUME NEW c
  PROVE  over(c).stage = "done" /\ over(c).behind = {} /\ IsFiniteSet(over(c).behind)
  BY FS_EmptySet DEF over, Bare

\* Every step keeps the order of the line.
LEMMA ChainStep == LineInv /\ LineChained /\ [Next]_vars => LineChained'
<1> SUFFICES ASSUME LineInv, LineChained, [Next]_vars PROVE LineChained'
  OBVIOUS
<1>0. /\ calls \in [Calls -> Call] /\ \A c \in Calls : calls[c] \in Call
      /\ \A c \in Calls : IsFiniteSet(calls[c].behind)
      /\ {"unused", "checks", "done"} \cap InLine = {}
  BY DEF LineInv, SessionPayTypeOK, LineChained, InLine, Inside
<1>1. ASSUME NEW x \in Clients, NEW c \in Calls, post(x, c) PROVE LineChained'
  <2>1. /\ calls[c].stage = "unused"
        /\ (calls'[c].stage = "checks" /\ calls'[c].behind = {}) \/ calls' = calls
        /\ \A d \in Calls : d # c => calls'[d] = calls[d]
    BY <1>0, <1>1 DEF post, at, Bare
  <2> QED  BY <1>0, <2>1, ChainStays, FS_EmptySet
<1>2. CASE UNCHANGED calls
  BY <1>0, <1>2, ChainStays
<1>3. ASSUME NEW c \in Calls, calls' = [calls EXCEPT ![c] = over(c)] PROVE LineChained'
  <2>1. /\ calls'[c].stage = "done" /\ IsFiniteSet(calls'[c].behind)
        /\ \A d \in Calls : d # c => calls'[d] = calls[d]
    BY <1>0, <1>3, OverStage
  <2> QED  BY <1>0, <2>1, ChainStays
<1>4. ASSUME NEW c \in Calls, enqueue(c) PROVE LineChained'
  BY <1>4, ChainEnqueue
<1>5. ASSUME NEW c \in Calls, takeTurn(c) \/ getNonce(c) \/ submitted(c) PROVE LineChained'
  <2>1. /\ calls[c].stage \in InLine /\ calls'[c].stage \in InLine
        /\ calls'[c].behind = calls[c].behind
        /\ \A d \in Calls : d # c => calls'[d] = calls[d]
    BY <1>0, <1>5 DEF takeTurn, getNonce, submitted, at, goes, Call, InLine, Inside
  <2> QED  BY <1>0, <2>1, ChainStays
<1>6. ASSUME NEW c \in Calls, submitFails(c) \/ receiptMissing(c) \/ receiptArrives(c)
      PROVE  LineChained'
  BY <1>3, <1>6 DEF submitFails, receiptMissing, receiptArrives, attemptFails, release
<1>7. ASSUME NEW c \in Calls, checksFail(c) PROVE LineChained'
  BY <1>3, <1>7 DEF checksFail
<1>8. CASE Crash
  <2>1. ASSUME NEW c \in Calls
        PROVE  /\ calls[c].stage \in InLine => calls'[c].stage = "done"
               /\ calls'[c] = calls[c] \/ calls'[c] = over(c)
    <3>1. calls'[c] = IF calls[c].stage \in InProgress THEN over(c) ELSE calls[c]
      BY <1>8 DEF Crash
    <3> QED  BY <3>1, OverStage DEF InLine, InProgress
  <2>2. ASSUME NEW c \in Calls
        PROVE  /\ IsFiniteSet(calls'[c].behind)
               /\ calls'[c].stage \notin InLine
               /\ calls[c].stage = "done" => calls'[c].stage = "done"
    BY <1>0, <2>1, OverStage
  <2> QED  BY <2>1, <2>2, ChainStays
<1> QED
  BY <1>1, <1>2, <1>4, <1>5, <1>6, <1>7, <1>8
     DEF Next, vars, abort, opMined, opDropped, otherOpMined, rowChanges

\* The one behind the fewest has only open gates before it.
LEMMA ChainMoves ==
  ASSUME LineInv, LineChained
  PROVE  QueueMoves
<1> SUFFICES ASSUME NEW c \in Calls, at(c, "queued")
             PROVE  \E d \in Calls : /\ at(d, "queued") \/ calls[d].stage \in Inside
                                     /\ \A e \in calls[d].behind : at(e, "done")
  BY DEF QueueMoves
<1> DEFINE S == calls[c].behind
           L == {d \in S \cup {c} : calls[d].stage \in InLine}
           T == {calls[d].behind : d \in L}
<1>1. c \in L /\ IsFiniteSet(S) /\ S \subseteq Calls
  BY BehindCalls DEF at, InLine, LineChained, LineInv
<1>2. \A d \in L : d \in Calls /\ calls[d].behind \subseteq S
  BY <1>1 DEF LineChained, InLine, Inside
<1>3. T \in SUBSET SUBSET S /\ T # {}
  BY <1>1, <1>2
<1>4. PICK m \in T : \A n \in T : n \subseteq m => n = m
  <2> HIDE DEF S, T
  <2> QED  BY <1>1, <1>3, MinimalSubset
<1>5. PICK d \in L : m = calls[d].behind
  OBVIOUS
<1>6. ASSUME NEW e \in calls[d].behind
      PROVE  calls[e].stage = "done"
  <2>1. d \in Calls /\ calls[d].stage \in InLine /\ e \in S /\ e \in Calls
    BY <1>1, <1>2, <1>5
  <2>2. \/ calls[e].stage = "done"
        \/ calls[e].stage \in InLine /\ calls[e].behind \subseteq calls[d].behind
    BY <2>1 DEF LineChained
  <2>3. ASSUME calls[e].stage \in InLine, calls[e].behind \subseteq calls[d].behind
        PROVE  FALSE
    <3>1. calls[e].behind \in T
      BY <2>1, <2>3
    <3>2. calls[e].behind = calls[d].behind
      BY <1>4, <1>5, <2>3, <3>1
    <3>3. e \notin calls[e].behind
      BY <2>1, <2>3 DEF LineChained
    <3> QED  BY <3>2, <3>3
  <2> QED  BY <2>2, <2>3
<1>7. d \in Calls /\ (at(d, "queued") \/ calls[d].stage \in Inside)
  BY <1>2 DEF at, InLine
<1> QED  BY <1>6, <1>7 DEF at

\* No deadlock in the queue, for any number of calls and whatever leaves the map's
\* entry behind: the safety half of QueueDrains.
THEOREM QueueNeverStuck == Spec => []QueueMoves
<1>1. Init => LineChained
  <2> SUFFICES ASSUME Init PROVE LineChained
    OBVIOUS
  <2>1. \A c \in Calls : calls[c].stage \notin InLine /\ calls[c].behind = {}
    BY DEF Init, Bare, InLine, Inside
  <2> QED  BY <2>1, FS_EmptySet DEF LineChained
<1>2. LineInv /\ LineChained => QueueMoves
  BY ChainMoves
<1>3. Spec => []SessionPayTypeOK
  BY SessionPayTyped
<1>4. Spec => []LineInv
  BY <1>3, LineInit, LineStep, PTL DEF Spec
<1> QED  BY <1>1, <1>2, <1>4, ChainStep, PTL DEF Spec
=============================================================================

-------------------------- MODULE SearchJobsProofs --------------------------
(***************************************************************************)
(* Proofs about job changes, for any GPUs, jobs and bounds: a call         *)
(* succeeds only on an answer to its own job and, while no call gave up on *)
(* a slow GPU, no change is taken for done too early and every running GPU *)
(* follows the changes that succeeded.                                     *)
(***************************************************************************)
EXTENDS SearchJobs, TLAPS

Work == [gen : Nat, job : Jobs]
Command == [number : Nat, gen : Nat, job : Jobs]
Call == [number : Nat, gen : Nat, job : Jobs, owed : SUBSET Gpus, taken : BOOLEAN]
Stages == {"ready", "install", "adopt", "waiting", "batch", "stopped"}

Types ==
  /\ live \in Work /\ call \in Call /\ calls \in Nat /\ applied \in Nat
  /\ settled \in BOOLEAN /\ gaveUp \in BOOLEAN
  /\ mailbox \in [Gpus -> Command] /\ hand \in [Gpus -> Command]
  /\ work \in [Gpus -> Work] /\ stage \in [Gpus -> Stages]

(* A command in hand is a thread that installs or adopts it.               *)
Hands == \A g \in Gpus : hand[g] # NoCommand <=> stage[g] \in {"install", "adopt"}

(* The call under way is the last one and asks for the next generation.    *)
Calling == call # NoCall => calls # 0 /\ call.number = calls /\ call.gen = live.gen + 1

OfCall(c, k) == k # NoCall /\ c.number = k.number
CallWork == [gen |-> call.gen, job |-> call.job]

(* Commands are numbered as they were posted, and those of the call k      *)
(* carry its job.                                                          *)
Known(c, k, n) ==
  /\ c # NoCommand => 0 < c.number /\ c.number <= n
  /\ OfCall(c, k) => c.gen = k.gen /\ c.job = k.job
Ordered(older, newer) ==
  older # NoCommand /\ newer # NoCommand => older.number < newer.number
Commands ==
  \A g \in Gpus : /\ Known(mailbox[g], call, calls) /\ Known(hand[g], call, calls)
                  /\ Ordered(hand[g], mailbox[g])

(* A GPU that took the call's job has nothing else before it.              *)
Took(g) == work[g] = CallWork /\ mailbox[g] = NoCommand /\ hand[g] = NoCommand
Taken == call.taken => \E g \in Gpus : Took(g)

(* A running GPU with the call's command still owes its answer.            *)
Owing ==
  \A g \in Alive : OfCall(mailbox[g], call) \/ OfCall(hand[g], call) => g \in call.owed

(* Other commands are of no later generation, unless a call gave up.       *)
Late(c, k, lv) == OfCall(c, k) \/ c.gen <= lv.gen
Behind ==
  gaveUp \/ \A g \in Alive : Late(mailbox[g], call, live) /\ Late(hand[g], call, live)

(* Where a GPU is headed: its newest command, or else its work.            *)
Headed(g) ==
  LET c == IF mailbox[g] # NoCommand THEN mailbox[g] ELSE hand[g]
  IN  IF c # NoCommand THEN [gen |-> c.gen, job |-> c.job] ELSE work[g]

(* All running GPUs head for the job of the call, and after it for the     *)
(* live one.                                                               *)
CallReaches == call # NoCall /\ call.job \notin Refused => \A g \in Alive : Headed(g) = CallWork
LiveReached ==
  ~gaveUp /\ call = NoCall /\ settled /\ live.job \notin Refused
    => \A g \in Alive : Headed(g) = live

IInv ==
  /\ Types /\ Hands /\ Calling /\ Commands /\ Taken /\ Owing /\ Behind
  /\ NeverSkipped /\ CallReaches /\ LiveReached

---------------------------------------------------------------------------
LEMMA Nothing ==
  /\ NoCommand \in Command /\ NoCommand.number = 0 /\ NoCommand.gen = 0
  /\ NoCall \in Call /\ NoCall.number = 0 /\ ~NoCall.taken
  BY JobsGiven DEF NoCommand, NoCall, Command, Call

LEMMA InitIInv == Init => IInv
<1> SUFFICES ASSUME Init PROVE IInv
  OBVIOUS
<1> USE Nothing, JobsGiven DEF Init
<1>1. Types
  BY DEF Types, Work, Stages
<1>2. Hands /\ Calling
  BY DEF Hands, Calling
<1>3. Commands /\ Owing
  BY DEF Commands, Known, Ordered, Owing, OfCall
<1>4. Taken
  BY DEF Taken
<1>5. Behind /\ NeverSkipped
  BY DEF Behind, Late, NeverSkipped, Alive
<1>6. CallReaches /\ LiveReached
  BY DEF CallReaches, LiveReached, Headed, Alive
<1> QED
  BY <1>1, <1>2, <1>3, <1>4, <1>5, <1>6 DEF IInv

---------------------------------------------------------------------------
(* A call is posted, or taken for done.                                    *)
LEMMA RequestKeeps == ASSUME NEW j \in Jobs, IInv, Request(j) PROVE IInv'
<1> DEFINE next == live.gen + 1
           posted == [number |-> calls', gen |-> next, job |-> j]
<1>0. call = NoCall /\ Types /\ Hands /\ Commands /\ next \in Nat /\ calls' = calls + 1
  BY DEF IInv, Request, Types, Work
<1>1. UNCHANGED <<gaveUp, applied, stage, hand, work>>
  BY DEF Request
<1>2. CASE applied = next /\ live' = [gen |-> next, job |-> j] /\ settled' = TRUE
           /\ UNCHANGED <<call, mailbox>>
  <2>1. Types' /\ Hands' /\ Calling'
    BY <1>0, <1>1, <1>2 DEF Types, Work, Hands, Calling
  <2>2. Commands' /\ Owing' /\ Taken'
    BY <1>0, <1>1, <1>2, Nothing
       DEF IInv, Types, Command, Commands, Known, Owing, OfCall, Alive, Taken
  <2>3. gaveUp
    BY <1>0, <1>2, Nothing DEF IInv, NeverSkipped, Types, Work
  <2>4. Behind' /\ NeverSkipped' /\ LiveReached'
    BY <1>1, <2>3, Zenon DEF Behind, NeverSkipped, LiveReached
  <2>5. CallReaches'
    BY <1>0, <1>2, Zenon DEF CallReaches
  <2> QED
    BY <2>1, <2>2, <2>4, <2>5 DEF IInv
<1>3. CASE /\ Post(posted) /\ UNCHANGED <<live, settled>>
           /\ call' = [number |-> calls', gen |-> next, job |-> j,
                       owed |-> Alive, taken |-> FALSE]
  <2>c. posted \in Command
    BY <1>0 DEF Command, Types
  <2>p. PICK p \in Command : p = posted
    BY <2>c, Zenon
  <2>0. /\ p # NoCommand /\ p.number = calls' /\ p.gen = next /\ p.job = j
    BY <1>0, <2>p, Nothing DEF Types
  <2>1. /\ call' # NoCall /\ call' \in Call /\ call'.number = calls' /\ call'.gen = next
        /\ call'.job = j /\ call'.owed = Alive /\ ~call'.taken
    BY <1>0, <1>3, Nothing DEF Call, Alive, Types
  <2>2. /\ mailbox' \in [Gpus -> Command] /\ Alive' = Alive
        /\ \A g \in Alive : mailbox'[g] = p
        /\ \A g \in Gpus : mailbox'[g] = p \/ mailbox'[g] = mailbox[g]
    BY <1>0, <1>1, <1>3, <2>p DEF Post, Alive, Types
  <2>3. Types' /\ Hands'
    BY <1>0, <1>1, <1>3, <2>1, <2>2 DEF Types, Hands
  <2>4. Calling'
    BY <1>0, <1>3, <2>1 DEF Calling, Types
  <2>5. Commands'
    <3> SUFFICES ASSUME NEW g \in Gpus
                 PROVE  /\ Known(mailbox'[g], call', calls') /\ Known(hand'[g], call', calls')
                        /\ Ordered(hand'[g], mailbox'[g])
      BY DEF Commands
    <3>1. \A c \in Command :
            Known(c, call, calls)
              => Known(c, call', calls') /\ c.number < calls'
      BY <1>0, <2>1, Nothing DEF Known, OfCall, Command, Types
    <3>2. Known(p, call', calls')
      BY <1>0, <2>0, <2>1 DEF Known, OfCall, Types
    <3>3. mailbox[g] \in Command /\ hand[g] \in Command /\ hand'[g] = hand[g]
      BY <1>0, <1>1 DEF Types
    <3>4. Known(mailbox[g], call, calls) /\ Known(hand[g], call, calls)
          /\ Ordered(hand[g], mailbox[g])
      BY <1>0 DEF Commands
    <3>5. Known(mailbox'[g], call', calls') /\ Known(hand'[g], call', calls')
      BY <2>2, <3>1, <3>2, <3>3, <3>4
    <3>6. Ordered(hand'[g], mailbox'[g])
      BY <2>0, <2>2, <3>1, <3>3, <3>4 DEF Ordered
    <3> QED
      BY <3>5, <3>6
  <2>6. Taken' /\ Owing'
    BY <2>1, <2>2 DEF Taken, Owing
  <2>7. Behind'
    <3>2. Late(p, call', live')
      BY <2>0, <2>1 DEF Late, OfCall
    <3>3. gaveUp \/ \A g \in Alive : Late(hand[g], call', live')
      BY <1>0, <1>3 DEF IInv, Behind, Late, OfCall
    <3> QED
      BY <1>1, <2>2, <3>2, <3>3 DEF Behind
  <2>8. NeverSkipped'
    BY <1>0, <1>1, <1>3, Nothing DEF IInv, NeverSkipped
  <2>9. CallReaches'
    BY <2>0, <2>1, <2>2 DEF CallReaches, Headed, CallWork
  <2>10. LiveReached'
    BY <2>1 DEF LiveReached
  <2> QED
    BY <2>3, <2>4, <2>5, <2>6, <2>7, <2>8, <2>9, <2>10 DEF IInv
<1> QED
  BY <1>2, <1>3 DEF Request

---------------------------------------------------------------------------
(* Without a call, no command is of it.                                    *)
LEMMA NoneOfCall == \A c : ~OfCall(c, NoCall)
  BY DEF OfCall

(* What the end of a call leaves alone.                                    *)
LEMMA EndOfCall ==
  ASSUME IInv, call' = NoCall, UNCHANGED <<calls, applied, mailbox, stage, hand, work>>,
         live' \in Work, settled' \in BOOLEAN, gaveUp' \in BOOLEAN
  PROVE  Types' /\ Hands' /\ Calling' /\ Commands' /\ Taken' /\ Owing' /\ CallReaches'
<1>1. Types' /\ Hands'
  BY Nothing DEF IInv, Types, Hands
<1>2. Calling' /\ Taken' /\ CallReaches'
  BY Nothing DEF Calling, Taken, CallReaches
<1>3. Commands'
  BY NoneOfCall DEF IInv, Commands, Known
<1>4. Owing'
  BY NoneOfCall DEF Owing
<1> QED
  BY <1>1, <1>2, <1>3, <1>4

(* The call succeeds: the supervisor commits to its job.                   *)
LEMMA ReturnOkKeeps == ASSUME IInv, ReturnOk PROVE IInv'
<1>0. /\ call # NoCall /\ call' = NoCall /\ live' = CallWork /\ call.gen = live.gen + 1
      /\ live'.gen = call.gen /\ live.gen \in Nat /\ live' \in Work
  BY DEF IInv, ReturnOk, Calling, Types, Call, Work, CallWork
<1>1. UNCHANGED <<calls, gaveUp, applied, mailbox, stage, hand, work>> /\ settled' = TRUE
  BY DEF ReturnOk
<1>2. Types' /\ Hands' /\ Calling' /\ Commands' /\ Taken' /\ Owing' /\ CallReaches'
  BY <1>0, <1>1, EndOfCall DEF IInv, Types
<1>3. Behind'
  <2>1. \A c \in Command :
          Known(c, call, calls) /\ Late(c, call, live) => Late(c, NoCall, live')
    BY <1>0 DEF Known, Late, Command
  <2>2. Alive' = Alive
    BY <1>1 DEF Alive
  <2> QED
    BY <1>0, <1>1, <2>1, <2>2 DEF IInv, Behind, Commands, Types, Alive
<1>4. NeverSkipped'
  BY <1>0, <1>1 DEF IInv, NeverSkipped, Types
<1>5. LiveReached'
  <2>1. \A g \in Gpus : Headed(g)' = Headed(g)
    BY <1>1 DEF Headed
  <2>2. live'.job = call.job /\ Alive' = Alive /\ Alive \subseteq Gpus
    BY <1>0, <1>1 DEF CallWork, Alive
  <2> QED
    BY <1>0, <2>1, <2>2 DEF IInv, CallReaches, LiveReached
<1> QED
  BY <1>2, <1>3, <1>4, <1>5 DEF IInv

(* The call fails; it has given up unless all running GPUs answered.       *)
LEMMA ReturnErrKeeps == ASSUME IInv, ReturnErr PROVE IInv'
<1>1. /\ call # NoCall /\ ~call.taken /\ call' = NoCall /\ settled' = FALSE
      /\ UNCHANGED <<live, calls, applied, mailbox, stage, hand, work>>
      /\ gaveUp' = (gaveUp \/ call.owed \cap Alive # {})
  BY DEF ReturnErr
<1>2. Types' /\ Hands' /\ Calling' /\ Commands' /\ Taken' /\ Owing' /\ CallReaches'
  <2>1. live' \in Work /\ settled' \in BOOLEAN /\ gaveUp' \in BOOLEAN
    BY <1>1 DEF IInv, Types
  <2> QED
    BY <1>1, <2>1, EndOfCall
<1>3. Behind'
  <2> SUFFICES ASSUME ~gaveUp'
               PROVE  \A g \in Alive : /\ Late(mailbox[g], NoCall, live)
                                       /\ Late(hand[g], NoCall, live)
    BY <1>1 DEF Behind, Alive
  <2>1. ~gaveUp /\ \A g \in Alive : g \notin call.owed
    BY <1>1
  <2> QED
    BY <2>1 DEF IInv, Behind, Owing, Late
<1>4. NeverSkipped'
  BY <1>1 DEF IInv, NeverSkipped
<1>5. LiveReached'
  BY <1>1 DEF LiveReached
<1> QED
  BY <1>2, <1>3, <1>4, <1>5 DEF IInv

---------------------------------------------------------------------------
(* A GPU takes the command of its mailbox.                                 *)
LEMMA TakeKeeps == ASSUME NEW g \in Gpus, IInv, Take(g) PROVE IInv'
<1>0. Types /\ Hands /\ Calling /\ Commands
  BY DEF IInv
<1>1. /\ mailbox[g] # NoCommand /\ hand[g] = NoCommand /\ stage[g] # "stopped"
      /\ UNCHANGED <<live, call, calls, settled, gaveUp, applied, work>>
  BY <1>0 DEF Take, Hands
<1>2. /\ hand'[g] = mailbox[g] /\ mailbox'[g] = NoCommand
      /\ stage'[g] \in {"install", "adopt"}
      /\ \A h \in Gpus \ {g} : /\ hand'[h] = hand[h] /\ mailbox'[h] = mailbox[h]
                               /\ stage'[h] = stage[h]
  BY <1>0 DEF Take, Types
<1>3. Types'
  BY <1>0, <1>1, Nothing DEF Take, Types, Stages
<1>4. Hands'
  BY <1>0, <1>1, <1>2 DEF Hands
<1>5. Calling'
  BY <1>0, <1>1 DEF Calling
<1>6. ~OfCall(NoCommand, call) /\ Known(NoCommand, call, calls)
  BY <1>0, Nothing DEF Calling, OfCall, Known
<1>7. Commands'
  BY <1>0, <1>1, <1>2, <1>6 DEF Commands, Ordered
<1>8. Taken'
  BY <1>1, <1>2 DEF IInv, Taken, Took, CallWork
<1>9. Alive' = Alive
  BY <1>1, <1>2 DEF Alive
<1>10. Owing'
  BY <1>1, <1>2, <1>6, <1>9 DEF IInv, Owing, Alive
<1>11. Behind'
  <2>1. Late(NoCommand, call, live)
    BY <1>0, Nothing DEF Late, Types, Work
  <2> QED
    BY <1>1, <1>2, <1>9, <2>1 DEF IInv, Behind, Alive
<1>12. NeverSkipped'
  BY <1>1 DEF IInv, NeverSkipped
<1>13. CallReaches' /\ LiveReached'
  <2>1. \A h \in Gpus : Headed(h)' = Headed(h)
    BY <1>1, <1>2 DEF Headed
  <2> QED
    BY <1>1, <1>9, <2>1 DEF IInv, CallReaches, LiveReached, CallWork, Alive
<1> QED
  BY <1>3, <1>4, <1>5, <1>7, <1>8, <1>10, <1>11, <1>12, <1>13 DEF IInv

(* A GPU answers the command in its hand: it took the job, or a failed     *)
(* engine will restart on it (took is FALSE then), or it refused.          *)
LEMMA AnswerKeeps ==
  ASSUME NEW g \in Gpus, NEW took \in BOOLEAN, NEW s \in {"ready", "waiting"},
         IInv, stage[g] \in {"install", "adopt"}, Answer(g, took),
         hand' = [hand EXCEPT ![g] = NoCommand], stage' = [stage EXCEPT ![g] = s],
         \/ work' = [work EXCEPT ![g] = Adopted(g)]
         \/ work' = work /\ hand[g].job \in Refused /\ took = FALSE,
         applied' = IF took THEN hand[g].gen ELSE applied,
         UNCHANGED <<live, calls, settled, gaveUp, mailbox>>
  PROVE  IInv'
<1> DEFINE mine == call # NoCall /\ hand[g].number = call.number
<1>0. Types /\ Hands /\ Calling /\ Commands /\ hand[g] # NoCommand /\ hand[g] \in Command
  BY DEF IInv, Types, Hands
<1>1. /\ call' \in Call /\ call'.number = call.number
      /\ call'.gen = call.gen /\ call'.job = call.job
  BY <1>0 DEF Answer, Types, Call
<1>2. call' = NoCall <=> call = NoCall
  BY <1>0, <1>1, Nothing DEF Answer, Calling
<1>3. /\ mine => call'.owed = call.owed \ {g} /\ call'.taken = (call.taken \/ took)
      /\ ~mine => call' = call
  BY <1>0 DEF Answer, Types, Call
<1>4. CallWork' = CallWork /\ \A c : OfCall(c, call') <=> OfCall(c, call)
  BY <1>1, <1>2 DEF CallWork, OfCall
<1>5. /\ hand'[g] = NoCommand /\ stage'[g] \notin {"install", "adopt", "stopped"}
      /\ \A h \in Gpus \ {g} : /\ hand'[h] = hand[h] /\ stage'[h] = stage[h]
                               /\ work'[h] = work[h]
  BY <1>0 DEF Types
<1>6. Alive' = Alive
  BY <1>5 DEF Alive
<1>7. Types'
  BY <1>0, <1>1, Nothing DEF Types, Adopted, Work, Command, Stages
<1>8. Hands' /\ Calling'
  BY <1>0, <1>1, <1>2, <1>5 DEF Hands, Calling
<1>9. ~OfCall(NoCommand, call) /\ Known(NoCommand, call', calls)
  BY <1>0, <1>4, Nothing DEF Calling, OfCall, Known
<1>10. Commands'
  <2>1. \A c : Known(c, call, calls) => Known(c, call', calls)
    BY <1>1, <1>4 DEF Known
  <2> QED
    BY <1>0, <1>5, <1>9, <2>1 DEF Commands, Ordered
<1>11. mine => mailbox[g] = NoCommand
  BY <1>0 DEF Commands, Known, Ordered, Calling, Types, Command
<1>12. Taken'
  <2>1. CASE call.taken
    <3>1. PICK h \in Gpus : Took(h)
      BY <2>1 DEF IInv, Taken
    <3>2. h # g
      BY <1>0, <3>1 DEF Took
    <3> QED
      BY <1>4, <1>5, <3>1, <3>2 DEF Taken, Took
  <2>2. CASE mine /\ took
    <3>1. hand[g].gen = call.gen /\ hand[g].job = call.job
      BY <1>0, <2>2 DEF Commands, Known, OfCall
    <3>2. work'[g] = CallWork
      BY <1>0, <2>2, <3>1 DEF Adopted, CallWork, Types
    <3> QED
      BY <1>4, <1>5, <1>11, <2>2, <3>2 DEF Taken, Took
  <2>3. CASE ~call.taken /\ ~(mine /\ took)
    BY <1>3, <2>3 DEF Taken
  <2> QED
    BY <2>1, <2>2, <2>3
<1>13. Owing'
  BY <1>3, <1>4, <1>5, <1>6, <1>9, <1>11 DEF IInv, Owing, Alive
<1>14. Behind'
  <2>1. Late(NoCommand, call, live)
    BY <1>0, Nothing DEF Late, Types, Work
  <2>2. \A c : Late(c, call', live) <=> Late(c, call, live)
    BY <1>4 DEF Late
  <2> QED
    BY <1>5, <1>6, <2>1, <2>2 DEF IInv, Behind, Alive
<1>15. NeverSkipped'
  <2>1. CASE took
    <3>1. g \in Alive
      BY DEF Alive
    <3>2. gaveUp \/ mine \/ hand[g].gen <= live.gen
      BY <3>1 DEF IInv, Behind, Late, OfCall
    <3>3. mine => hand[g].gen = call.gen /\ call'.taken
      BY <1>0, <1>3, <2>1 DEF Commands, Known, OfCall
    <3> QED
      BY <1>1, <2>1, <3>2, <3>3 DEF NeverSkipped
  <2>2. CASE ~took
    <3>1. call.taken => call'.taken
      BY <1>3
    <3> QED
      BY <1>1, <2>2, <3>1 DEF IInv, NeverSkipped
  <2> QED
    BY <2>1, <2>2
<1>16. CallReaches' /\ LiveReached'
  <2>1. \A h \in Gpus : Headed(h)' = Headed(h) \/ Headed(h).job \in Refused
    BY <1>0, <1>5 DEF Headed, Adopted, Types
  <2>2. CallWork.job = call.job
    BY DEF CallWork
  <2> QED
    BY <1>1, <1>2, <1>4, <1>6, <2>1, <2>2 DEF IInv, CallReaches, LiveReached, Alive
<1> QED
  BY <1>7, <1>8, <1>10, <1>12, <1>13, <1>14, <1>15, <1>16 DEF IInv

(* A thread goes on to another stage, with no command in hand.             *)
LEMMA MoveKeeps ==
  ASSUME IInv, stage' \in [Gpus -> Stages],
         UNCHANGED <<live, call, calls, settled, gaveUp, applied, mailbox, hand, work>>,
         \A g \in Gpus : \/ stage'[g] = stage[g]
                         \/ /\ stage[g] \notin {"install", "adopt", "stopped"}
                            /\ stage'[g] \notin {"install", "adopt"}
  PROVE  IInv'
<1>1. Types' /\ Hands' /\ Calling' /\ Commands'
  BY DEF IInv, Types, Hands, Calling, Commands
<1>2. Alive' \subseteq Alive
  BY DEF Alive
<1>3. Taken' /\ NeverSkipped'
  BY DEF IInv, Taken, Took, CallWork, NeverSkipped
<1>4. Owing' /\ Behind'
  BY <1>2 DEF IInv, Owing, Behind
<1>5. CallReaches' /\ LiveReached'
  <2>1. \A g : Headed(g)' = Headed(g)
    BY DEF Headed
  <2> QED
    BY <1>2, <2>1 DEF IInv, CallReaches, LiveReached, CallWork
<1> QED
  BY <1>1, <1>3, <1>4, <1>5 DEF IInv

---------------------------------------------------------------------------
LEMMA NextIInv == IInv /\ [Next]_vars => IInv'
<1> SUFFICES ASSUME IInv, [Next]_vars PROVE IInv'
  OBVIOUS
<1>0. stage \in [Gpus -> Stages]
  BY DEF IInv, Types
<1>1. CASE \E j \in Jobs : Request(j)
  BY <1>1, RequestKeeps
<1>2. CASE ReturnOk
  BY <1>2, ReturnOkKeeps
<1>3. CASE ReturnErr
  BY <1>3, ReturnErrKeeps
<1>4. ASSUME NEW g \in Gpus, GpuStep(g) PROVE IInv'
  <2>1. CASE Take(g)
    BY <2>1, TakeKeeps
  <2>2. CASE Install(g)
    BY <2>2, AnswerKeeps, Zenon DEF Install
  <2>3. CASE Refuse(g)
    BY <2>3, AnswerKeeps, Zenon DEF Refuse
  <2>4. CASE InstallFails(g)
    BY <2>4, AnswerKeeps, Zenon DEF InstallFails
  <2>5. CASE Adopt(g)
    BY <2>5, AnswerKeeps, Zenon DEF Adopt
  <2>6. CASE Restart(g)
    BY <1>0, <2>6, MoveKeeps DEF Restart, Stages
  <2>7. CASE StartBatch(g)
    BY <1>0, <2>7, MoveKeeps DEF StartBatch, Stages
  <2>8. CASE EndBatch(g)
    BY <1>0, <2>8, MoveKeeps DEF EndBatch, Stages
  <2>9. CASE BatchFails(g)
    BY <1>0, <2>9, MoveKeeps DEF BatchFails, Stages
  <2> QED
    BY <1>4, <2>1, <2>2, <2>3, <2>4, <2>5, <2>6, <2>7, <2>8, <2>9 DEF GpuStep
<1>5. CASE UNCHANGED vars
  BY <1>0, <1>5, MoveKeeps DEF vars
<1> QED
  BY <1>1, <1>2, <1>3, <1>4, <1>5 DEF Next

LEMMA Inductive == Spec => []IInv
  BY InitIInv, NextIInv, PTL DEF Spec

(* A call of replace_job succeeds only on the answer of a GPU that took    *)
(* the call's own job, though answers to calls given up still come in.     *)
THEOREM OwnAnswersOnly == Spec => []AnsweredByTaker
<1>1. IInv => AnsweredByTaker
  BY DEF IInv, Taken, Took, CallWork, AnsweredByTaker
<1> QED
  BY <1>1, Inductive, PTL

(* Unless a call gave up on a slow GPU, the number the GPUs report runs    *)
(* ahead of the supervisor only in the call that sends it, so replace_job  *)
(* takes no change for done that no GPU has taken.                         *)
THEOREM NoChangeSkipped == Spec => []NeverSkipped
<1>1. IInv => NeverSkipped
  BY DEF IInv
<1> QED
  BY <1>1, Inductive, PTL

(* Unless a call gave up on a slow GPU, every running GPU follows the job  *)
(* change that succeeded last, through refusals, failures and restarts.    *)
THEOREM GpusFollow == Spec => []Followed
<1>1. IInv => Followed
  <2>1. ASSUME NEW g \in Gpus, Headed(g) = live PROVE Heads(g)
    BY <2>1 DEF Headed, Heads
  <2> QED
    BY <2>1 DEF IInv, LiveReached, Followed, AllFollow, Alive
<1> QED
  BY <1>1, Inductive, PTL
=============================================================================

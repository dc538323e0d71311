-------------------------- MODULE ConfigLoaderProofs --------------------------
(***************************************************************************)
(* Theorems about ConfigLoader, for any number of attempts, reconnects and *)
(* changes of the setting.                                                 *)
(***************************************************************************)
EXTENDS ConfigLoader, TLAPS

(* The sequence that waits is the latest one, has attempts left and waits  *)
(* on behalf of a configuration that is unknown.                           *)
WaiterInv ==
  /\ waiter # Nil =>
       /\ seq[waiter] # Nil /\ seq[waiter].pc = "waiting"
       /\ waiter = epoch /\ ~stopped
  /\ \A e \in Sequences : seq[e] # Nil /\ seq[e].pc = "waiting" =>
       waiter = e /\ seq[e].attempt < MaxAttempts

(* Only the latest sequence has the latest generation; while it runs the   *)
(* configuration is unknown, and what it was told is no older than its     *)
(* start.                                                                  *)
GenerationInv ==
  \A e \in Sequences : seq[e] # Nil =>
    /\ seq[e].generation <= generation
    /\ seq[e].generation = generation => e = epoch /\ ~stopped
    /\ e = epoch /\ ~stopped => config = Nil
    /\ e <= epoch
    /\ seq[e].generation = generation /\ seq[e].pc = "answered" /\ seq[e].answer # Failed =>
         seq[e].answer >= since

FreshInv == ConfigIsFresh /\ since <= served

IInv == TypeOK /\ WaiterInv /\ GenerationInv /\ FreshInv /\ LoadedMeansRefreshed

-----------------------------------------------------------------------------
LEMMA Types ==
  /\ Sequences \subseteq Nat \ {0} /\ Versions \subseteq Nat
  /\ Nil \notin Sequences /\ Nil \notin Versions
  /\ MaxAttempts \in Nat \ {0} /\ MaxReconnects \in Nat /\ 1 \in Sequences
  /\ 0 \in Versions
BY LoaderAssumption, NilSequenceAssumption DEF Sequences, Versions

LEMMA RequestType ==
  ASSUME NEW a \in 1..MaxAttempts, NEW g \in Nat
  PROVE  /\ Request(a, g) \in Sequence
         /\ Request(a, g) # Nil
         /\ Request(a, g).pc = "sent"
         /\ Request(a, g).generation = g
BY NilSequenceAssumption DEF Request, Sequence

(* clear() ends the sequence that waits and no other. *)
LEMMA CancelType ==
  ASSUME TypeOK
  PROVE  /\ Cancel(seq) \in [Sequences -> Sequence \cup {Nil}]
         /\ \A e \in Sequences : e # waiter => Cancel(seq)[e] = seq[e]
         /\ \A e \in Sequences : e = waiter => Cancel(seq)[e] = Nil
BY Types DEF TypeOK, Cancel

LEMMA InitInv == Init => IInv
<1> SUFFICES ASSUME Init PROVE IInv
  OBVIOUS
<1>1. Request(1, 1) \in Sequence /\ Request(1, 1).pc = "sent" /\ Request(1, 1).generation = 1
  BY RequestType, Types
<1>2. TypeOK
  BY <1>1, Types DEF Init, TypeOK
<1>3. WaiterInv
  BY <1>1, Types DEF Init, WaiterInv
<1>4. GenerationInv
  BY <1>1, Types DEF Init, GenerationInv
<1>5. FreshInv /\ LoadedMeansRefreshed
  BY Types DEF Init, FreshInv, ConfigIsFresh, LoadedMeansRefreshed
<1> QED
  BY <1>2, <1>3, <1>4, <1>5 DEF IInv

(* A reconnect: the new sequence is the only one with the new generation. *)
LEMMA ReconnectInv == IInv /\ Reconnect => IInv'
<1> SUFFICES ASSUME IInv, Reconnect PROVE IInv'
  OBVIOUS
<1> USE DEF IInv
<1> DEFINE new == Request(1, generation + 1)
<1>1. /\ new \in Sequence /\ new # Nil /\ new.pc = "sent"
      /\ new.generation = generation + 1
  BY RequestType, Types DEF TypeOK
<1>2. epoch + 1 \in Sequences
  BY Types DEF Reconnect, TypeOK, Sequences
<1>3. /\ seq' \in [Sequences -> Sequence \cup {Nil}]
      /\ seq'[epoch + 1] = new
      /\ \A e \in Sequences : e # epoch + 1 => seq'[e] \in {Nil, seq[e]}
      /\ \A e \in Sequences : e # epoch + 1 /\ e = waiter => seq'[e] = Nil
  <2> HIDE DEF new
  <2>1. seq' = [Cancel(seq) EXCEPT ![epoch + 1] = new]
    BY DEF Reconnect, new
  <2> QED
    BY <1>1, <1>2, <2>1, CancelType
<1> HIDE DEF new
<1>4. TypeOK'
  BY <1>3, Types DEF Reconnect, TypeOK
<1>5. WaiterInv'
  BY <1>1, <1>2, <1>3, Types DEF Reconnect, WaiterInv, TypeOK
<1>6. GenerationInv'
  <2> SUFFICES ASSUME NEW e \in Sequences, seq'[e] # Nil
               PROVE  /\ seq'[e].generation <= generation'
                      /\ seq'[e].generation = generation' => e = epoch' /\ ~stopped'
                      /\ e = epoch' /\ ~stopped' => config' = Nil
                      /\ e <= epoch'
                      /\ seq'[e].generation = generation' /\ seq'[e].pc = "answered"
                           /\ seq'[e].answer # Failed => seq'[e].answer >= since'
    BY DEF GenerationInv
  <2>1. CASE e = epoch + 1
    BY <2>1, <1>1, <1>3, Types DEF Reconnect, TypeOK
  <2>2. CASE e # epoch + 1
    <3>1. seq'[e] = seq[e] /\ seq[e] \in Sequence
      BY <2>2, <1>3 DEF TypeOK
    <3>2. seq[e].generation \in Nat
      BY <3>1 DEF Sequence
    <3> QED
      BY <2>2, <3>1, <3>2, Types DEF Reconnect, GenerationInv, TypeOK
  <2> QED
    BY <2>1, <2>2
<1>7. FreshInv' /\ LoadedMeansRefreshed'
  BY Types DEF Reconnect, FreshInv, ConfigIsFresh, LoadedMeansRefreshed, TypeOK
<1> QED
  BY <1>4, <1>5, <1>6, <1>7

LEMMA AnswerInv == ASSUME IInv, NEW e \in Sequences, Answer(e) PROVE IInv'
<1> USE DEF IInv
<1>1. PICK v \in {served, Failed} :
        seq' = [seq EXCEPT ![e].pc = "answered", ![e].answer = v]
  BY DEF Answer
<1>2. /\ seq[e] \in Sequence /\ seq[e].pc = "sent"
      /\ served \in Versions /\ v \in Versions \cup {Failed}
  BY Types DEF Answer, TypeOK
<1>3. /\ seq'[e] = [seq[e] EXCEPT !.pc = "answered", !.answer = v]
      /\ \A f \in Sequences : f # e => seq'[f] = seq[f]
  BY <1>1 DEF TypeOK
<1>4. /\ seq'[e] \in Sequence /\ seq'[e] # Nil /\ seq'[e].pc = "answered"
      /\ seq'[e].generation = seq[e].generation /\ seq'[e].answer = v
      /\ seq'[e].attempt = seq[e].attempt
  BY <1>2, <1>3, NilSequenceAssumption DEF Sequence
<1>5. TypeOK'
  <2>1. seq' \in [Sequences -> Sequence \cup {Nil}]
    BY <1>1, <1>3, <1>4 DEF TypeOK
  <2> QED
    BY <2>1 DEF Answer, TypeOK
<1>6. WaiterInv'
  BY <1>2, <1>3, <1>4, Types DEF Answer, WaiterInv, TypeOK
<1>7. GenerationInv'
  BY <1>2, <1>3, <1>4, Types DEF Answer, GenerationInv, FreshInv, TypeOK
<1>8. FreshInv' /\ LoadedMeansRefreshed'
  BY DEF Answer, FreshInv, ConfigIsFresh, LoadedMeansRefreshed
<1> QED
  BY <1>5, <1>6, <1>7, <1>8

(* What a step leaves of the other sequences: they are as before or ended. *)
LEMMA OthersKept ==
  ASSUME IInv, NEW S \in SUBSET Sequences,
         \A e \in Sequences \ S : seq'[e] \in {Nil, seq[e]},
         since' = since
  PROVE  \A e \in Sequences \ S : seq'[e] # Nil =>
           /\ seq'[e] = seq[e] /\ seq[e] \in Sequence
           /\ seq[e].generation \in Nat
BY DEF IInv, TypeOK, Sequence

(* A response is taken in: if it is the latest request's, its sequence is  *)
(* the latest one, and no other sequence shares the generation.            *)
LEMMA ContinueInv == ASSUME IInv, NEW e \in Sequences, Continue(e) PROVE IInv'
<1> USE DEF IInv
<1> DEFINE s == seq[e]
           loaded == ~Outdated(s) /\ s.answer # Failed
           waits == [s EXCEPT !.pc = "waiting"]
<1>1. /\ s # Nil /\ s \in Sequence /\ s.pc = "answered"
      /\ s.generation \in Nat /\ s.answer \in Versions \cup {Failed}
      /\ s.attempt \in 1..MaxAttempts
  BY DEF Continue, TypeOK, Sequence
<1>2. /\ config' = IF loaded THEN s.answer ELSE config
      /\ UNCHANGED <<served, generation, epoch, stopped, since>>
  BY DEF Continue
<1>3. loaded => e = epoch /\ ~stopped /\ s.answer >= since /\ s.answer \in Versions
  BY <1>1 DEF GenerationInv, Outdated
<1>4. ~Superseded(e) => e = epoch /\ ~stopped /\ e # waiter
  BY <1>1, Types DEF Superseded, WaiterInv
<1>5. /\ waits \in Sequence /\ waits # Nil /\ waits.pc = "waiting"
      /\ waits.attempt = s.attempt /\ waits.generation = s.generation
      /\ waits.answer = s.answer
  BY <1>1, NilSequenceAssumption DEF Sequence
<1>6. CASE Superseded(e) \/ (~loaded /\ LastAttempt(s))
  <2>1. /\ seq' = [seq EXCEPT ![e] = Nil] /\ UNCHANGED <<waiter, refreshed, config>>
    BY <1>2, <1>3, <1>6 DEF Continue, Superseded
  <2>2. /\ seq' \in [Sequences -> Sequence \cup {Nil}] /\ seq'[e] = Nil
        /\ \A f \in Sequences : f # e => seq'[f] = seq[f]
    BY <2>1 DEF TypeOK
  <2>3. TypeOK'
    BY <1>2, <2>1, <2>2 DEF TypeOK
  <2>4. WaiterInv'
    BY <1>1, <1>2, <2>1, <2>2, Types DEF WaiterInv, TypeOK
  <2>5. GenerationInv'
    BY <1>2, <2>1, <2>2 DEF GenerationInv
  <2>6. FreshInv' /\ LoadedMeansRefreshed'
    BY <1>2, <2>1 DEF FreshInv, ConfigIsFresh, LoadedMeansRefreshed
  <2> QED
    BY <2>3, <2>4, <2>5, <2>6
<1>7. CASE ~Superseded(e) /\ loaded
  <2>1. /\ seq' = [Cancel(seq) EXCEPT ![e] = Nil] /\ waiter' = Nil
        /\ refreshed' = Refreshing(e) /\ config' = s.answer
    BY <1>2, <1>7 DEF Continue
  <2>2. /\ seq' \in [Sequences -> Sequence \cup {Nil}] /\ seq'[e] = Nil
        /\ \A f \in Sequences : f # e /\ f # waiter => seq'[f] = seq[f]
        /\ \A f \in Sequences : f = waiter => seq'[f] = Nil
    BY <2>1, CancelType, <1>4, <1>7
  <2>3. TypeOK'
    BY <1>2, <1>3, <1>7, <2>1, <2>2, Types DEF TypeOK, Refreshing
  <2>4. WaiterInv'
    BY <1>2, <2>1, <2>2, Types DEF WaiterInv, TypeOK
  <2>5. GenerationInv'
    BY <1>2, <1>3, <1>7, <2>1, <2>2 DEF GenerationInv
  <2>6. FreshInv' /\ LoadedMeansRefreshed'
    BY <1>2, <1>3, <1>7, <2>1, Types
       DEF FreshInv, ConfigIsFresh, LoadedMeansRefreshed, Refreshing, TypeOK
  <2> QED
    BY <2>3, <2>4, <2>5, <2>6
<1>8. CASE ~Superseded(e) /\ ~loaded /\ ~LastAttempt(s)
  <2>1. /\ seq' = [Cancel(seq) EXCEPT ![e] = waits] /\ waiter' = e
        /\ UNCHANGED <<refreshed, config>>
    BY <1>2, <1>8 DEF Continue
  <2>2. /\ seq' \in [Sequences -> Sequence \cup {Nil}] /\ seq'[e] = waits
        /\ \A f \in Sequences : f # e /\ f # waiter => seq'[f] = seq[f]
        /\ \A f \in Sequences : f = waiter => seq'[f] = Nil
    <3> HIDE DEF waits, s
    <3> QED BY <2>1, CancelType, <1>4, <1>5, <1>8
  <2> HIDE DEF waits
  <2>3. TypeOK'
    BY <1>2, <2>1, <2>2, Types DEF TypeOK
  <2>4. WaiterInv'
    BY <1>1, <1>2, <1>4, <1>5, <1>8, <2>1, <2>2, Types DEF WaiterInv, TypeOK, LastAttempt
  <2>5. GenerationInv'
    BY <1>1, <1>2, <1>4, <1>5, <1>8, <2>1, <2>2 DEF GenerationInv
  <2>6. FreshInv' /\ LoadedMeansRefreshed'
    BY <1>2, <2>1 DEF FreshInv, ConfigIsFresh, LoadedMeansRefreshed
  <2> QED
    BY <2>3, <2>4, <2>5, <2>6
<1> QED
  BY <1>6, <1>7, <1>8

LEMMA TimerFiresInv == IInv /\ TimerFires => IInv'
<1> SUFFICES ASSUME IInv, TimerFires PROVE IInv'
  OBVIOUS
<1> USE DEF IInv
<1> DEFINE s == seq[waiter]
           new == Request(s.attempt + 1, generation + 1)
<1>1. /\ waiter \in Sequences /\ waiter = epoch /\ ~stopped /\ s \in Sequence
      /\ s.attempt \in 1..MaxAttempts /\ s.attempt < MaxAttempts
  BY Types DEF TimerFires, TypeOK, WaiterInv, Sequence
<1>2. /\ new \in Sequence /\ new # Nil /\ new.pc = "sent"
      /\ new.generation = generation + 1
  BY <1>1, RequestType, Types DEF TypeOK
<1>3. /\ seq' \in [Sequences -> Sequence \cup {Nil}] /\ seq'[waiter] = new
      /\ \A f \in Sequences : f # waiter => seq'[f] = seq[f]
  <2>1. seq' = [seq EXCEPT ![waiter] = new]
    BY DEF TimerFires, TypeOK
  <2> HIDE DEF new
  <2> QED
    BY <1>1, <1>2, <2>1 DEF TypeOK
<1> HIDE DEF new
<1>4. TypeOK'
  BY <1>3, Types DEF TimerFires, TypeOK
<1>5. WaiterInv'
  BY <1>1, <1>2, <1>3, Types DEF TimerFires, WaiterInv, TypeOK
<1>6. GenerationInv'
  <2>1. \A f \in Sequences : f # waiter /\ seq'[f] # Nil =>
          seq'[f] = seq[f] /\ seq[f].generation \in Nat
    BY <1>3 DEF TypeOK, Sequence
  <2> QED
    BY <1>1, <1>2, <1>3, <2>1, Types DEF TimerFires, GenerationInv, TypeOK
<1>7. FreshInv' /\ LoadedMeansRefreshed'
  BY DEF TimerFires, FreshInv, ConfigIsFresh, LoadedMeansRefreshed
<1> QED
  BY <1>4, <1>5, <1>6, <1>7

LEMMA UninitializeInv == IInv /\ Uninitialize => IInv'
<1> SUFFICES ASSUME IInv, Uninitialize PROVE IInv'
  OBVIOUS
<1> USE DEF IInv
<1>1. /\ seq' \in [Sequences -> Sequence \cup {Nil}]
      /\ \A f \in Sequences : f # waiter => seq'[f] = seq[f]
      /\ \A f \in Sequences : f = waiter => seq'[f] = Nil
  BY CancelType DEF Uninitialize
<1>2. TypeOK'
  BY <1>1, Types DEF Uninitialize, TypeOK, InvalidatedGeneration
<1>3. WaiterInv'
  BY <1>1, Types DEF Uninitialize, WaiterInv, TypeOK
<1>4. GenerationInv'
  <2>1. \A f \in Sequences : seq'[f] # Nil =>
          seq'[f] = seq[f] /\ seq[f].generation \in Nat
    BY <1>1 DEF TypeOK, Sequence
  <2> QED
    BY <2>1, Types DEF Uninitialize, GenerationInv, TypeOK, InvalidatedGeneration
<1>5. FreshInv' /\ LoadedMeansRefreshed'
  BY DEF Uninitialize, FreshInv, ConfigIsFresh, LoadedMeansRefreshed
<1> QED
  BY <1>2, <1>3, <1>4, <1>5

LEMMA ChangeSettingInv == IInv /\ ChangeSetting => IInv'
<1> SUFFICES ASSUME IInv, ChangeSetting PROVE IInv'
  OBVIOUS
<1> USE DEF IInv
<1>1. TypeOK'
  BY LoaderAssumption DEF ChangeSetting, TypeOK, Versions
<1>2. WaiterInv' /\ GenerationInv' /\ LoadedMeansRefreshed'
  BY DEF ChangeSetting, WaiterInv, GenerationInv, LoadedMeansRefreshed
<1>3. FreshInv'
  BY Types DEF ChangeSetting, FreshInv, ConfigIsFresh, TypeOK
<1> QED
  BY <1>1, <1>2, <1>3

LEMMA StepInv == IInv /\ [Next]_vars => IInv'
<1> SUFFICES ASSUME IInv, [Next]_vars PROVE IInv'
  OBVIOUS
<1>1. CASE UNCHANGED vars
  BY <1>1 DEF vars, IInv, TypeOK, WaiterInv, GenerationInv, FreshInv, ConfigIsFresh,
              LoadedMeansRefreshed
<1>2. CASE Next
  BY <1>2, ReconnectInv, AnswerInv, ContinueInv, TimerFiresInv, UninitializeInv,
     ChangeSettingInv DEF Next, LoaderStep
<1> QED
  BY <1>1, <1>2

LEMMA Invariance == Spec => []IInv
<1>1. Init => IInv
  BY InitInv
<1>2. IInv /\ [Next]_vars => IInv'
  BY StepInv
<1> QED
  BY <1>1, <1>2, PTL DEF Spec

-----------------------------------------------------------------------------
(* Every variable keeps its type; in particular no sequence makes more     *)
(* than MaxAttempts attempts.                                              *)
THEOREM LoaderTypeCorrect == Spec => []TypeOK
<1>1. IInv => TypeOK
  BY DEF IInv
<1> QED
  BY <1>1, Invariance, PTL

(* No answer from before the last reconnect is ever worked with.           *)
THEOREM ConfigStaysFresh == Spec => []ConfigIsFresh
<1>1. IInv => ConfigIsFresh
  BY DEF IInv, FreshInv
<1> QED
  BY <1>1, Invariance, PTL

(* Only the latest sequence waits, and what waits has its timer.           *)
THEOREM WaiterStaysLatest == Spec => []WaiterIsLatest
<1>1. IInv => WaiterIsLatest
  BY Types DEF IInv, WaiterInv, WaiterIsLatest, TypeOK
<1> QED
  BY <1>1, Invariance, PTL

(* What a reconnect's sequence loaded has refreshed the watcher.           *)
THEOREM LoadingRefreshes == Spec => []LoadedMeansRefreshed
<1>1. IInv => LoadedMeansRefreshed
  BY DEF IInv
<1> QED
  BY <1>1, Invariance, PTL

(* A loaded configuration is dropped by a reconnect only: a retry's        *)
(* CONFIG_LOADING finds none to drop.                                      *)
THEOREM LoadedConfigStays == Spec => LoadedStays
<1>1. IInv /\ [Next]_vars => [config # Nil /\ config' = Nil => epoch' = epoch + 1]_vars
  <2> SUFFICES ASSUME IInv, Next, config # Nil, config' = Nil PROVE epoch' = epoch + 1
    BY DEF vars
  <2>1. ~TimerFires
    BY DEF TimerFires, IInv, WaiterInv, GenerationInv, TypeOK
  <2>2. ASSUME NEW e \in Sequences, LoaderStep(e) PROVE FALSE
    BY <2>2, Types, NilSequenceAssumption
       DEF LoaderStep, Answer, Continue, IInv, TypeOK, Sequence
  <2> QED
    BY <2>1, <2>2 DEF Next, Reconnect, Uninitialize, ChangeSetting
<1> QED
  BY <1>1, Invariance, PTL DEF Spec, LoadedStays

(* After uninitialize no response and no timer touches the store.          *)
THEOREM StopIsFinal == Spec => NothingAfterStop
<1>1. IInv /\ [Next]_vars => [stopped => UNCHANGED config]_vars
  <2> SUFFICES ASSUME IInv, Next, stopped PROVE config' = config
    BY DEF vars
  <2>1. ~TimerFires /\ ~Reconnect
    BY DEF TimerFires, Reconnect, IInv, WaiterInv
  <2>2. ASSUME NEW e \in Sequences, LoaderStep(e) PROVE config' = config
    BY <2>2 DEF LoaderStep, Answer, Continue, Outdated, IInv, GenerationInv
  <2> QED
    BY <2>1, <2>2 DEF Next, Uninitialize, ChangeSetting
<1> QED
  BY <1>1, Invariance, PTL DEF Spec, NothingAfterStop

-----------------------------------------------------------------------------
(***************************************************************************)
(* The loader implements ConfigSession.                                    *)
(***************************************************************************)

(* Until uninitialize the epoch is that of a sequence.                     *)
EpochInv == ~stopped => epoch \in Sequences

LEMMA EpochInvariance == Spec => []EpochInv
<1>1. Init => EpochInv
  BY Types DEF Init, EpochInv
<1>2. IInv /\ EpochInv /\ [Next]_vars => EpochInv'
  <2> SUFFICES ASSUME IInv, EpochInv, [Next]_vars PROVE EpochInv'
    OBVIOUS
  <2>1. CASE Reconnect
    BY <2>1, Types DEF Reconnect, EpochInv, IInv, TypeOK, Sequences
  <2>2. CASE Uninitialize
    BY <2>2 DEF Uninitialize, EpochInv
  <2>3. CASE UNCHANGED <<epoch, stopped>>
    BY <2>3 DEF EpochInv
  <2> QED
    BY <2>1, <2>2, <2>3
    DEF Next, vars, TimerFires, ChangeSetting, LoaderStep, Answer, Continue
<1> QED
  BY <1>1, <1>2, Invariance, PTL DEF Spec

LEMMA PromiseInit == Init => Promise!Init
<1> SUFFICES ASSUME Init PROVE Promise!Init
  OBVIOUS
<1>1. Request(1, 1) # Nil
  BY RequestType, Types
<1> QED
  BY <1>1, Types DEF Init, Promise!Init, Session

(* While the latest sequence runs there is no configuration.               *)
LEMMA RunningIsInert ==
  ASSUME IInv, EpochInv, Session # "settled"
  PROVE  ~stopped /\ epoch \in Sequences /\ seq[epoch] # Nil /\ config = Nil
BY DEF Session, EpochInv, IInv, GenerationInv

LEMMA ReconnectPromise ==
  ASSUME IInv, EpochInv, Reconnect PROVE Promise!Reconnect
<1> DEFINE new == Request(1, generation + 1)
<1>1. new # Nil
  BY RequestType, Types DEF IInv, TypeOK
<1>2. epoch \in Nat \ {0} /\ epoch + 1 \in Sequences
  BY Types DEF Reconnect, EpochInv, IInv, TypeOK, Sequences
<1>3. seq' = [Cancel(seq) EXCEPT ![epoch + 1] = new]
  BY DEF Reconnect
<1> HIDE DEF new
<1>4. seq'[epoch + 1] = new
  BY <1>2, <1>3, CancelType DEF IInv
<1> QED
  BY <1>1, <1>2, <1>4 DEF Reconnect, Promise!Reconnect, Session

LEMMA AnswerPromise ==
  ASSUME IInv, EpochInv, NEW e \in Sequences, Answer(e)
  PROVE  UNCHANGED Promise!vars
<1>1. PICK v \in {served, Failed} :
        seq' = [seq EXCEPT ![e].pc = "answered", ![e].answer = v]
  BY DEF Answer
<1>2. seq[e] \in Sequence /\ v \in Versions \cup {Failed}
  BY Types DEF Answer, IInv, TypeOK
<1>3. /\ seq'[e] = [seq[e] EXCEPT !.pc = "answered", !.answer = v]
      /\ \A f \in Sequences : f # e => seq'[f] = seq[f]
  BY <1>1 DEF IInv, TypeOK
<1>4. seq'[e] # Nil /\ seq[e] # Nil
  BY <1>2, <1>3, NilSequenceAssumption DEF Sequence, Answer
<1> QED
  BY <1>3, <1>4 DEF Answer, Promise!vars, Session, EpochInv

(* Only the latest sequence's answer is seen: it loads, gives up or waits. *)
LEMMA ContinuePromise ==
  ASSUME IInv, EpochInv, NEW e \in Sequences, Continue(e)
  PROVE  Promise!Load \/ Promise!GiveUp \/ UNCHANGED Promise!vars
<1> DEFINE s == seq[e]
           loaded == ~Outdated(s) /\ s.answer # Failed
           waits == [s EXCEPT !.pc = "waiting"]
<1>1. /\ s # Nil /\ s \in Sequence /\ s.pc = "answered"
      /\ s.answer \in Versions \cup {Failed}
  BY DEF Continue, IInv, TypeOK, Sequence
<1>2. /\ config' = IF loaded THEN s.answer ELSE config
      /\ UNCHANGED <<epoch, stopped>>
  BY DEF Continue
<1>3. loaded => e = epoch /\ ~stopped /\ s.answer # Nil
  BY <1>1, Types DEF IInv, GenerationInv, Outdated
<1>4. seq \in [Sequences -> Sequence \cup {Nil}] /\ epoch \in Nat
      /\ (waiter # Nil => waiter = epoch)
  BY DEF IInv, TypeOK, WaiterInv
<1>5. CASE Superseded(e)
  <2>1. seq' = [seq EXCEPT ![e] = Nil] /\ config' = config
    BY <1>2, <1>3, <1>5 DEF Continue, Superseded
  <2>2. stopped \/ (epoch # e /\ seq'[epoch] = seq[epoch])
    BY <1>4, <1>5, <2>1 DEF Superseded, EpochInv
  <2> QED
    BY <1>2, <2>1, <2>2 DEF Promise!vars, Session
<1>6. CASE ~Superseded(e) /\ loaded
  <2>1. seq' = [Cancel(seq) EXCEPT ![e] = Nil] /\ config' = s.answer
    BY <1>2, <1>6 DEF Continue
  <2>2. seq'[epoch] = Nil
    BY <1>3, <1>6, <2>1, CancelType DEF IInv
  <2> QED
    BY <1>1, <1>2, <1>3, <1>6, <2>1, <2>2 DEF Promise!Load, Session
<1>7. CASE ~Superseded(e) /\ ~loaded /\ LastAttempt(s)
  <2>1. seq' = [seq EXCEPT ![e] = Nil] /\ config' = config /\ e = epoch /\ ~stopped
    BY <1>2, <1>7 DEF Continue, Superseded
  <2>2. seq'[epoch] = Nil
    BY <1>4, <2>1
  <2> QED
    BY <1>1, <1>2, <2>1, <2>2 DEF Promise!GiveUp, Session
<1>8. CASE ~Superseded(e) /\ ~loaded /\ ~LastAttempt(s)
  <2>1. /\ seq' = [Cancel(seq) EXCEPT ![e] = waits] /\ config' = config
        /\ e = epoch /\ ~stopped
    BY <1>2, <1>8 DEF Continue, Superseded
  <2>2. waits # Nil
    BY <1>1, NilSequenceAssumption DEF Sequence
  <2> HIDE DEF waits
  <2>3. seq'[epoch] = waits
    BY <2>1, CancelType DEF IInv
  <2> QED
    BY <1>1, <1>2, <2>1, <2>2, <2>3 DEF Promise!vars, Session
<1> QED
  BY <1>5, <1>6, <1>7, <1>8

(* A retry drops a configuration that is not there.                        *)
LEMMA TimerFiresPromise ==
  ASSUME IInv, EpochInv, TimerFires PROVE UNCHANGED Promise!vars
<1> DEFINE s == seq[waiter]
           new == Request(s.attempt + 1, generation + 1)
<1>1. /\ waiter \in Sequences /\ waiter = epoch /\ ~stopped /\ s # Nil
      /\ s \in Sequence /\ s.attempt \in 1..MaxAttempts /\ s.attempt < MaxAttempts
  BY Types DEF TimerFires, IInv, TypeOK, WaiterInv, Sequence
<1>2. config = Nil
  BY <1>1 DEF IInv, GenerationInv
<1>3. new # Nil
  BY <1>1, RequestType, Types DEF IInv, TypeOK
<1>4. seq' = [seq EXCEPT ![waiter] = new]
  BY DEF TimerFires, IInv, TypeOK
<1> HIDE DEF new
<1>5. seq'[epoch] = new
  BY <1>1, <1>4 DEF IInv, TypeOK
<1> QED
  BY <1>1, <1>2, <1>3, <1>5 DEF TimerFires, Promise!vars, Session

LEMMA PromiseStep ==
  IInv /\ EpochInv /\ [Next]_vars => [Promise!Next]_(Promise!vars)
<1> SUFFICES ASSUME IInv, EpochInv, [Next]_vars
             PROVE  [Promise!Next]_(Promise!vars)
  OBVIOUS
<1>1. CASE Uninitialize
  BY <1>1 DEF Uninitialize, Promise!Next, Promise!Stop, Session
<1>2. CASE ChangeSetting \/ UNCHANGED vars
  BY <1>2 DEF ChangeSetting, vars, Promise!vars, Session
<1> QED
  BY <1>1, <1>2, ReconnectPromise, AnswerPromise, ContinuePromise,
     TimerFiresPromise DEF Next, LoaderStep, Promise!Next

(* However many sequences overlap and whenever their answers come in, the  *)
(* loader behaves as one session at a time.                                *)
THEOREM LoaderImplementsSession == Spec => ImplementsSession
<1>1. Init => Promise!Init
  BY PromiseInit
<1>2. IInv /\ EpochInv /\ [Next]_vars => [Promise!Next]_(Promise!vars)
  BY PromiseStep
<1> QED
  BY <1>1, <1>2, Invariance, EpochInvariance, PTL
  DEF Spec, ImplementsSession, Promise!Spec
=============================================================================

------------------------ MODULE TickRecorder_proofs ------------------------
(***************************************************************************)
(* What the recorder promises of its ticks, of its health row and of its   *)
(* waits, for any sizes of the buffer and the watchlist and any caps.      *)
(***************************************************************************)
EXTENDS TickRecorder, FiniteSetTheorems, SequenceTheorems, TLAPS

ControlType ==
  /\ pc \in Places
  /\ closing \in BOOLEAN /\ ended \in Ends /\ refused_before \in BOOLEAN
  /\ wait \in 1..RefusalCap
  /\ polled \in 0..Names /\ report \in {"low", "full", "rejected"}
  /\ rejections \in Nat

(* The flusher runs only while a stream does: it is off before the last    *)
(* flush of the teardown begins, and stays so until keys are resolved.     *)
FlusherPaired ==
  /\ closing => pc["stream"] \in {"last", "write", "load", "commit"}
  /\ pc["stream"] = "last" => closing
  /\ \/ pc["stream"] \in {"resolve", "caught", "caught_commit", "backoff", "pause"}
     \/ closing
     => pc["flusher"] = "off"

(* A wait beyond the normal cap was doubled after a refusal, and the chains*)
(* of a pass are polled after one rejection at most.                       *)
WaitsEarned == wait > DropCap => refused_before
RejectionsCounted ==
  /\ pc["poller"] \in {"start", "chains", "backoff"} => rejections <= 1
  /\ rejections <= 2

Control == ControlType /\ FlusherPaired /\ WaitsEarned /\ RejectionsCounted

-----------------------------------------------------------------------------
LEMMA InitControl == Init => Control
<1> SUFFICES ASSUME Init PROVE Control
  OBVIOUS
<1>1. /\ pc = [stream |-> "resolve", flusher |-> "off", poller |-> "start"]
      /\ closing = FALSE /\ ended = "none" /\ refused_before = FALSE /\ wait = 1
      /\ polled = 0 /\ report = "low" /\ rejections = 0
  BY DEF Init, Tasks
<1>2. /\ DropCap \in Nat \ {0} /\ RefusalCap \in Nat /\ DropCap <= RefusalCap /\ Names \in Nat
  BY RecorderAssumption
<1>3. ControlType
  <2>1. pc \in Places /\ ended \in Ends
    BY <1>1 DEF Places, Ends
  <2>2. wait \in 1..RefusalCap /\ polled \in 0..Names /\ rejections \in Nat
    BY <1>1, <1>2
  <2>3. QED
    BY <1>1, <2>1, <2>2 DEF ControlType
<1>4. QED
  BY <1>1, <1>2, <1>3 DEF Control, FlusherPaired, WaitsEarned, RejectionsCounted

(* The control state of a process that has just started.                   *)
LEMMA RestartControl == ASSUME Restart, Control PROVE Control'
<1>1. /\ pc \in Places
      /\ pc' = [pc EXCEPT !["stream"] = "resolve", !["flusher"] = "off", !["poller"] = "start"]
      /\ closing' = FALSE /\ ended' = "none" /\ refused_before' = FALSE /\ wait' = 1
      /\ polled' = 0 /\ report' = "low" /\ rejections' = 0
  BY DEF Restart, PassOver, Control, ControlType
<1>2. /\ DropCap \in Nat \ {0} /\ RefusalCap \in Nat /\ DropCap <= RefusalCap /\ Names \in Nat
  BY RecorderAssumption
<1>3. /\ pc' \in Places /\ pc'["stream"] = "resolve" /\ pc'["flusher"] = "off"
      /\ pc'["poller"] = "start"
  BY <1>1 DEF Places
<1>4. ControlType'
  <2>1. wait' \in 1..RefusalCap /\ polled' \in 0..Names /\ rejections' \in Nat
    BY <1>1, <1>2
  <2>2. QED
    BY <1>1, <1>3, <2>1 DEF ControlType, Ends
<1>5. QED
  BY <1>1, <1>2, <1>3, <1>4 DEF Control, FlusherPaired, WaitsEarned, RejectionsCounted

(* The stream, going to and fro between its stream and its handler.        *)
LEMMA StreamControl ==
  ASSUME Control,
         \/ Resolve \/ Connect \/ StreamEnds \/ Teardown \/ LastFlush
         \/ ReportError \/ CommitError
  PROVE  Control'
<1>1. pc \in Places
  BY DEF Control, ControlType
<1>2. UNCHANGED <<refused_before, wait, polled, report, rejections>>
  BY DEF Resolve, Connect, StreamEnds, Teardown, LastFlush, ReportError, CommitError,
         retry, poll
<1>3. CASE Resolve
  BY <1>1, <1>2, <1>3 DEF Resolve, Goto, Control, ControlType, Places, Ends, FlusherPaired,
     WaitsEarned, RejectionsCounted
<1>4. CASE Connect \/ StreamEnds
  BY <1>1, <1>2, <1>4 DEF Connect, StreamEnds, Goto, Control, ControlType, Places, Ends,
     FlusherPaired, WaitsEarned, RejectionsCounted
<1>5. CASE Teardown
  <2>1. \/ /\ pc' = [pc EXCEPT !["flusher"] = "off", !["stream"] = "last"]
           /\ closing' = TRUE /\ ended' = ended
        \/ /\ pc' = [pc EXCEPT !["flusher"] = "off", !["stream"] = "caught"]
           /\ closing' = closing /\ ended' = "dropped" /\ pc["stream"] = "teardown"
    BY <1>5 DEF Teardown, StopFlusher, StopSleeper, StopWriter, AwaitFailed
  <2>2. /\ pc' \in Places /\ pc'["flusher"] = "off" /\ pc'["poller"] = pc["poller"]
        /\ pc'["stream"] = IF closing' THEN "last" ELSE "caught"
    BY <1>1, <2>1 DEF Places, Control, FlusherPaired
  <2>3. QED
    BY <1>2, <2>1, <2>2 DEF Control, ControlType, Ends, FlusherPaired, WaitsEarned,
       RejectionsCounted
<1>6. CASE LastFlush
  BY <1>1, <1>2, <1>6 DEF LastFlush, Take, Goto, retry, Control, ControlType, Places, Ends,
     FlusherPaired, WaitsEarned, RejectionsCounted
<1>7. CASE ReportError \/ CommitError
  BY <1>1, <1>2, <1>7 DEF ReportError, CommitError, Goto, retry, Control, ControlType, Places,
     Ends, FlusherPaired, WaitsEarned, RejectionsCounted
<1>8. QED
  BY <1>3, <1>4, <1>5, <1>6, <1>7

(* The waits.                                                              *)
LEMMA WaitControl == ASSUME Control, Backoff \/ Pause PROVE Control'
<1>1. pc \in Places /\ pc["stream"] \in {"backoff", "pause"} /\ wait \in 1..RefusalCap
      /\ pc' = [pc EXCEPT !["stream"] = "resolve"] /\ closing' = closing /\ ended' = "none"
      /\ UNCHANGED <<polled, report, rejections>>
  BY DEF Control, ControlType, Backoff, Pause, Goto, poll
<1>2. DropCap \in Nat \ {0} /\ RefusalCap \in Nat /\ DropCap <= RefusalCap
  BY RecorderAssumption
<1>3. /\ wait' \in 1..RefusalCap /\ refused_before' \in BOOLEAN
      /\ wait' > DropCap => refused_before'
  <2>1. CASE Pause
    BY <1>1, <1>2, <2>1 DEF Pause
  <2>2. CASE Backoff /\ ended = "refused"
    <3>1. refused_before' = TRUE /\ wait' = Smaller(2 * wait, RefusalCap)
      BY <2>2 DEF Backoff, Longer
    <3>2. wait' \in 1..RefusalCap
      BY <1>1, <1>2, <3>1 DEF Smaller
    <3>3. QED
      BY <3>1, <3>2
  <2>3. CASE Backoff /\ ended # "refused"
    <3>1. refused_before' = FALSE /\ wait' = Smaller(2 * wait, DropCap)
      BY <2>3 DEF Backoff, Longer
    <3>2. wait' \in 1..RefusalCap /\ ~(wait' > DropCap)
      BY <1>1, <1>2, <3>1 DEF Smaller
    <3>3. QED
      BY <3>1, <3>2
  <2>4. QED
    BY <2>1, <2>2, <2>3
<1>4. QED
  BY <1>1, <1>3 DEF Control, ControlType, Places, Ends, FlusherPaired, WaitsEarned,
     RejectionsCounted

(* What flushes do to the control state, of the stream and of the flusher. *)
LEMMA FlushControl ==
  ASSUME Control, NEW t \in {"stream", "flusher"},
         WriteBatch(t) \/ LoadHealth(t) \/ CommitHealth(t)
  PROVE  Control'
<1>1. pc \in Places /\ pc[t] \in {"write", "load", "commit"}
  BY DEF Control, ControlType, WriteBatch, LoadHealth, CommitHealth
<1>2. UNCHANGED <<refused_before, wait, polled, report, rejections>>
  BY DEF WriteBatch, LoadHealth, CommitHealth, Raise, retry, poll
<1>3. CASE t = "stream"
  <2>1. \/ /\ pc' = [pc EXCEPT !["stream"] = IF closing THEN "caught" ELSE "teardown"]
           /\ ended' = "dropped" /\ closing' = FALSE
        \/ /\ pc' = [pc EXCEPT !["stream"] = "load"] /\ UNCHANGED <<ended, closing>>
        \/ /\ pc' = [pc EXCEPT !["stream"] = "commit"] /\ UNCHANGED <<ended, closing>>
        \/ /\ pc' = [pc EXCEPT !["stream"] = IF ~closing THEN "streaming"
                                             ELSE IF ended = "clean" THEN "pause" ELSE "caught"]
           /\ closing' = FALSE /\ ended' = ended
    BY <1>3 DEF WriteBatch, LoadHealth, CommitHealth, Raise, Goto, retry
  <2>2. /\ pc' \in Places /\ pc'["flusher"] = pc["flusher"] /\ pc'["poller"] = pc["poller"]
    BY <1>1, <2>1 DEF Places
  <2>3. \/ pc'["stream"] = (IF closing THEN "caught" ELSE "teardown") /\ ~closing'
        \/ pc'["stream"] \in {"load", "commit"} /\ closing' = closing
        \/ /\ pc'["stream"] = (IF ~closing THEN "streaming"
                               ELSE IF ended = "clean" THEN "pause" ELSE "caught")
           /\ ~closing'
    BY <1>1, <2>1 DEF Places
  <2>4. closing' \in BOOLEAN /\ ended' \in Ends
    BY <2>1 DEF Control, ControlType, Ends
  <2>5. FlusherPaired'
    BY <1>1, <1>3, <2>2, <2>3 DEF Control, FlusherPaired
  <2>6. QED
    BY <1>2, <2>2, <2>4, <2>5 DEF Control, ControlType, Places, Ends, FlusherPaired,
       WaitsEarned, RejectionsCounted
<1>4. CASE t = "flusher"
  <2>1. /\ \E place \in {"load", "commit", "failed", "sleep"} :
             pc' = [pc EXCEPT !["flusher"] = place]
        /\ UNCHANGED <<ended, closing>>
    BY <1>4 DEF WriteBatch, LoadHealth, CommitHealth, Raise, Goto, retry
  <2>2. QED
    BY <1>1, <1>2, <1>4, <2>1 DEF Control, ControlType, Places, Ends, FlusherPaired,
       WaitsEarned, RejectionsCounted
<1>5. QED
  BY <1>3, <1>4

LEMMA TickControl == ASSUME Control, Tick \/ PeriodicFlush PROVE Control'
<1>1. pc \in Places
  BY DEF Control, ControlType
<1>2. UNCHANGED <<closing, ended, refused_before, wait, polled, report, rejections>>
  BY DEF Tick, PeriodicFlush, retry, poll
<1>3. CASE Tick
  <2>1. pc["stream"] = "streaming" /\ pc' \in {pc, [pc EXCEPT !["stream"] = "write"],
                                               [pc EXCEPT !["stream"] = "load"]}
    BY <1>3 DEF Tick, Take, Goto
  <2>2. QED
    BY <1>1, <1>2, <2>1 DEF Control, ControlType, Places, Ends, FlusherPaired,
       WaitsEarned, RejectionsCounted
<1>4. CASE PeriodicFlush
  <2>1. pc["flusher"] = "sleep" /\ pc' \in {[pc EXCEPT !["flusher"] = "write"],
                                            [pc EXCEPT !["flusher"] = "load"]}
    BY <1>4 DEF PeriodicFlush, Take, Goto
  <2>2. QED
    BY <1>1, <1>2, <2>1 DEF Control, ControlType, Places, Ends, FlusherPaired,
       WaitsEarned, RejectionsCounted
<1>5. QED
  BY <1>3, <1>4

LEMMA PollerControl ==
  ASSUME Control,
         \/ RefreshBars \/ PollChain \/ ChainRejected \/ AskQuota
         \/ ReportPoll \/ CommitPoll \/ QuotaBackoff
  PROVE  Control'
<1>1. pc \in Places /\ polled \in 0..Names /\ rejections \in Nat
  BY DEF Control, ControlType
<1>2. Names \in Nat \ {0}
  BY RecorderAssumption
<1>3. UNCHANGED <<closing, ended, refused_before, wait>>
  BY DEF RefreshBars, PollChain, ChainRejected, AskQuota, ReportPoll, CommitPoll,
         QuotaBackoff, retry
<1>4. CASE RefreshBars \/ PollChain
  BY <1>1, <1>2, <1>3, <1>4 DEF RefreshBars, PollChain, Goto, Control, ControlType, Places,
     Ends, FlusherPaired, WaitsEarned, RejectionsCounted
<1>5. CASE ChainRejected
  BY <1>1, <1>2, <1>3, <1>5 DEF ChainRejected, LeavePass, Goto, Control, ControlType, Places,
     Ends, FlusherPaired, WaitsEarned, RejectionsCounted
<1>6. CASE AskQuota
  BY <1>1, <1>2, <1>3, <1>6 DEF AskQuota, PassOver, Goto, Control, ControlType, Places,
     Ends, FlusherPaired, WaitsEarned, RejectionsCounted
<1>7. CASE ReportPoll
  BY <1>1, <1>2, <1>3, <1>7 DEF ReportPoll, PassOver, Goto, poll, Control, ControlType, Places,
     Ends, FlusherPaired, WaitsEarned, RejectionsCounted
<1>8. CASE CommitPoll
  BY <1>1, <1>2, <1>3, <1>8 DEF CommitPoll, PassOver, Goto, Control, ControlType, Places,
     Ends, FlusherPaired, WaitsEarned, RejectionsCounted
<1>9. CASE QuotaBackoff
  <2>1. pc["poller"] = "backoff" /\ pc' = [pc EXCEPT !["poller"] = "start"]
        /\ UNCHANGED <<polled, report, rejections>>
    BY <1>9 DEF QuotaBackoff, Goto, poll
  <2>2. QED
    BY <1>1, <1>2, <1>3, <2>1 DEF Control, ControlType, Places,
       Ends, FlusherPaired, WaitsEarned, RejectionsCounted
<1>10. QED
  BY <1>4, <1>5, <1>6, <1>7, <1>8, <1>9

LEMMA StepControl == Control /\ [Next]_vars => Control'
<1> SUFFICES ASSUME Control, [Next]_vars PROVE Control'
  OBVIOUS
<1>1. CASE UNCHANGED vars
  BY <1>1 DEF vars, retry, poll, Control, ControlType, FlusherPaired, WaitsEarned,
     RejectionsCounted
<1>2. CASE Restart \/ \E t \in Tasks : Die(t)
  BY <1>2, RestartControl DEF Die
<1>3. CASE Next /\ ~(Restart \/ \E t \in Tasks : Die(t))
  BY <1>3, StreamControl, WaitControl, FlushControl, TickControl, PollerControl
     DEF Next, StreamStep, FlusherStep, PollerStep, Tasks
<1>4. QED
  BY <1>1, <1>2, <1>3

-----------------------------------------------------------------------------
MemoryType ==
  /\ received \in 0..MaxTicks
  /\ buffer \in Seq(1..received) /\ batch \in [Tasks -> Seq(1..received)]
  /\ stored \subseteq 1..received /\ lost \subseteq 1..received

(* Only a task that is writing holds a batch.                              *)
BatchesHeld == \A t \in Tasks : pc[t] = "write" \/ batch[t] = <<>>

Memory == MemoryType /\ BatchesHeld /\ TicksOnce

LEMMA NoElements == Elements(<<>>) = {} /\ Cardinality(Elements(<<>>)) = Len(<<>>)
<1>1. Elements(<<>>) = {}
  BY DEF Elements
<1>2. QED
  BY <1>1, FS_EmptySet

LEMMA WiderSeq ==
  ASSUME NEW S, NEW T, S \subseteq T, NEW s \in Seq(S)
  PROVE  s \in Seq(T)
<1>1. Len(s) \in Nat /\ s \in [1..Len(s) -> S]
  OBVIOUS
<1>2. s \in [1..Len(s) -> T]
  BY <1>1
<1>3. QED
  BY <1>1, <1>2, SeqDef

LEMMA ElementsType ==
  ASSUME NEW S, NEW s \in Seq(S)
  PROVE  Elements(s) \subseteq S
  BY DEF Elements

(* A tick that is new makes a buffer one longer, and one richer.           *)
LEMMA AppendElements ==
  ASSUME NEW S, NEW s \in Seq(S), NEW x, x \notin S, IsFiniteSet(S),
         Cardinality(Elements(s)) = Len(s)
  PROVE  /\ Elements(Append(s, x)) = Elements(s) \cup {x}
         /\ Cardinality(Elements(Append(s, x))) = Len(Append(s, x))
<1>1. /\ Len(Append(s, x)) = Len(s) + 1 /\ Len(s) \in Nat
      /\ \A i \in 1..Len(s) : Append(s, x)[i] = s[i]
      /\ Append(s, x)[Len(s) + 1] = x
  BY WiderSeq
<1>2. Elements(Append(s, x)) = Elements(s) \cup {x}
  <2>1. \A y \in Elements(Append(s, x)) : y \in Elements(s) \cup {x}
    <3> SUFFICES ASSUME NEW i \in 1..(Len(s) + 1)
                 PROVE  Append(s, x)[i] \in Elements(s) \cup {x}
      BY <1>1 DEF Elements
    <3>1. i = Len(s) + 1 \/ i \in 1..Len(s)
      BY <1>1
    <3>2. QED
      BY <1>1, <3>1 DEF Elements
  <2>2. \A i \in 1..Len(s) : i \in 1..Len(Append(s, x))
    BY <1>1
  <2>3. \A y \in Elements(s) : y \in Elements(Append(s, x))
    BY <1>1, <2>2 DEF Elements
  <2>4. x \in Elements(Append(s, x))
    <3>1. Len(s) + 1 \in 1..Len(Append(s, x))
      BY <1>1
    <3>2. QED
      BY <1>1, <3>1 DEF Elements
  <2>5. QED
    BY <2>1, <2>3, <2>4
<1>3. Elements(s) \subseteq S /\ x \notin Elements(s)
  BY ElementsType
<1>4. IsFiniteSet(Elements(s))
  BY <1>3, FS_Subset
<1>5. Cardinality(Elements(s) \cup {x}) = Cardinality(Elements(s)) + 1
  BY <1>3, <1>4, FS_AddElement
<1>6. QED
  BY <1>1, <1>2, <1>5

(* What is in memory, task by task.                                        *)
LEMMA MemoryParts ==
  ASSUME Memory, Control
  PROVE  /\ batch = [stream |-> batch["stream"], flusher |-> batch["flusher"], poller |-> <<>>]
         /\ InMemory = Elements(buffer) \cup Elements(batch["stream"])
                                        \cup Elements(batch["flusher"])
<1>1. pc["poller"] # "write"
  BY DEF Control, ControlType, Places
<1>2. batch["poller"] = <<>>
  BY <1>1 DEF Memory, BatchesHeld, Tasks
<1>3. QED
  BY <1>2, NoElements DEF InMemory, Memory, MemoryType, Tasks

LEMMA InitMemory == Init => Memory
<1> SUFFICES ASSUME Init PROVE Memory
  OBVIOUS
<1>1. /\ buffer = <<>> /\ batch = [t \in Tasks |-> <<>>] /\ received = 0
      /\ stored = {} /\ lost = {}
  BY DEF Init
<1>2. received \in 0..MaxTicks
  BY <1>1, RecorderAssumption
<1>3. MemoryType /\ BatchesHeld
  BY <1>1, <1>2 DEF MemoryType, BatchesHeld
<1>4. InMemory = {}
  BY <1>1, NoElements DEF InMemory
<1>5. TicksOnce
  BY <1>1, <1>4, NoElements DEF TicksOnce, Tasks
<1>6. QED
  BY <1>3, <1>5 DEF Memory

(* The flush of one task takes what is buffered.                           *)
LEMMA TakeKeeps ==
  ASSUME Memory, Control, NEW t \in {"stream", "flusher"}, pc[t] # "write", Take(t, buffer),
         UNCHANGED <<received, stored, lost>>
  PROVE  Memory'
<1> DEFINE o == IF t = "stream" THEN "flusher" ELSE "stream"
<1>1. /\ batch' = [batch EXCEPT ![t] = buffer] /\ buffer' = <<>>
      /\ pc' = [pc EXCEPT ![t] = IF buffer = <<>> THEN "load" ELSE "write"]
  BY DEF Take, Goto
<1>2. t \in Tasks /\ batch[t] = <<>> /\ pc \in Places
  BY DEF Memory, BatchesHeld, Tasks, Control, ControlType
<1>3. MemoryType'
  <2> DEFINE S == Seq(1..received)
  <2>1. buffer \in S /\ batch \in [Tasks -> S] /\ <<>> \in S
    BY DEF Memory, MemoryType
  <2>2. S' = S
    OBVIOUS
  <2> HIDE DEF S
  <2>3. buffer' \in S /\ batch' \in [Tasks -> S]
    BY <1>1, <2>1
  <2>4. buffer' \in S' /\ batch' \in [Tasks -> S']
    BY <2>2, <2>3
  <2>5. QED
    BY <2>4 DEF S, Memory, MemoryType
<1>4. BatchesHeld'
  BY <1>1, <1>2 DEF Memory, MemoryType, BatchesHeld, Places, Tasks
<1>5. \A u \in Tasks : batch'[u] = IF u = t THEN buffer ELSE batch[u]
  BY <1>1, <1>2 DEF Memory, MemoryType
<1>6. InMemory' = InMemory
  <2>1. \A u \in Tasks : Elements(batch'[u]) = IF u = t THEN Elements(buffer)
                                                ELSE Elements(batch[u])
    BY <1>5
  <2>2. Elements(buffer') = {} /\ Elements(batch[t]) = {}
    BY <1>1, <1>2, NoElements
  <2>3. QED
    BY <1>2, <2>1, <2>2 DEF InMemory
<1>7. TicksOnce'
  <2>1. \A u \in Tasks : Elements(batch[u]) \cap Elements(buffer) = {}
    BY DEF Memory, TicksOnce
  <2>2. Elements(batch'["stream"]) \cap Elements(batch'["flusher"]) = {}
    BY <1>5, <2>1 DEF Tasks
  <2>3. \A u \in Tasks : Elements(batch'[u]) \cap Elements(buffer') = {}
    BY <1>1, NoElements
  <2>4. \A q \in {buffer} \cup {batch[u] : u \in Tasks} : Cardinality(Elements(q)) = Len(q)
    BY DEF Memory, TicksOnce
  <2>5. \A q \in {buffer'} \cup {batch'[u] : u \in Tasks} : Cardinality(Elements(q)) = Len(q)
    BY <1>1, <1>5, <2>4, NoElements
  <2>6. QED
    BY <1>6, <2>2, <2>3, <2>5 DEF Memory, TicksOnce
<1>8. QED
  BY <1>3, <1>4, <1>7 DEF Memory

(* A batch is written or given up.                                         *)
LEMMA SettleKeeps ==
  ASSUME Memory, Control, NEW t \in {"stream", "flusher"}, NEW committed \in BOOLEAN,
         pc[t] = "write", Settle(t, committed),
         \A u \in Tasks \ {t} : pc[u] = "write" => pc'[u] = "write"
  PROVE  Memory'
<1> DEFINE gone == Elements(batch[t])
<1>1. /\ batch' = [batch EXCEPT ![t] = <<>>] /\ UNCHANGED <<buffer, received>>
      /\ \/ stored' = stored \cup gone /\ lost' = lost
         \/ lost' = lost \cup gone /\ stored' = stored
  BY DEF Settle
<1>2. t \in Tasks /\ batch[t] \in Seq(1..received)
  BY DEF Tasks, Memory, MemoryType
<1>3. \A u \in Tasks : batch'[u] = IF u = t THEN <<>> ELSE batch[u]
  BY <1>1, <1>2 DEF Memory, MemoryType
<1>4. MemoryType'
  <2> DEFINE S == Seq(1..received)
  <2>1. gone \subseteq 1..received
    BY <1>2, ElementsType
  <2>2. buffer \in S /\ batch \in [Tasks -> S] /\ <<>> \in S
    BY DEF Memory, MemoryType
  <2>3. S' = S
    BY <1>1
  <2> HIDE DEF S
  <2>4. buffer' \in S' /\ batch' \in [Tasks -> S']
    BY <1>1, <2>2, <2>3
  <2>5. stored' \subseteq 1..received' /\ lost' \subseteq 1..received'
    BY <1>1, <2>1 DEF Memory, MemoryType
  <2>6. QED
    BY <1>1, <2>4, <2>5 DEF S, Memory, MemoryType
<1>5. BatchesHeld'
  BY <1>3 DEF Memory, BatchesHeld
<1>6. gone \subseteq InMemory
  BY <1>2 DEF InMemory
<1>7. InMemory' = InMemory \ gone
  <2>1. \A u \in Tasks : Elements(batch'[u]) = IF u = t THEN {} ELSE Elements(batch[u])
    BY <1>3, NoElements
  <2>2. gone \cap Elements(buffer) = {}
    BY <1>2 DEF Memory, TicksOnce
  <2>3. \A u \in Tasks \ {t} : gone \cap Elements(batch[u]) = {}
    <3>1. Elements(batch["stream"]) \cap Elements(batch["flusher"]) = {}
      BY DEF Memory, TicksOnce
    <3>2. batch["poller"] = <<>>
      BY MemoryParts
    <3>3. QED
      BY <3>1, <3>2, NoElements DEF Tasks
  <2>4. Elements(buffer') = Elements(buffer)
    BY <1>1
  <2>5. QED
    BY <1>2, <2>1, <2>2, <2>3, <2>4 DEF InMemory
<1>8. TicksOnce'
  <2>1. /\ InMemory = (1..received) \ (stored \cup lost) /\ stored \cap lost = {}
        /\ \A u \in Tasks : Elements(batch[u]) \cap Elements(buffer) = {}
        /\ Elements(batch["stream"]) \cap Elements(batch["flusher"]) = {}
        /\ \A q \in {buffer} \cup {batch[u] : u \in Tasks} : Cardinality(Elements(q)) = Len(q)
    BY DEF Memory, TicksOnce
  <2>2. InMemory' = (1..received)' \ (stored' \cup lost') /\ stored' \cap lost' = {}
    BY <1>1, <1>6, <1>7, <2>1
  <2>3. \A u \in Tasks : Elements(batch'[u]) \subseteq Elements(batch[u])
    BY <1>3, NoElements
  <2>4. /\ \A u \in Tasks : Elements(batch'[u]) \cap Elements(buffer') = {}
        /\ Elements(batch'["stream"]) \cap Elements(batch'["flusher"]) = {}
    BY <1>1, <2>1, <2>3 DEF Tasks
  <2>5. \A q \in {buffer'} \cup {batch'[u] : u \in Tasks} : Cardinality(Elements(q)) = Len(q)
    BY <1>1, <1>3, <2>1, NoElements
  <2>6. QED
    BY <2>2, <2>4, <2>5 DEF TicksOnce
<1>9. QED
  BY <1>4, <1>5, <1>8 DEF Memory

(* A tick goes into the buffer, or with the buffer into a batch.           *)
LEMMA TickKeeps == ASSUME Memory, Control, Tick PROVE Memory'
<1> DEFINE n    == received + 1
           held == Append(buffer, received + 1)
<1>1. /\ received \in Nat /\ received < MaxTicks /\ MaxTicks \in Nat /\ received' = n
      /\ UNCHANGED <<stored, lost>> /\ pc["stream"] = "streaming"
  BY RecorderAssumption DEF Memory, MemoryType, Tick
<1>2. /\ n \in 0..MaxTicks /\ 1..n = (1..received) \cup {n} /\ n \notin 1..received
      /\ 1..received \subseteq 1..n
  BY <1>1
<1>3. batch["stream"] = <<>> /\ pc \in Places
  BY <1>1 DEF Memory, BatchesHeld, Tasks, Control, ControlType
<1>4. /\ Elements(held) = Elements(buffer) \cup {n} /\ Cardinality(Elements(held)) = Len(held)
  <2>1. /\ buffer \in Seq(1..received) /\ Cardinality(Elements(buffer)) = Len(buffer)
    BY DEF Memory, MemoryType, TicksOnce
  <2>2. IsFiniteSet(1..received)
    BY <1>1, FS_Interval
  <2>3. QED
    BY <1>2, <2>1, <2>2, AppendElements
<1> DEFINE S == Seq(1..n)
<1>5. /\ buffer \in S /\ held \in S /\ <<>> \in S
      /\ \A u \in Tasks : batch[u] \in S
      /\ batch = [u \in Tasks |-> batch[u]]
  <2>1. \A q \in Seq(1..received) : q \in S
    BY <1>2, WiderSeq
  <2>2. buffer \in Seq(1..received) /\ batch \in [Tasks -> Seq(1..received)]
    BY DEF Memory, MemoryType
  <2>3. n \in 1..n
    BY <1>2
  <2>4. QED
    BY <2>1, <2>2, <2>3
<1>6. S = Seq(1..received')
  BY <1>1
<1> HIDE DEF S
<1>7. \/ buffer' = held /\ UNCHANGED <<pc, batch>>
      \/ /\ batch' = [batch EXCEPT !["stream"] = held] /\ buffer' = <<>>
         /\ pc' = [pc EXCEPT !["stream"] = IF held = <<>> THEN "load" ELSE "write"]
  BY DEF Tick, Take, Goto
<1>8. held # <<>>
  BY <1>4, NoElements
<1> HIDE DEF held
<1>9. MemoryType'
  <2>1. buffer' \in S /\ batch' \in [Tasks -> S]
    BY <1>5, <1>7 DEF Tasks
  <2>2. stored' \subseteq 1..received' /\ lost' \subseteq 1..received'
    BY <1>1, <1>2 DEF Memory, MemoryType
  <2>3. QED
    BY <1>1, <1>2, <1>6, <2>1, <2>2 DEF MemoryType
<1>10. BatchesHeld'
  BY <1>3, <1>7, <1>8 DEF Memory, MemoryType, BatchesHeld, Places, Tasks
<1>11. /\ InMemory' = InMemory \cup {n}
       /\ Elements(batch'["stream"]) \cap Elements(batch'["flusher"]) = {}
       /\ \A u \in Tasks : Elements(batch'[u]) \cap Elements(buffer') = {}
       /\ \A q \in {buffer'} \cup {batch'[u] : u \in Tasks} : Cardinality(Elements(q)) = Len(q)
  <2>1. /\ Elements(batch["stream"]) \cap Elements(batch["flusher"]) = {}
        /\ \A u \in Tasks : Elements(batch[u]) \cap Elements(buffer) = {}
        /\ \A q \in {buffer} \cup {batch[u] : u \in Tasks} : Cardinality(Elements(q)) = Len(q)
    BY DEF Memory, TicksOnce
  <2>2. \A u \in Tasks : n \notin Elements(batch[u])
    <3>1. \A u \in Tasks : Elements(batch[u]) \subseteq 1..received
      BY ElementsType DEF Memory, MemoryType
    <3>2. QED
      BY <1>2, <3>1
  <2>3. CASE buffer' = held /\ UNCHANGED <<pc, batch>>
    BY <1>4, <2>1, <2>2, <2>3 DEF InMemory
  <2>4. CASE batch' = [batch EXCEPT !["stream"] = held] /\ buffer' = <<>>
    <3>1. \A u \in Tasks : batch'[u] = IF u = "stream" THEN held ELSE batch[u]
      BY <1>5, <2>4
    <3>2. \A u \in Tasks : Elements(batch'[u]) = IF u = "stream" THEN Elements(buffer) \cup {n}
                                                  ELSE Elements(batch[u])
      BY <1>4, <3>1
    <3>3. Elements(buffer') = {} /\ Elements(batch["stream"]) = {} /\ "stream" \in Tasks
          /\ Cardinality(Elements(<<>>)) = Len(<<>>)
      BY <1>3, <2>4, NoElements DEF Tasks
    <3>4. InMemory' = InMemory \cup {n}
      BY <3>2, <3>3 DEF InMemory
    <3>5. /\ Elements(batch'["stream"]) \cap Elements(batch'["flusher"]) = {}
          /\ \A u \in Tasks : Elements(batch'[u]) \cap Elements(buffer') = {}
      BY <2>1, <2>2, <3>2, <3>3 DEF Tasks
    <3>6. \A q \in {buffer'} \cup {batch'[u] : u \in Tasks} : Cardinality(Elements(q)) = Len(q)
      BY <1>4, <2>1, <2>4, <3>1, <3>3
    <3>7. QED
      BY <3>4, <3>5, <3>6
  <2>5. QED
    BY <1>7, <2>3, <2>4
<1>12. TicksOnce'
  <2>1. InMemory = (1..received) \ (stored \cup lost) /\ stored \cap lost = {}
    BY DEF Memory, TicksOnce
  <2>2. n \notin stored \cup lost
    BY <1>2 DEF Memory, MemoryType
  <2>3. InMemory' = (1..received') \ (stored' \cup lost') /\ stored' \cap lost' = {}
    BY <1>1, <1>2, <1>11, <2>1, <2>2
  <2>4. QED
    BY <1>11, <2>3 DEF TicksOnce
<1>13. QED
  BY <1>9, <1>10, <1>12 DEF Memory

LEMMA RestartMemory == ASSUME Memory, Restart PROVE Memory'
<1>1. /\ buffer' = <<>> /\ batch' = [t \in Tasks |-> <<>>]
      /\ lost' = (1..received) \ stored /\ UNCHANGED <<received, stored>>
  BY DEF Restart
<1>2. MemoryType' /\ BatchesHeld'
  <2>1. <<>> \in Seq(1..received')
    OBVIOUS
  <2>2. QED
    BY <1>1, <2>1 DEF Memory, MemoryType, BatchesHeld
<1>3. InMemory' = {}
  BY <1>1, NoElements DEF InMemory
<1>4. TicksOnce'
  BY <1>1, <1>3, NoElements DEF Memory, MemoryType, TicksOnce, Tasks
<1>5. QED
  BY <1>2, <1>4 DEF Memory

(* Whoever leaves the memory alone keeps it.                               *)
LEMMA IdleMemory ==
  ASSUME Memory, UNCHANGED memory, \A t \in Tasks : pc[t] = "write" => pc'[t] = "write"
  PROVE  Memory'
<1>1. UNCHANGED <<buffer, batch, received, stored, lost>>
  BY DEF memory
<1>2. MemoryType' /\ BatchesHeld'
  BY <1>1 DEF Memory, MemoryType, BatchesHeld
<1>3. TicksOnce'
  BY <1>1 DEF Memory, TicksOnce, InMemory
<1>4. QED
  BY <1>2, <1>3 DEF Memory

(* A task that goes somewhere leaves the others where they are.            *)
LEMMA OthersStay ==
  ASSUME Control, NEW t \in Tasks, NEW place, Goto(t, place)
  PROVE  \A u \in Tasks \ {t} : pc'[u] = pc[u]
  BY DEF Goto, Control, ControlType, Places, Tasks

LEMMA StepMemory == Memory /\ Control /\ [Next]_vars => Memory'
<1> SUFFICES ASSUME Memory, Control, [Next]_vars PROVE Memory'
  OBVIOUS
<1>1. pc \in Places
  BY DEF Control, ControlType
<1>2. CASE UNCHANGED vars
  BY <1>2, IdleMemory DEF vars
<1>3. CASE Restart \/ \E t \in Tasks : Die(t)
  BY <1>3, RestartMemory DEF Die
<1>4. CASE Tick
  BY <1>4, TickKeeps
<1>5. CASE LastFlush
  BY <1>5, TakeKeeps DEF LastFlush
<1>6. CASE PeriodicFlush
  BY <1>6, TakeKeeps DEF PeriodicFlush
<1>7. ASSUME NEW t \in {"stream", "flusher"}, WriteBatch(t) PROVE Memory'
  <2>1. PICK committed \in BOOLEAN : Settle(t, committed)
    BY <1>7 DEF WriteBatch
  <2>2. pc[t] = "write" /\ \E place : Goto(t, place)
    BY <1>7 DEF WriteBatch, Raise
  <2>3. \A u \in Tasks \ {t} : pc[u] = "write" => pc'[u] = "write"
    BY <2>2, OthersStay DEF Tasks
  <2>4. QED
    BY <2>1, <2>2, <2>3, SettleKeeps
<1>8. CASE Teardown
  <2>1. /\ pc["stream"] = "teardown"
        /\ \/ pc' = [pc EXCEPT !["flusher"] = "off", !["stream"] = "last"]
           \/ pc' = [pc EXCEPT !["flusher"] = "off", !["stream"] = "caught"]
    BY <1>8 DEF Teardown, StopFlusher, StopSleeper, StopWriter, AwaitFailed
  <2>2. \A u \in Tasks \ {"flusher"} : pc[u] = "write" => pc'[u] = "write"
    BY <1>1, <2>1 DEF Places, Tasks
  <2>3. CASE pc["flusher"] = "write"
    <3>1. PICK committed \in BOOLEAN : Settle("flusher", committed)
      BY <1>8, <2>3 DEF Teardown, StopFlusher, StopSleeper, StopWriter, AwaitFailed
    <3>2. QED
      BY <2>2, <2>3, <3>1, SettleKeeps
  <2>4. CASE pc["flusher"] # "write"
    <3>1. UNCHANGED memory
      BY <1>8, <2>4 DEF Teardown, StopFlusher, StopSleeper, StopWriter, AwaitFailed
    <3>2. QED
      BY <2>2, <2>4, <3>1, IdleMemory
  <2>5. QED
    BY <2>3, <2>4
<1>9. ASSUME NEW t \in {"stream", "flusher"}, LoadHealth(t) \/ CommitHealth(t) PROVE Memory'
  <2>1. /\ UNCHANGED memory /\ pc[t] \in {"load", "commit"}
        /\ \E place : Goto(t, place)
    BY <1>9 DEF LoadHealth, CommitHealth, Raise
  <2>2. \A u \in Tasks : pc[u] = "write" => pc'[u] = "write"
    BY <2>1, OthersStay DEF Tasks
  <2>3. QED
    BY <2>1, <2>2, IdleMemory
<1>10. CASE \/ Resolve \/ Connect \/ StreamEnds \/ ReportError \/ CommitError \/ Backoff \/ Pause
  <2>1. /\ UNCHANGED memory /\ pc["stream"] # "write"
        /\ \/ \E place : Goto("stream", place)
           \/ /\ pc["flusher"] = "off"
              /\ pc' = [pc EXCEPT !["stream"] = "connect", !["flusher"] = "sleep"]
    BY <1>10 DEF Resolve, Connect, StreamEnds, ReportError, CommitError, Backoff, Pause,
       Control, FlusherPaired
  <2>2. \A u \in Tasks : pc[u] = "write" => pc'[u] = "write"
    BY <1>1, <2>1, OthersStay DEF Places, Tasks
  <2>3. QED
    BY <2>1, <2>2, IdleMemory
<1>11. CASE PollerStep /\ ~Die("poller")
  <2>1. UNCHANGED memory /\ (pc' = pc \/ \E place : Goto("poller", place))
    BY <1>11 DEF PollerStep, RefreshBars, PollChain, ChainRejected, LeavePass, AskQuota,
       ReportPoll, CommitPoll, QuotaBackoff
  <2>2. \A u \in Tasks : pc[u] = "write" => pc'[u] = "write"
    BY <1>1, <2>1, OthersStay DEF Places, Tasks
  <2>3. QED
    BY <2>1, <2>2, IdleMemory
<1>12. QED
  BY <1>2, <1>3, <1>4, <1>5, <1>6, <1>7, <1>8, <1>9, <1>10, <1>11
     DEF Next, StreamStep, FlusherStep, PollerStep, Tasks

-----------------------------------------------------------------------------
(* What each session that has loaded the row may rely on.  The quota is    *)
(* the poller's alone; once the teardown has stopped the flusher nobody    *)
(* reports a connection; and nobody clears an error but a flush.           *)
Loaded == Rows \ {NoRow}

RowType == health \in Rows /\ copy \in [Tasks -> Rows]

CopiesOfRow == \A t \in Tasks : copy[t] # NoRow => health # NoRow
QuotaLoaded == copy["poller"] # NoRow => health.quota = copy["poller"].quota

ConnectionLoaded ==
  copy["stream"] # NoRow =>
    /\ closing /\ pc["stream"] = "commit" => (health.connected => copy["stream"].connected)
    /\ pc["stream"] = "caught_commit" =>
         /\ health.connected => copy["stream"].connected
         /\ copy["stream"].error = "stream" => health.error # "none"

RowInv == RowType /\ CopiesOfRow /\ QuotaLoaded /\ ConnectionLoaded /\ HealthIsTrue

LEMMA LoadedRows ==
  /\ \A r \in Loaded : /\ r = [connected |-> r.connected, error |-> r.error, quota |-> r.quota]
                      /\ r.connected \in BOOLEAN /\ r.error \in {"none", "stream", "quota"}
                      /\ r.quota \in {"low", "full"}
  /\ \A c \in BOOLEAN, e \in {"none", "stream", "quota"}, q \in {"low", "full"} :
       [connected |-> c, error |-> e, quota |-> q] \in Loaded
  /\ NoRow.quota = "absent" /\ NoRow.error = "absent" /\ NoRow.connected = FALSE
<1>1. NoRow.quota = "absent" /\ NoRow.error = "absent" /\ NoRow.connected = FALSE
  BY DEF NoRow
<1>2. \A r \in Loaded : r \in [connected : BOOLEAN, error : {"none", "stream", "quota"},
                              quota : {"low", "full"}]
  BY DEF Loaded, Rows
<1>3. \A c \in BOOLEAN, e \in {"none", "stream", "quota"}, q \in {"low", "full"} :
        [connected |-> c, error |-> e, quota |-> q] # NoRow
  BY DEF NoRow
<1>4. \A c \in BOOLEAN, e \in {"none", "stream", "quota"}, q \in {"low", "full"} :
        [connected |-> c, error |-> e, quota |-> q] \in Rows
  BY DEF Rows
<1>5. \A r \in Loaded : /\ r = [connected |-> r.connected, error |-> r.error, quota |-> r.quota]
                       /\ r.connected \in BOOLEAN /\ r.error \in {"none", "stream", "quota"}
                       /\ r.quota \in {"low", "full"}
  BY <1>2
<1>6. \A c \in BOOLEAN, e \in {"none", "stream", "quota"}, q \in {"low", "full"} :
        [connected |-> c, error |-> e, quota |-> q] \in Loaded
  BY <1>3, <1>4 DEF Loaded
<1>7. QED
  BY <1>1, <1>5, <1>6

(* A row with such cells is one.                                           *)
LEMMA CellsMakeRow ==
  ASSUME NEW c \in BOOLEAN, NEW e \in {"none", "stream", "quota"}, NEW q \in {"low", "full"}
  PROVE  [connected |-> c, error |-> e, quota |-> q] \in Loaded
  BY LoadedRows

(* Which columns a task sets.                                              *)
LEMMA FieldsOf ==
  ASSUME Control, NEW t \in Tasks
  PROVE  /\ t = "poller" /\ report = "rejected" =>
              Fields(t) = [error |-> "quota", quota |-> "full"]
         /\ t = "poller" /\ report # "rejected" => Fields(t) = [quota |-> report]
         /\ pc[t] = "caught_commit" =>
              Fields(t) = [connected |-> FALSE, error |-> "stream"] /\ t = "stream"
         /\ t = "stream" /\ closing => Fields(t) = [connected |-> FALSE]
         /\ t # "poller" /\ pc[t] # "caught_commit" /\ ~(t = "stream" /\ closing) =>
              Fields(t) = [connected |-> TRUE, error |-> "none"]
<1>1. pc["poller"] # "caught_commit" /\ pc["flusher"] # "caught_commit"
  BY DEF Control, ControlType, Places
<1>2. closing => pc["stream"] # "caught_commit"
  BY DEF Control, FlusherPaired
<1>3. CASE t = "poller" /\ report = "rejected"
  BY <1>1, <1>3 DEF Fields
<1>4. CASE t = "poller" /\ report # "rejected"
  BY <1>1, <1>4 DEF Fields
<1>5. CASE pc[t] = "caught_commit"
  BY <1>1, <1>2, <1>5 DEF Fields, Tasks
<1>6. CASE t = "stream" /\ closing
  BY <1>2, <1>6 DEF Fields
<1>7. CASE t # "poller" /\ pc[t] # "caught_commit" /\ ~(t = "stream" /\ closing)
  BY <1>7 DEF Fields
<1>8. QED
  BY <1>3, <1>4, <1>5, <1>6, <1>7

(* A write starts from the row as it is, or from a fresh one.              *)
Base(t) == IF copy[t] = NoRow THEN FreshRow ELSE health
Cell(t, c) ==
  IF c \in DOMAIN Fields(t) /\ (copy[t] = NoRow \/ Fields(t)[c] # copy[t][c])
  THEN Fields(t)[c] ELSE Base(t)[c]

LEMMA WrittenCells ==
  ASSUME RowType, CopiesOfRow, NEW t \in Tasks
  PROVE  /\ Base(t) \in Loaded
         /\ Written(t) = [connected |-> Cell(t, "connected"), error |-> Cell(t, "error"),
                          quota |-> Cell(t, "quota")]
<1>1. FreshRow \in Loaded
  BY LoadedRows DEF FreshRow
<1>2. Base(t) \in Loaded
  BY <1>1 DEF Base, RowType, CopiesOfRow, Loaded
<1>3. DOMAIN Base(t) = {"connected", "error", "quota"}
  <2>1. Base(t) = [connected |-> Base(t).connected, error |-> Base(t).error,
                   quota |-> Base(t).quota]
    BY <1>2, LoadedRows
  <2>2. QED
    BY <2>1
<1>4. Written(t) = [c \in DOMAIN Base(t) |-> Cell(t, c)]
  BY DEF Written, Cell, Base
<1>5. QED
  BY <1>2, <1>3, <1>4

LEMMA PollerWrites ==
  ASSUME RowType, CopiesOfRow, QuotaLoaded, Control
  PROVE  /\ Written("poller") \in Loaded
         /\ copy["poller"] # NoRow =>
              /\ Written("poller").connected = health.connected
              /\ Written("poller").error \in {"quota", health.error}
         /\ report = "rejected" => Written("poller").quota = "full"
<1> DEFINE w == Written("poller")
<1>1. "poller" \in Tasks
  BY DEF Tasks
<1>2. /\ Base("poller") \in Loaded
      /\ w = [connected |-> Cell("poller", "connected"), error |-> Cell("poller", "error"),
              quota |-> Cell("poller", "quota")]
  BY <1>1, WrittenCells
<1>3. /\ Base("poller").connected \in BOOLEAN /\ Base("poller").error \in {"none", "stream", "quota"}
      /\ Base("poller").quota \in {"low", "full"}
  BY <1>2, LoadedRows
<1>4. CASE report = "rejected"
  <2>1. Fields("poller") = [error |-> "quota", quota |-> "full"]
    BY <1>1, <1>4, FieldsOf
  <2>2. /\ Cell("poller", "connected") = Base("poller").connected
        /\ Cell("poller", "error") \in {"quota", Base("poller").error}
        /\ Cell("poller", "quota") = "full"
    <3>1. Cell("poller", "connected") = Base("poller").connected
      BY <2>1 DEF Cell
    <3>2. Cell("poller", "error") \in {"quota", Base("poller").error}
      BY <2>1 DEF Cell
    <3>3. Cell("poller", "quota") = "full"
      BY <2>1 DEF Cell, Base, QuotaLoaded
    <3>4. QED
      BY <3>1, <3>2, <3>3
  <2>3. w \in Loaded
    BY <1>2, <1>3, <2>2, CellsMakeRow
  <2>4. QED
    BY <1>2, <2>2, <2>3 DEF Base
<1>5. CASE report # "rejected"
  <2>1. Fields("poller") = [quota |-> report] /\ report \in {"low", "full"}
    BY <1>1, <1>5, FieldsOf DEF Control, ControlType
  <2>2. /\ Cell("poller", "connected") = Base("poller").connected
        /\ Cell("poller", "error") = Base("poller").error
        /\ Cell("poller", "quota") \in {"low", "full"}
    BY <1>3, <2>1 DEF Cell
  <2>3. w \in Loaded
    BY <1>2, <1>3, <2>2, CellsMakeRow
  <2>4. QED
    BY <1>2, <1>5, <2>2, <2>3 DEF Base
<1>6. QED
  BY <1>4, <1>5

LEMMA StreamerWrites ==
  ASSUME RowType, CopiesOfRow, ConnectionLoaded, Control,
         NEW t \in {"stream", "flusher"}, pc[t] \in {"commit", "caught_commit"}
  PROVE  /\ Written(t) \in Loaded
         /\ copy[t] # NoRow => Written(t).quota = health.quota
         /\ t = "stream" /\ (closing \/ pc[t] = "caught_commit") => ~Written(t).connected
         /\ t = "stream" /\ pc[t] = "caught_commit" => Written(t).error # "none"
<1> DEFINE w == Written(t)
<1>1. t \in Tasks
  BY DEF Tasks
<1>2. /\ Base(t) \in Loaded
      /\ w = [connected |-> Cell(t, "connected"), error |-> Cell(t, "error"),
              quota |-> Cell(t, "quota")]
  BY <1>1, WrittenCells
<1>3. /\ Base(t).connected \in BOOLEAN /\ Base(t).error \in {"none", "stream", "quota"}
      /\ Base(t).quota \in {"low", "full"}
  BY <1>2, LoadedRows
<1>4. CASE pc[t] = "caught_commit"
  <2>1. Fields(t) = [connected |-> FALSE, error |-> "stream"] /\ t = "stream"
    BY <1>1, <1>4, FieldsOf
  <2>2. Cell(t, "quota") = Base(t).quota
    BY <2>1 DEF Cell
  <2>3. ~Cell(t, "connected") /\ Cell(t, "connected") \in BOOLEAN
    <3>1. "connected" \in DOMAIN Fields(t) /\ Fields(t)["connected"] = FALSE
      BY <2>1
    <3>2. \/ Cell(t, "connected") = FALSE
          \/ /\ copy[t] # NoRow /\ copy[t]["connected"] = FALSE
             /\ Cell(t, "connected") = health["connected"]
      BY <3>1, Zenon DEF Cell, Base
    <3>3. copy[t] # NoRow => (health["connected"] => copy[t]["connected"])
      BY <1>4, <2>1 DEF ConnectionLoaded
    <3>4. copy[t] # NoRow => health["connected"] \in BOOLEAN
      BY <1>3 DEF Base
    <3>5. QED
      BY <3>2, <3>3, <3>4, Zenon
  <2>4. Cell(t, "error") \in {"stream", "quota"}
    BY <1>3, <1>4, <2>1 DEF Cell, Base, ConnectionLoaded
  <2>5. w \in Loaded
    BY <1>2, <1>3, <2>2, <2>3, <2>4, CellsMakeRow
  <2>6. QED
    BY <1>2, <2>2, <2>3, <2>4, <2>5 DEF Base
<1>5. CASE pc[t] = "commit" /\ t = "stream" /\ closing
  <2>1. Fields(t) = [connected |-> FALSE]
    BY <1>1, <1>5, FieldsOf
  <2>2. Cell(t, "quota") = Base(t).quota /\ Cell(t, "error") = Base(t).error
    BY <2>1 DEF Cell
  <2>3. ~Cell(t, "connected") /\ Cell(t, "connected") \in BOOLEAN
    <3>1. "connected" \in DOMAIN Fields(t) /\ Fields(t)["connected"] = FALSE
      BY <2>1
    <3>2. \/ Cell(t, "connected") = FALSE
          \/ /\ copy[t] # NoRow /\ copy[t]["connected"] = FALSE
             /\ Cell(t, "connected") = health["connected"]
      BY <3>1, Zenon DEF Cell, Base
    <3>3. copy[t] # NoRow => (health["connected"] => copy[t]["connected"])
      BY <1>5 DEF ConnectionLoaded
    <3>4. copy[t] # NoRow => health["connected"] \in BOOLEAN
      BY <1>3 DEF Base
    <3>5. QED
      BY <3>2, <3>3, <3>4, Zenon
  <2>4. w \in Loaded
    BY <1>2, <1>3, <2>2, <2>3, CellsMakeRow
  <2>5. QED
    BY <1>2, <1>5, <2>2, <2>3, <2>4 DEF Base
<1>6. CASE pc[t] = "commit" /\ ~(t = "stream" /\ closing)
  <2>1. Fields(t) = [connected |-> TRUE, error |-> "none"]
    BY <1>1, <1>6, FieldsOf DEF Tasks
  <2>2. Cell(t, "quota") = Base(t).quota
    BY <2>1 DEF Cell
  <2>3. Cell(t, "connected") \in BOOLEAN
    <3>1. Fields(t)["connected"] = TRUE
      BY <2>1
    <3>2. Cell(t, "connected") \in {TRUE, Base(t)["connected"]}
      BY <3>1, Zenon DEF Cell
    <3>3. Base(t)["connected"] \in BOOLEAN
      BY <1>3
    <3>4. QED
      BY <3>2, <3>3, Zenon
  <2>4. Cell(t, "error") \in {"none", "stream", "quota"}
    BY <1>3, <2>1 DEF Cell
  <2>5. w \in Loaded
    BY <1>2, <1>3, <2>2, <2>3, <2>4, CellsMakeRow
  <2>6. QED
    BY <1>2, <1>6, <2>2, <2>5 DEF Base
<1>7. QED
  BY <1>4, <1>5, <1>6

(* Nobody comes to a place that says something of the row.                 *)
NoArrival ==
  /\ closing' /\ pc'["stream"] = "commit" => closing /\ pc["stream"] = "commit"
  /\ pc'["stream"] \in {"caught_commit", "pause", "backoff"} => pc'["stream"] = pc["stream"]
  /\ pc'["poller"] = "backoff" => pc["poller"] = "backoff"

LEMMA InitRow == Init => RowInv
<1> SUFFICES ASSUME Init PROVE RowInv
  OBVIOUS
<1>1. health = NoRow /\ copy = [t \in Tasks |-> NoRow] /\ pc["stream"] = "resolve"
      /\ pc["poller"] = "start" /\ "stream" \in Tasks /\ "poller" \in Tasks
  BY DEF Init, Tasks
<1>2. NoRow \in Rows
  BY DEF Rows
<1>3. RowType /\ CopiesOfRow /\ QuotaLoaded /\ ConnectionLoaded
  BY <1>1, <1>2 DEF RowType, CopiesOfRow, QuotaLoaded, ConnectionLoaded
<1>4. HealthIsTrue
  BY <1>1 DEF HealthIsTrue, DownIsShown, QuotaShown
<1>5. QED
  BY <1>3, <1>4 DEF RowInv

LEMMA IdleRow ==
  ASSUME RowInv, UNCHANGED row, NoArrival
  PROVE  RowInv'
<1>1. UNCHANGED <<health, copy>>
  BY DEF row
<1>2. RowType' /\ CopiesOfRow' /\ QuotaLoaded'
  BY <1>1 DEF RowInv, RowType, CopiesOfRow, QuotaLoaded
<1>3. ConnectionLoaded'
  BY <1>1 DEF RowInv, ConnectionLoaded, NoArrival
<1>4. HealthIsTrue'
  BY <1>1 DEF RowInv, HealthIsTrue, DownIsShown, QuotaShown, NoArrival
<1>5. QED
  BY <1>2, <1>3, <1>4 DEF RowInv

(* A session loads the row.                                                *)
LEMMA LoadKeeps ==
  ASSUME RowInv, NEW t \in Tasks, LoadRow(t),
         t # "stream" => NoArrival,
         /\ pc'["stream"] \in {"pause", "backoff"} => pc'["stream"] = pc["stream"]
         /\ pc'["poller"] = "backoff" => pc["poller"] = "backoff"
  PROVE  RowInv'
<1>1. health' = health /\ copy' = [copy EXCEPT ![t] = health] /\ health \in Rows
      /\ copy \in [Tasks -> Rows]
  BY DEF LoadRow, RowInv, RowType
<1>2. \A u \in Tasks : copy'[u] = IF u = t THEN health ELSE copy[u]
  BY <1>1
<1>3. "stream" \in Tasks /\ "poller" \in Tasks
  BY DEF Tasks
<1>4. RowType' /\ CopiesOfRow' /\ QuotaLoaded'
  BY <1>1, <1>2, <1>3 DEF RowInv, RowType, CopiesOfRow, QuotaLoaded
<1>5. ConnectionLoaded'
  <2>1. CASE t = "stream"
    BY <1>1, <1>2, <1>3, <2>1 DEF ConnectionLoaded
  <2>2. CASE t # "stream"
    BY <1>1, <1>2, <1>3, <2>2 DEF RowInv, ConnectionLoaded, NoArrival
  <2>3. QED
    BY <2>1, <2>2
<1>6. HealthIsTrue'
  BY <1>1 DEF RowInv, HealthIsTrue, DownIsShown, QuotaShown
<1>7. QED
  BY <1>4, <1>5, <1>6 DEF RowInv

(* A session of the poller ends.                                           *)
LEMMA PollerForgets ==
  ASSUME RowInv, Control, Forget("poller"),
         health' = health \/ (CanWrite("poller") /\ health' = Written("poller")),
         pc'["stream"] = pc["stream"], closing' = closing,
         pc'["poller"] = "backoff" => report = "rejected" /\ health' = Written("poller")
  PROVE  RowInv'
<1>1. /\ copy' = [copy EXCEPT !["poller"] = NoRow] /\ health \in Rows /\ copy \in [Tasks -> Rows]
      /\ NoRow \in Rows
  BY DEF Forget, RowInv, RowType, Rows
<1>2. \A u \in Tasks : copy'[u] = IF u = "poller" THEN NoRow ELSE copy[u]
  BY <1>1
<1>3. "stream" \in Tasks /\ "poller" \in Tasks
  BY DEF Tasks
<1>4. /\ Written("poller") \in Loaded
      /\ copy["poller"] # NoRow => /\ Written("poller").connected = health.connected
                                   /\ Written("poller").error \in {"quota", health.error}
      /\ report = "rejected" => Written("poller").quota = "full"
  BY PollerWrites DEF RowInv
<1>5. health' \in Rows /\ (health # NoRow => health' # NoRow)
  BY <1>1, <1>4 DEF Loaded
<1>6. health # NoRow => /\ health'.connected = health.connected
                        /\ health.error # "none" => health'.error # "none"
  BY <1>4 DEF CanWrite
<1>7. RowType' /\ CopiesOfRow' /\ QuotaLoaded'
  BY <1>1, <1>2, <1>3, <1>5 DEF RowInv, RowType, CopiesOfRow, QuotaLoaded
<1>8. ConnectionLoaded'
  BY <1>2, <1>3, <1>6 DEF RowInv, ConnectionLoaded, CopiesOfRow
<1>9. HealthIsTrue'
  BY <1>4, <1>5, <1>6 DEF RowInv, HealthIsTrue, DownIsShown, QuotaShown
<1>10. QED
  BY <1>7, <1>8, <1>9 DEF RowInv

(* A session of the stream or the flusher ends.                            *)
LEMMA StreamerForgets ==
  ASSUME RowInv, Control, NEW t \in {"stream", "flusher"}, Forget(t),
         \/ health' = health
         \/ /\ pc[t] \in {"commit", "caught_commit"} /\ CanWrite(t) /\ health' = Written(t),
         pc'["poller"] = pc["poller"],
         pc'["stream"] \in {"pause", "backoff"} =>
           /\ t = "stream" /\ health' = Written(t) /\ pc[t] \in {"commit", "caught_commit"}
           /\ closing \/ pc[t] = "caught_commit"
           /\ pc'["stream"] = "backoff" => pc[t] = "caught_commit",
         t = "flusher" => /\ ~(closing' /\ pc'["stream"] = "commit")
                          /\ pc'["stream"] # "caught_commit"
  PROVE  RowInv'
<1>1. /\ copy' = [copy EXCEPT ![t] = NoRow] /\ health \in Rows /\ copy \in [Tasks -> Rows]
      /\ NoRow \in Rows
  BY DEF Forget, RowInv, RowType, Rows
<1>2. \A u \in Tasks : copy'[u] = IF u = t THEN NoRow ELSE copy[u]
  BY <1>1
<1>3. "stream" \in Tasks /\ "poller" \in Tasks /\ t \in Tasks /\ t # "poller"
  BY DEF Tasks
<1>4. pc[t] \in {"commit", "caught_commit"} =>
        /\ Written(t) \in Loaded
        /\ copy[t] # NoRow => Written(t).quota = health.quota
        /\ t = "stream" /\ (closing \/ pc[t] = "caught_commit") => ~Written(t).connected
        /\ t = "stream" /\ pc[t] = "caught_commit" => Written(t).error # "none"
  BY StreamerWrites DEF RowInv
<1>5. health' \in Rows /\ (health # NoRow => health' # NoRow)
  BY <1>1, <1>4 DEF Loaded
<1>6. health # NoRow => health'.quota = health.quota
  BY <1>4 DEF CanWrite
<1>7. RowType' /\ CopiesOfRow' /\ QuotaLoaded'
  BY <1>1, <1>2, <1>3, <1>5, <1>6 DEF RowInv, RowType, CopiesOfRow, QuotaLoaded
<1>8. ConnectionLoaded'
  <2>1. CASE t = "stream"
    BY <1>2, <1>3, <2>1 DEF ConnectionLoaded
  <2>2. CASE t = "flusher"
    BY <2>2 DEF ConnectionLoaded
  <2>3. QED
    BY <2>1, <2>2
<1>9. QuotaShown'
  <2>1. pc'["poller"] = "backoff" => health.quota = "full" /\ health # NoRow
    BY LoadedRows DEF RowInv, HealthIsTrue, QuotaShown
  <2>2. QED
    BY <1>6, <2>1 DEF QuotaShown
<1>10. DownIsShown'
  <2>1. pc'["stream"] \in {"pause", "backoff"} => health' \in Loaded /\ ~health'.connected
    BY <1>4
  <2>2. pc'["stream"] = "backoff" => health'.error # "none"
    BY <1>4
  <2>3. QED
    BY <2>1, <2>2 DEF DownIsShown, Loaded
<1>11. QED
  BY <1>7, <1>8, <1>9, <1>10 DEF RowInv, HealthIsTrue

LEMMA RestartRow == ASSUME RowInv, Control, Restart PROVE RowInv'
<1>1. /\ health' = health /\ copy' = [t \in Tasks |-> NoRow] /\ health \in Rows /\ NoRow \in Rows
  BY DEF Restart, RowInv, RowType, Rows
<1>2. pc'["stream"] = "resolve" /\ pc'["poller"] = "start"
  BY DEF Restart, Control, ControlType, Places
<1>3. "stream" \in Tasks /\ "poller" \in Tasks
  BY DEF Tasks
<1>4. RowType' /\ CopiesOfRow' /\ QuotaLoaded' /\ ConnectionLoaded'
  BY <1>1, <1>3 DEF RowType, CopiesOfRow, QuotaLoaded, ConnectionLoaded
<1>5. HealthIsTrue'
  BY <1>2 DEF HealthIsTrue, DownIsShown, QuotaShown
<1>6. QED
  BY <1>4, <1>5 DEF RowInv

(* Where a task is once it has gone somewhere.                             *)
LEMMA Arrives ==
  ASSUME Control, NEW t \in Tasks, NEW place, Goto(t, place)
  PROVE  pc'[t] = place
  BY DEF Goto, Control, ControlType, Places, Tasks

LEMMA StepRow == RowInv /\ Control /\ [Next]_vars => RowInv'
<1> SUFFICES ASSUME RowInv, Control, [Next]_vars PROVE RowInv'
  OBVIOUS
<1> "stream" \in Tasks /\ "flusher" \in Tasks /\ "poller" \in Tasks
  BY DEF Tasks
<1>1. pc \in Places /\ closing \in BOOLEAN
  BY DEF Control, ControlType
<1>2. CASE UNCHANGED vars
  BY <1>2, IdleRow DEF vars, retry, NoArrival
<1>3. CASE Restart \/ \E t \in Tasks : Die(t)
  BY <1>3, RestartRow DEF Die
<1>4. CASE Resolve \/ Connect \/ StreamEnds \/ LastFlush \/ Backoff \/ Pause
  <2>1. /\ UNCHANGED row /\ pc'["poller"] = pc["poller"] /\ closing' = closing
        /\ pc'["stream"] \notin {"commit", "caught_commit", "pause", "backoff"}
    BY <1>1, <1>4 DEF Resolve, Connect, StreamEnds, LastFlush, Backoff, Pause, Take, Goto,
       retry, Places
  <2>2. QED
    BY <2>1, IdleRow DEF NoArrival
<1>5. CASE Tick \/ PeriodicFlush
  <2>1. /\ UNCHANGED row /\ closing' = closing
        /\ \/ pc' = pc
           \/ \E t \in {"stream", "flusher"} : \E place \in {"load", "write"} : Goto(t, place)
    BY <1>5 DEF Tick, PeriodicFlush, Take, retry
  <2>2. NoArrival
    BY <1>1, <2>1 DEF Goto, NoArrival, Places
  <2>3. QED
    BY <2>1, <2>2, IdleRow
<1>6. ASSUME NEW t \in {"stream", "flusher"}, WriteBatch(t) PROVE RowInv'
  <2>1. /\ UNCHANGED row
        /\ \E place \in {"load", "failed", "caught", "teardown"} : Goto(t, place)
    BY <1>6 DEF WriteBatch, Raise
  <2>2. NoArrival
    <3>1. CASE t = "stream"
      BY <1>1, <2>1, <3>1 DEF Goto, NoArrival, Places
    <3>2. CASE t = "flusher"
      <4>1. closing' = closing
        BY <1>6, <3>2 DEF WriteBatch, Raise, retry
      <4>2. QED
        BY <1>1, <2>1, <3>2, <4>1 DEF Goto, NoArrival, Places
    <3>3. QED
      BY <3>1, <3>2
  <2>3. QED
    BY <2>1, <2>2, IdleRow
<1>7. ASSUME NEW t \in {"stream", "flusher"}, LoadHealth(t) PROVE RowInv'
  <2>1. CASE LoadRow(t) /\ Goto(t, "commit") /\ UNCHANGED retry
    <3>1. pc'[t] = "commit" /\ \A u \in Tasks \ {t} : pc'[u] = pc[u]
      BY <2>1, Arrives, OthersStay DEF Tasks
    <3>2. t # "stream" => NoArrival
      BY <2>1, <3>1 DEF NoArrival, retry, Tasks
    <3>3. QED
      BY <2>1, <3>1, <3>2, LoadKeeps DEF Tasks
  <2>2. CASE Raise(t) /\ UNCHANGED row
    <3>1. CASE t = "stream"
      <4>1. pc'["stream"] \in {"caught", "teardown"} /\ pc'["poller"] = pc["poller"]
        BY <1>1, <2>2, <3>1 DEF Raise, Goto, Places
      <4>2. QED
        BY <2>2, <4>1, IdleRow DEF NoArrival
    <3>2. CASE t = "flusher"
      <4>1. pc'["stream"] = pc["stream"] /\ pc'["poller"] = pc["poller"] /\ closing' = closing
        BY <1>1, <2>2, <3>2 DEF Raise, Goto, Places
      <4>2. QED
        BY <2>2, <4>1, IdleRow DEF NoArrival
    <3>3. QED
      BY <3>1, <3>2
  <2>3. QED
    BY <1>7, <2>1, <2>2 DEF LoadHealth
<1>8. ASSUME NEW t \in {"stream", "flusher"}, CommitHealth(t) PROVE RowInv'
  <2>1. /\ pc[t] = "commit" /\ Forget(t)
        /\ health' = health \/ (CanWrite(t) /\ health' = Written(t))
    BY <1>8 DEF CommitHealth
  <2>2. CASE t = "stream"
    <3>1. /\ pc'["poller"] = pc["poller"]
          /\ pc'["stream"] \in {"streaming", "caught", "teardown", "pause"}
          /\ pc'["stream"] = "pause" => closing /\ health' = Written(t)
      <4>1. CASE Raise(t)
        BY <1>1, <2>2, <4>1 DEF Raise, Goto, Places
      <4>2. CASE /\ health' = Written(t)
                 /\ Goto(t, IF ~closing THEN "streaming"
                            ELSE IF ended = "clean" THEN "pause" ELSE "caught")
        BY <1>1, <2>2, <4>2 DEF Goto, Places
      <4>3. QED
        BY <1>8, <2>2, <4>1, <4>2 DEF CommitHealth
    <3>2. QED
      BY <2>1, <2>2, <3>1, StreamerForgets
  <2>3. CASE t = "flusher"
    <3>1. \E place : Goto("flusher", place)
      BY <1>8, <2>3 DEF CommitHealth, Raise
    <3>2. pc'["stream"] = pc["stream"] /\ pc'["poller"] = pc["poller"] /\ closing' = closing
      BY <1>1, <1>8, <2>3, <3>1, OthersStay DEF CommitHealth, Raise, retry, Tasks
    <3>3. /\ pc["stream"] \notin {"caught_commit", "pause", "backoff"} /\ ~closing
      BY <2>1, <2>3 DEF Control, FlusherPaired
    <3>4. QED
      BY <2>1, <2>3, <3>2, <3>3, StreamerForgets
  <2>4. QED
    BY <2>2, <2>3
<1>9. CASE Teardown
  <2>1. /\ pc'["poller"] = pc["poller"] /\ pc'["stream"] \in {"last", "caught"}
    BY <1>1, <1>9 DEF Teardown, StopFlusher, StopSleeper, StopWriter, AwaitFailed, Places
  <2>2. CASE StopWriter
    <3>1. Forget("flusher") /\ \/ health' = health
                               \/ /\ pc["flusher"] = "commit" /\ CanWrite("flusher")
                                  /\ health' = Written("flusher")
      BY <2>2 DEF StopWriter
    <3>2. QED
      BY <2>1, <3>1, StreamerForgets
  <2>3. CASE ~StopWriter
    <3>1. UNCHANGED row
      BY <1>9, <2>3 DEF Teardown, StopFlusher, StopSleeper, AwaitFailed
    <3>2. QED
      BY <2>1, <3>1, IdleRow DEF NoArrival
  <2>4. QED
    BY <2>2, <2>3
<1>10. CASE ReportError
  <2>1. LoadRow("stream") /\ pc'["stream"] = "caught_commit" /\ pc'["poller"] = pc["poller"]
    BY <1>1, <1>10 DEF ReportError, Goto, Places
  <2>2. QED
    BY <2>1, LoadKeeps
<1>11. CASE CommitError
  <2>1. /\ pc["stream"] = "caught_commit" /\ CanWrite("stream") /\ health' = Written("stream")
        /\ Forget("stream") /\ pc'["stream"] = "backoff" /\ pc'["poller"] = pc["poller"]
    BY <1>1, <1>11 DEF CommitError, Goto, Places
  <2>2. QED
    BY <2>1, StreamerForgets
<1>12. CASE RefreshBars \/ PollChain \/ ChainRejected \/ AskQuota \/ QuotaBackoff
  <2>1. /\ UNCHANGED row /\ UNCHANGED retry
        /\ pc' = pc \/ \E place \in {"chains", "report", "start"} : Goto("poller", place)
    BY <1>12 DEF RefreshBars, PollChain, ChainRejected, LeavePass, AskQuota, QuotaBackoff
  <2>2. NoArrival
    BY <1>1, <2>1 DEF Goto, NoArrival, Places, retry
  <2>3. QED
    BY <2>1, <2>2, IdleRow
<1>13. CASE ReportPoll
  <2>1. /\ pc'["stream"] = pc["stream"] /\ closing' = closing /\ pc'["poller"] # "backoff"
        /\ LoadRow("poller") \/ UNCHANGED row
    BY <1>1, <1>13 DEF ReportPoll, Goto, Places, retry
  <2>2. NoArrival
    BY <2>1 DEF NoArrival
  <2>3. QED
    BY <2>1, <2>2, IdleRow, LoadKeeps
<1>14. CASE CommitPoll
  <2>1. /\ Forget("poller") /\ closing' = closing /\ pc'["stream"] = pc["stream"]
        /\ health' = health \/ (CanWrite("poller") /\ health' = Written("poller"))
        /\ pc'["poller"] = "backoff" => report = "rejected" /\ health' = Written("poller")
    <3>1. \/ /\ CanWrite("poller") /\ health' = Written("poller")
             /\ Goto("poller", IF report = "rejected" THEN "backoff" ELSE "start")
          \/ /\ Goto("poller", "start")
             /\ health' = health \/ (CanWrite("poller") /\ health' = Written("poller"))
      BY <1>14 DEF CommitPoll
    <3>2. Forget("poller") /\ UNCHANGED retry
      BY <1>14 DEF CommitPoll
    <3>3. QED
      BY <1>1, <3>1, <3>2 DEF Goto, Places, retry
  <2>2. QED
    BY <2>1, PollerForgets
<1>15. QED
  BY <1>2, <1>3, <1>4, <1>5, <1>6, <1>7, <1>8, <1>9, <1>10, <1>11, <1>12, <1>13, <1>14
     DEF Next, StreamStep, FlusherStep, PollerStep

-----------------------------------------------------------------------------
IInv == Control /\ Memory /\ RowInv

LEMMA Inductive == Spec => []IInv
<1>1. Init => IInv
  BY InitControl, InitMemory, InitRow DEF IInv
<1>2. IInv /\ [Next]_vars => IInv'
  BY StepControl, StepMemory, StepRow DEF IInv
<1>3. QED
  BY <1>1, <1>2, PTL DEF Spec

(* Places, rows, waits and ticks have their types.                         *)
THEOREM TypeCorrect == Spec => []TypeOK
<1>1. IInv => TypeOK
  BY DEF IInv, Control, ControlType, Memory, MemoryType, RowInv, RowType, TypeOK
<1>2. QED
  BY <1>1, Inductive, PTL

(* Every tick received is in the buffer, in one batch, stored or lost, for *)
(* any size of the buffer, whatever fails and however often it restarts.   *)
THEOREM TicksAccountedFor == Spec => []TicksOnce
<1>1. IInv => TicksOnce
  BY DEF IInv, Memory
<1>2. QED
  BY <1>1, Inductive, PTL

(* While the stream or the poller waits, the row they share says so.       *)
THEOREM HealthIsTold == Spec => []HealthIsTrue
<1>1. IInv => HealthIsTrue
  BY DEF IInv, RowInv
<1>2. QED
  BY <1>1, Inductive, PTL

(* No wait beyond the normal cap is slept but next to a refusal, for any   *)
(* two caps.                                                               *)
THEOREM LongWaitsAreEarned == Spec => []LongWaitNeedsRefusal
<1>1. IInv => LongWaitNeedsRefusal
  BY DEF IInv, Control, WaitsEarned, LongWaitNeedsRefusal
<1>2. QED
  BY <1>1, Inductive, PTL

(* An exhausted quota costs two calls a pass, for any number of names.     *)
THEOREM RejectionsAreFew == Spec => []RejectionsFew
<1>1. IInv => RejectionsFew
  BY DEF IInv, Control, RejectionsCounted, RejectionsFew
<1>2. QED
  BY <1>1, Inductive, PTL
=============================================================================

------------------------- MODULE OrchestratorProofs -------------------------
(***************************************************************************)
(* Theorems about Orchestrator, for every value of its constants.          *)
(***************************************************************************)
EXTENDS OrchestratorInvariant, OrchestratorRefinement, SequenceTheorems, FiniteSetTheorems, TLAPS

(***************************************************************************)
(* Lemmas about the operators on lists.                                    *)
(***************************************************************************)

\* The normal forms of a list are lists of its own payloads.
LEMMA NormalFormType ==
  ASSUME NEW s \in Seq(Messages), NEW t \in NormalForms(s)
  PROVE  /\ t \in Seq(Messages)
         /\ Elements(t) = Kept(s)
         /\ Kept(s) \subseteq Elements(s)
<1>1. Kept(s) \subseteq Elements(s)
  BY DEF Kept, Elements
<1>2. Elements(s) \subseteq Messages
  BY DEF Elements
<1>3. PICK n \in 0..Len(s) : t \in [1..n -> Kept(s)]
  BY DEF NormalForms
<1>4. n \in Nat
  BY Zenon, <1>3, LenProperties, SMT
<1>5. t \in Seq(Messages)
  BY <1>1, <1>2, <1>3, <1>4
<1> QED
  BY <1>1, <1>5 DEF NormalForms

\* Normalising a second time keeps every payload.
LEMMA KeptOfNormalForm ==
  ASSUME NEW s \in Seq(Messages), NEW t \in NormalForms(s)
  PROVE  Kept(t) = Elements(t)
<1> USE WindowOpsAssumption
<1>1. t \in Seq(Messages) /\ Elements(t) = Kept(s)
  BY NormalFormType
<1>2. \A i, j \in DOMAIN t : i < j => Before(t[i], t[j])
  BY DEF NormalForms
<1>3. ASSUME NEW a \in Kept(s), NEW b \in Kept(s), TgId[a] = TgId[b]
      PROVE  At[a] = At[b]
  <2>1. PICK i \in DOMAIN s :
          /\ a = s[i]
          /\ \A j \in DOMAIN s : TgId[s[j]] = TgId[s[i]] => Precedes(s, i, j)
    BY DEF Kept
  <2>2. PICK k \in DOMAIN s :
          /\ b = s[k]
          /\ \A j \in DOMAIN s : TgId[s[j]] = TgId[s[k]] => Precedes(s, k, j)
    BY DEF Kept
  <2>3. Precedes(s, i, k) /\ Precedes(s, k, i)
    BY <1>3, <2>1, <2>2
  <2>4. s[i] \in Messages /\ s[k] \in Messages
    BY <2>1, <2>2
  <2> QED
    BY <2>1, <2>2, <2>3, <2>4 DEF Precedes
<1>4. ASSUME NEW i \in DOMAIN t, NEW j \in DOMAIN t, TgId[t[i]] = TgId[t[j]]
      PROVE  i = j
  <2>1. t[i] \in Kept(s) /\ t[j] \in Kept(s)
    BY <1>1 DEF Elements
  <2>2. At[t[i]] = At[t[j]]
    BY <1>3, <1>4, <2>1
  <2>3. t[i] \in Messages /\ t[j] \in Messages /\ i \in Nat /\ j \in Nat
    BY <1>1
  <2>4. ~ Before(t[i], t[j]) /\ ~ Before(t[j], t[i])
    BY <1>4, <2>2, <2>3 DEF Before
  <2> QED
    BY <1>2, <2>3, <2>4
<1>5. ASSUME NEW i \in DOMAIN t
      PROVE  \A j \in DOMAIN t : TgId[t[j]] = TgId[t[i]] => Precedes(t, i, j)
  <2> SUFFICES ASSUME NEW j \in DOMAIN t, TgId[t[j]] = TgId[t[i]]
               PROVE  Precedes(t, i, j)
    OBVIOUS
  <2>1. i = j /\ i \in Nat
    BY <1>1, <1>4
  <2> QED
    BY <1>1, <2>1 DEF Precedes
<1> QED
  BY <1>5 DEF Kept, Elements

\* What one read of a stream delivers is a list of its entries.
LEMMA NextEntriesType ==
  ASSUME NEW S, NEW s \in Seq(S), NEW cursor \in Nat
  PROVE  NextEntries(s, cursor) \in Seq(S) /\ Len(NextEntries(s, cursor)) \in Nat
<1> DEFINE last == IF Len(s) < cursor + BatchSize THEN Len(s) ELSE cursor + BatchSize
<1>1. last \in Int /\ cursor + 1 \in Int
  BY OrchestratorAssumption, LenProperties
<1>2. \A i \in (cursor + 1)..last : s[i] \in S
  BY OrchestratorAssumption, LenProperties
<1>3. SubSeq(s, cursor + 1, last) \in Seq(S)
  <2> HIDE DEF last
  <2> QED  BY <1>1, <1>2, SubSeqProperties
<1> QED
  BY <1>3, LenProperties DEF NextEntries

-----------------------------------------------------------------------------
(***************************************************************************)
(* Type correctness.  TypeOK is not inductive alone: that a window has a   *)
(* chat when it is emitted depends on where the handler stands (Control).  *)
(***************************************************************************)

\* TypeInv, split into what the processes share and what belongs to a worker.
SharedOK ==
  /\ stream \in Seq(Messages)
  /\ requests \in Seq(Commands)
  /\ grouped \in BOOLEAN
  /\ msgCursor \in Nat
  /\ cmdCursor \in Nat
  /\ pending \subseteq Messages \cup Commands
  /\ acked \subseteq Messages \cup Commands
  /\ processed \subseteq Messages \cup Commands
  /\ window \in [Chats -> Seq(Messages)]
  /\ preprocessed \in Seq(Analyses)
  /\ completed \in Seq(Nat)
  /\ signals \in Seq(Nat)
  /\ commands \in Seq(Analyses)
  /\ applied \in Nat
  /\ rows \subseteq Analyses
  /\ nextWin \in Nat \ {0}
  /\ todo \in [Workers -> Seq(Messages \cup Commands)]
  /\ \A b \in Backfills : todo[b] \in Seq(Messages)
  /\ seenChats \in [Workers -> Seq(Chats)]
  /\ faults \in [FaultKinds -> Nat]

Whys == {"rollover", "full", "residual", "reprocess", "missing", "none"}

LocalOK ==
  /\ pc \in [Workers -> PcStates]
  /\ item \in [Workers -> Messages \cup Commands \cup {None}]
  /\ why \in [Workers -> Whys]
  /\ dest \in [Workers -> Chats \cup {None}]
  /\ held \in [Workers -> Seq(Messages)]
  /\ win \in [Workers -> Nat]
  /\ sigs \in [Workers -> 0..MaxSignals]
  /\ \A p \in Workers : Control(p)

LEMMA TypeInvParts == TypeInv <=> SharedOK /\ LocalOK
  BY DEF TypeInv, TypeOK, SharedOK, LocalOK, Whys

LEMMA LiveIsWorker == Live \in Workers /\ \A b \in Backfills : b \in Workers
  BY DEF Workers

\* A handler that ends leaves its worker without local state.
LEMMA ReturnLocal ==
  ASSUME LocalOK, NEW p \in Workers, Busy(p), Return(p)
  PROVE  LocalOK'
<1>1. /\ pc' \in [Workers -> PcStates]
      /\ item' \in [Workers -> Messages \cup Commands \cup {None}]
      /\ why' \in [Workers -> Whys]
      /\ dest' \in [Workers -> Chats \cup {None}]
      /\ held' \in [Workers -> Seq(Messages)]
      /\ win' \in [Workers -> Nat]
      /\ sigs' \in [Workers -> 0..MaxSignals]
  BY OrchestratorAssumption DEF LocalOK, Return, Forget, PcStates, Whys
<1>2. ASSUME NEW q \in Workers
      PROVE  Control(q)'
  BY OrchestratorAssumption DEF LocalOK, Return, Forget, Busy, Control, Analysing
<1> QED
  BY <1>1, <1>2 DEF LocalOK

LEMMA AfterFlushLocal ==
  ASSUME LocalOK, NEW p \in Workers, pc[p] \in {"flush", "delete"}, AfterFlush(p)
  PROVE  LocalOK'
<1>1. CASE why[p] = "rollover"
  <2>1. /\ pc' = [pc EXCEPT ![p] = "push"]
        /\ why' = [why EXCEPT ![p] = "none"]
        /\ held' = [held EXCEPT ![p] = <<>>]
        /\ win' = [win EXCEPT ![p] = 0]
        /\ item' = item /\ dest' = dest /\ sigs' = sigs
    BY <1>1 DEF AfterFlush
  <2>2. /\ pc' \in [Workers -> PcStates]
        /\ why' \in [Workers -> Whys]
        /\ held' \in [Workers -> Seq(Messages)]
        /\ win' \in [Workers -> Nat]
    BY <2>1 DEF LocalOK, PcStates, Whys
  <2>3. ASSUME NEW q \in Workers
        PROVE  Control(q)'
    BY <1>1, <2>1 DEF LocalOK, Control, Analysing
  <2> QED
    BY <2>1, <2>2, <2>3 DEF LocalOK
<1>2. CASE why[p] # "rollover"
  BY <1>2, ReturnLocal DEF AfterFlush, Busy
<1> QED
  BY <1>1, <1>2

\* Steps that touch no handler's local state.
LEMMA LocalFrame ==
  ASSUME LocalOK, UNCHANGED <<pc, item, analysis>>
  PROVE  LocalOK'
  BY DEF LocalOK, Control, Analysing, analysis

\* The environment and the consumer's loop.
LEMMA TypeEnvironment ==
  ASSUME SharedOK, LocalOK,
         \/ \E m \in Messages : Ingest(m)
         \/ \E c \in Commands : Request(c)
         \/ Project
         \/ \E c \in Chats : Expire(c)
         \/ UNCHANGED vars
  PROVE  SharedOK' /\ LocalOK'
<1> USE DEF input, group, output, projector, queue, analysis, vars
<1>1. LocalOK'
  <2>1. UNCHANGED <<pc, item, analysis>>
    BY DEF Ingest, Request, Project, Expire
  <2> QED
    BY <2>1, LocalFrame
<1>2. ASSUME NEW m \in Messages, Ingest(m)
      PROVE  SharedOK'
  BY <1>2 DEF SharedOK, Ingest
<1>3. ASSUME NEW c \in Commands, Request(c)
      PROVE  SharedOK'
  BY <1>3 DEF SharedOK, Request
<1>4. CASE Project
  <2>1. commands[applied + 1] \in Analyses
    BY <1>4 DEF SharedOK, Project
  <2>2. ASSUME NEW r \in rows, NEW list \in Seq(Messages)
        PROVE  [r EXCEPT !.msgs = list] \in Analyses
    BY DEF SharedOK, Analyses
  <2>3. commands[applied + 1].msgs \in Seq(Messages)
    BY <2>1 DEF Analyses
  <2>4. rows' \subseteq Analyses
    <3> DEFINE cmd == commands[applied + 1]
    <3>1. CASE rows' = rows
      BY <3>1 DEF SharedOK
    <3>2. CASE rows' = {IF r.win = cmd.win THEN [r EXCEPT !.msgs = cmd.msgs] ELSE r : r \in rows}
      <4> HIDE DEF cmd
      <4>1. ASSUME NEW r \in rows
            PROVE  (IF r.win = cmd.win THEN [r EXCEPT !.msgs = cmd.msgs] ELSE r) \in Analyses
        BY <2>2, <2>3 DEF SharedOK, cmd
      <4> QED
        BY <3>2, <4>1
    <3>3. CASE rows' = rows \cup {cmd}
      BY <2>1, <3>3 DEF SharedOK
    <3> QED
      BY <1>4, <3>1, <3>2, <3>3 DEF Project
  <2>5. applied' \in Nat
    BY <1>4 DEF SharedOK, Project
  <2> QED
    BY <1>1, <1>4, <2>4, <2>5 DEF SharedOK, Project
<1>5. ASSUME NEW c \in Chats, Expire(c)
      PROVE  SharedOK'
  <2>1. /\ window' = [window EXCEPT ![c] = <<>>]
        /\ faults' = [faults EXCEPT !["expiry"] = @ + 1]
    BY <1>5 DEF Expire, Strike
  <2>2. faults' \in [FaultKinds -> Nat] /\ window' \in [Chats -> Seq(Messages)]
    BY <2>1 DEF SharedOK, FaultKinds
  <2> QED
    BY <1>5, <2>2 DEF SharedOK, Expire
<1>6. CASE UNCHANGED vars
  <2>1. UNCHANGED <<input, group, processed, window, output, projector, nextWin, queue, faults>>
    BY <1>6
  <2> QED
    BY <1>1, <2>1 DEF SharedOK
<1> QED
  BY <1>1, <1>2, <1>3, <1>4, <1>5, <1>6

LEMMA TypeLoop ==
  ASSUME SharedOK, LocalOK, Start \/ Fetch \/ Take \/ Ack
  PROVE  SharedOK' /\ LocalOK'
<1> USE OrchestratorAssumption, LiveIsWorker
<1> USE DEF input, group, output, projector, queue, analysis
<1>1. CASE Start
  <2>1. msgCursor' \in Nat /\ cmdCursor' \in Nat
    BY <1>1, LenProperties DEF SharedOK, Start
  <2>2. SharedOK'
    BY <1>1, <2>1 DEF SharedOK, Start
  <2>3. LocalOK'
    BY <1>1 DEF LocalOK, Start, Goto, PcStates, Control, Analysing
  <2> QED
    BY <2>2, <2>3
<1>2. CASE Fetch
  <2> DEFINE msgs == NextEntries(stream, msgCursor)
             cmds == NextEntries(requests, cmdCursor)
  <2>1. /\ msgs \in Seq(Messages) /\ Len(msgs) \in Nat
        /\ cmds \in Seq(Commands) /\ Len(cmds) \in Nat
    BY NextEntriesType DEF SharedOK
  <2>2. /\ msgCursor' = msgCursor + Len(msgs)
        /\ cmdCursor' = cmdCursor + Len(cmds)
        /\ todo' = [todo EXCEPT ![Live] = msgs \o cmds]
        /\ pending' = pending \cup Elements(msgs \o cmds)
        /\ UNCHANGED <<input, grouped, acked, processed, window, output, projector, nextWin,
                       pc, seenChats, item, analysis, faults>>
    BY <1>2 DEF Fetch
  <2> HIDE DEF msgs, cmds
  <2>3. msgs \o cmds \in Seq(Messages \cup Commands)
    BY <2>1, SeqMonotonic, ConcatProperties
  <2>4. msgCursor' \in Nat /\ cmdCursor' \in Nat
    BY <2>1, <2>2 DEF SharedOK
  <2>5. todo' \in [Workers -> Seq(Messages \cup Commands)]
    BY <2>2, <2>3 DEF SharedOK
  <2>6. pending' \subseteq Messages \cup Commands
    <3>1. Elements(msgs \o cmds) \subseteq Messages \cup Commands
      BY <2>3 DEF Elements
    <3> QED
      BY <2>2, <3>1 DEF SharedOK
  <2>7. SharedOK'
    BY <2>2, <2>4, <2>5, <2>6 DEF SharedOK
  <2> QED
    BY <2>2, <2>7, LocalFrame
<1>3. CASE Take
  <2>1. todo[Live] # <<>> /\ todo[Live] \in Seq(Messages \cup Commands)
    BY <1>3 DEF SharedOK, Take
  <2>2. /\ Head(todo[Live]) \in Messages \cup Commands
        /\ Tail(todo[Live]) \in Seq(Messages \cup Commands)
    BY <2>1, HeadTailProperties
  <2>3. SharedOK'
    BY <1>3, <2>2 DEF SharedOK, Take
  <2>4. LocalOK'
    BY <1>3, <2>2 DEF LocalOK, Take, Goto, PcStates, Control, Analysing
  <2> QED
    BY <2>3, <2>4
<1>4. CASE Ack
  <2>1. item[Live] \in Messages \cup Commands
    BY <1>4 DEF LocalOK, Ack, Goto, Control, Analysing
  <2>2. SharedOK'
    BY <1>4, <2>1 DEF SharedOK, Ack
  <2>3. LocalOK'
    BY <1>4 DEF LocalOK, Ack, Goto, PcStates, Control, Analysing
  <2> QED
    BY <2>2, <2>3
<1> QED
  BY <1>1, <1>2, <1>3, <1>4

\* The steps of _handle_message.
LEMMA TypeHandle ==
  ASSUME SharedOK, LocalOK, NEW p \in Workers, HandleMessage(p)
  PROVE  SharedOK' /\ LocalOK'
<1> USE OrchestratorAssumption
<1> USE DEF input, group, output, projector, queue, analysis
<1>1. CASE CheckMessage(p)
  <2>1. SharedOK'
    BY <1>1 DEF SharedOK, CheckMessage
  <2>2. CASE IsProcessed(item[p])
    BY <1>1, <2>1, <2>2, ReturnLocal DEF CheckMessage, Busy
  <2>3. CASE ~ IsProcessed(item[p])
    <3>1. /\ pc' = [pc EXCEPT ![p] = "mark"]
          /\ dest' = [dest EXCEPT ![p] = Chat[item[p]]]
          /\ item' = item /\ why' = why /\ held' = held /\ win' = win /\ sigs' = sigs
      BY <1>1, <2>3 DEF CheckMessage
    <3>2. pc[p] = "check" /\ item[p] \in Messages /\ Chat[item[p]] \in Chats
      BY <1>1 DEF CheckMessage
    <3>3. ASSUME NEW q \in Workers
          PROVE  Control(q)'
      BY <3>1, <3>2 DEF LocalOK, Control, Analysing
    <3> QED
      BY <2>1, <3>1, <3>2, <3>3 DEF LocalOK, PcStates
  <2> QED
    BY <2>2, <2>3
<1>2. CASE MarkMessage(p)
  <2>1. SharedOK'
    BY <1>2 DEF SharedOK, MarkMessage
  <2>2. LocalOK'
    BY <1>2 DEF LocalOK, MarkMessage, Goto, PcStates, Control, Analysing
  <2> QED
    BY <2>1, <2>2
<1>3. CASE Load(p)
  <2>1. SharedOK'
    BY <1>3 DEF SharedOK, Load
  <2>2. LocalOK'
    BY <1>3 DEF LocalOK, Load, PcStates, Whys, Control, Analysing
  <2> QED
    BY <2>1, <2>2
<1>4. CASE Push(p)
  <2>1. item[p] \in Messages /\ dest[p] \in Chats
    BY <1>4 DEF LocalOK, Push, Goto, Control, Analysing
  <2>2. Append(window[dest[p]], item[p]) \in Seq(Messages)
    BY <2>1, AppendProperties DEF SharedOK
  <2>3. SharedOK'
    BY <1>4, <2>1, <2>2 DEF SharedOK, Push
  <2>4. LocalOK'
    BY <1>4 DEF LocalOK, Push, Goto, PcStates, Control, Analysing
  <2> QED
    BY <2>3, <2>4
<1>5. CASE Measure(p)
  <2>1. SharedOK'
    BY <1>5 DEF SharedOK, Measure
  <2>2. CASE WindowFull(dest[p])
    <3>1. /\ pc' = [pc EXCEPT ![p] = "flush"]
          /\ why' = [why EXCEPT ![p] = "full"]
          /\ item' = item /\ dest' = dest /\ held' = held /\ win' = win /\ sigs' = sigs
      BY <1>5, <2>2 DEF Measure
    <3>2. pc[p] = "size"
      BY <1>5 DEF Measure
    <3>3. ASSUME NEW q \in Workers
          PROVE  Control(q)'
      BY <3>1, <3>2 DEF LocalOK, Control, Analysing
    <3> QED
      BY <2>1, <3>1, <3>3 DEF LocalOK, PcStates, Whys
  <2>3. CASE ~ WindowFull(dest[p])
    BY <1>5, <2>1, <2>3, ReturnLocal DEF Measure, Busy
  <2> QED
    BY <2>2, <2>3
<1> QED
  BY <1>1, <1>2, <1>3, <1>4, <1>5 DEF HandleMessage

\* The steps of _handle_reprocess.
LEMMA TypeReprocess ==
  ASSUME SharedOK, LocalOK, CheckCommand \/ MarkCommand
  PROVE  SharedOK' /\ LocalOK'
<1> USE OrchestratorAssumption, LiveIsWorker
<1> USE DEF input, group, output, projector, queue, analysis
<1>1. CASE CheckCommand
  <2>1. SharedOK'
    BY <1>1 DEF SharedOK, CheckCommand
  <2>2. CASE IsProcessed(item[Live])
    BY <1>1, <2>1, <2>2, ReturnLocal DEF CheckCommand, Busy
  <2>3. CASE why'[Live] = "missing" /\ ~ IsProcessed(item[Live])
    <3>1. /\ pc' = [pc EXCEPT ![Live] = "mark"]
          /\ why' = [why EXCEPT ![Live] = "missing"]
          /\ item' = item /\ dest' = dest /\ held' = held /\ win' = win /\ sigs' = sigs
      BY <1>1, <2>3 DEF CheckCommand, LocalOK, Control, Analysing
    <3> QED
      BY <1>1, <2>1, <3>1 DEF LocalOK, CheckCommand, PcStates, Whys, Control, Analysing
  <2>4. CASE why'[Live] # "missing" /\ ~ IsProcessed(item[Live])
    <3>1. PICK r \in rows :
            /\ held' = [held EXCEPT ![Live] = r.msgs]
            /\ dest' = [dest EXCEPT ![Live] = r.chat]
            /\ win' = [win EXCEPT ![Live] = Target[item[Live]]]
            /\ pc' = [pc EXCEPT ![Live] = "mark"]
            /\ why' = [why EXCEPT ![Live] = "reprocess"]
            /\ item' = item /\ sigs' = sigs
      BY <1>1, <2>4 DEF CheckCommand, LocalOK
    <3>2. r.msgs \in Seq(Messages) /\ r.chat \in Chats
      BY DEF SharedOK, Analyses
    <3> QED
      BY <1>1, <2>1, <3>1, <3>2 DEF LocalOK, CheckCommand, PcStates, Whys, Control, Analysing
  <2> QED
    BY <2>2, <2>3, <2>4
<1>2. CASE MarkCommand
  <2>1. SharedOK'
    BY <1>2 DEF SharedOK, MarkCommand
  <2>2. CASE why[Live] = "missing"
    BY <1>2, <2>1, <2>2, ReturnLocal DEF MarkCommand, Busy
  <2>3. CASE why[Live] # "missing"
    <3>1. /\ pc' = [pc EXCEPT ![Live] = "graph"]
          /\ item' = item /\ why' = why /\ dest' = dest
          /\ held' = held /\ win' = win /\ sigs' = sigs
          /\ pc[Live] = "mark" /\ item[Live] \in Commands
      BY <1>2, <2>3 DEF MarkCommand
    <3>2. ASSUME NEW q \in Workers
          PROVE  Control(q)'
      BY <2>3, <3>1 DEF LocalOK, Control, Analysing
    <3> QED
      BY <2>1, <3>1, <3>2 DEF LocalOK, PcStates
  <2> QED
    BY <2>2, <2>3
<1> QED
  BY <1>1, <1>2

\* The steps of _flush_window and _run_analysis.
LEMMA TypeAnalyse ==
  ASSUME SharedOK, LocalOK, NEW p \in Workers, Analyse(p)
  PROVE  SharedOK' /\ LocalOK'
<1> USE OrchestratorAssumption
<1> USE DEF input, group, output, projector, queue, analysis
<1>1. CASE Flush(p)
  <2>1. dest[p] \in Chats /\ ReadWindow(dest[p]) \in Seq(Messages)
    BY <1>1 DEF SharedOK, LocalOK, Flush, Control, ReadWindow
  <2>2. nextWin' \in Nat \ {0}
    BY <1>1 DEF SharedOK, Flush
  <2>3. SharedOK'
    BY <1>1, <2>2 DEF SharedOK, Flush
  <2>4. CASE ReadWindow(dest[p]) = <<>>
    BY <1>1, <2>3, <2>4, AfterFlushLocal DEF Flush
  <2>5. CASE ReadWindow(dest[p]) # <<>>
    <3>1. /\ pc' = [pc EXCEPT ![p] = "graph"]
          /\ held' = [held EXCEPT ![p] = ReadWindow(dest[p])]
          /\ win' = [win EXCEPT ![p] = nextWin]
          /\ item' = item /\ why' = why /\ dest' = dest /\ sigs' = sigs
      BY <1>1, <2>5 DEF Flush
    <3>2. pc[p] = "flush" /\ nextWin \in Nat
      BY <1>1 DEF SharedOK, Flush
    <3> QED
      BY <2>1, <2>3, <3>1, <3>2 DEF LocalOK, PcStates, Control, Analysing
  <2> QED
    BY <2>4, <2>5
<1>2. CASE EmitPreprocessed(p)
  <2>1. [win |-> win[p], chat |-> dest[p], msgs |-> held[p]] \in Analyses
    BY <1>2 DEF LocalOK, EmitPreprocessed, Goto, Control, Analysing, Analyses
  <2>2. preprocessed' \in Seq(Analyses)
    BY <1>2, <2>1, AppendProperties DEF SharedOK, EmitPreprocessed
  <2>3. SharedOK'
    BY <1>2, <2>2 DEF SharedOK, EmitPreprocessed
  <2>4. LocalOK'
    BY <1>2 DEF LocalOK, EmitPreprocessed, Goto, PcStates, Control, Analysing
  <2> QED
    BY <2>3, <2>4
<1>3. CASE EmitCompleted(p)
  <2>1. completed' \in Seq(Nat)
    BY <1>3, AppendProperties DEF SharedOK, LocalOK, EmitCompleted
  <2>2. SharedOK'
    BY <1>3, <2>1 DEF SharedOK, EmitCompleted
  <2>3. PICK n \in 0..MaxSignals :
          /\ sigs' = [sigs EXCEPT ![p] = n]
          /\ pc' = [pc EXCEPT ![p] = IF n = 0 THEN "command" ELSE "signals"]
    BY <1>3 DEF EmitCompleted
  <2>4. LocalOK'
    BY <1>3, <2>3 DEF LocalOK, EmitCompleted, PcStates, Control, Analysing
  <2> QED
    BY <2>2, <2>4
<1>4. CASE EmitSignal(p)
  <2>1. signals' \in Seq(Nat)
    BY <1>4, AppendProperties DEF SharedOK, LocalOK, EmitSignal
  <2>2. SharedOK'
    BY <1>4, <2>1 DEF SharedOK, EmitSignal
  <2>3. sigs[p] \in 1..MaxSignals
    BY <1>4 DEF LocalOK, EmitSignal, Goto, Control, Analysing
  <2>4. LocalOK'
    BY <1>4, <2>3 DEF LocalOK, EmitSignal, Goto, PcStates, Control, Analysing
  <2> QED
    BY <2>2, <2>4
<1>5. CASE EmitCommand(p)
  <2>1. PICK list \in NormalForms(held[p]) :
          commands' = Append(commands, [win |-> win[p], chat |-> dest[p], msgs |-> list])
    BY <1>5 DEF EmitCommand
  <2>2. list \in Seq(Messages)
    BY <2>1, NormalFormType DEF LocalOK
  <2>3. [win |-> win[p], chat |-> dest[p], msgs |-> list] \in Analyses
    BY <1>5, <2>2 DEF LocalOK, EmitCommand, Control, Analysing, Analyses
  <2>4. commands' \in Seq(Analyses)
    BY <2>1, <2>3, AppendProperties DEF SharedOK
  <2>5. SharedOK'
    BY <1>5, <2>4 DEF SharedOK, EmitCommand
  <2>6. CASE why[p] = "reprocess"
    BY <1>5, <2>5, <2>6, ReturnLocal DEF EmitCommand, Busy
  <2>7. CASE why[p] # "reprocess"
    <3>1. /\ pc' = [pc EXCEPT ![p] = "delete"]
          /\ item' = item /\ why' = why /\ dest' = dest
          /\ held' = held /\ win' = win /\ sigs' = sigs
      BY <1>5, <2>7 DEF EmitCommand
    <3>2. pc[p] = "command"
      BY <1>5 DEF EmitCommand
    <3>3. ASSUME NEW q \in Workers
          PROVE  Control(q)'
      BY <2>7, <3>1, <3>2 DEF LocalOK, Control, Analysing
    <3> QED
      BY <2>5, <3>1, <3>3 DEF LocalOK, PcStates
  <2> QED
    BY <2>6, <2>7
<1>6. CASE Delete(p)
  <2>1. window' \in [Chats -> Seq(Messages)]
    <3>1. window' = [window EXCEPT ![dest[p]] = <<>>] /\ dest[p] \in Chats
      BY <1>6 DEF LocalOK, Delete, Control, Analysing
    <3> QED
      BY <3>1 DEF SharedOK
  <2>2. UNCHANGED <<input, group, processed, output, projector, nextWin, queue, faults>>
    BY <1>6 DEF Delete
  <2>3. SharedOK'
    BY <2>1, <2>2 DEF SharedOK
  <2> QED
    BY <1>6, <2>3, AfterFlushLocal DEF Delete
<1> QED
  BY <1>1, <1>2, <1>3, <1>4, <1>5, <1>6 DEF Analyse

\* The steps of the backfill script's own loop.
LEMMA TypeBackfill ==
  ASSUME SharedOK, LocalOK, NEW b \in Backfills,
         StartBackfill(b) \/ Replay(b) \/ FlushResidual(b) \/ EndBackfill(b)
  PROVE  SharedOK' /\ LocalOK'
<1> USE OrchestratorAssumption, LiveIsWorker
<1> USE DEF input, group, output, projector, queue, analysis
<1>1. CASE StartBackfill(b)
  <2>1. stream \in Seq(Messages \cup Commands)
    BY SeqMonotonic DEF SharedOK
  <2>2. SharedOK'
    BY <1>1, <2>1 DEF SharedOK, StartBackfill
  <2>3. LocalOK'
    BY <1>1 DEF LocalOK, StartBackfill, Goto, PcStates, Control, Analysing
  <2> QED
    BY <2>2, <2>3
<1>2. CASE Replay(b)
  <2> DEFINE m == Head(todo[b])
  <2>1. todo[b] # <<>> /\ todo[b] \in Seq(Messages) /\ seenChats[b] \in Seq(Chats)
    BY <1>2 DEF SharedOK, Replay
  <2>2. m \in Messages /\ Tail(todo[b]) \in Seq(Messages)
    BY <2>1, HeadTailProperties
  <2>3. seenChats' \in [Workers -> Seq(Chats)]
    <3>1. CASE seenChats' = seenChats
      BY <3>1 DEF SharedOK
    <3>2. CASE seenChats' = [seenChats EXCEPT ![b] = Append(@, Chat[m])]
      <4>1. Append(seenChats[b], Chat[m]) \in Seq(Chats)
        BY <2>1, <2>2, AppendProperties
      <4> QED
        BY <3>2, <4>1 DEF SharedOK
    <3> QED
      BY <1>2, <3>1, <3>2 DEF Replay
  <2>4. SharedOK'
    <3>1. Tail(todo[b]) \in Seq(Messages \cup Commands)
      BY <2>2, SeqMonotonic
    <3>2. /\ todo' \in [Workers -> Seq(Messages \cup Commands)]
          /\ \A d \in Backfills : todo'[d] \in Seq(Messages)
      BY <1>2, <2>2, <3>1 DEF SharedOK, Replay
    <3>3. UNCHANGED <<input, group, processed, window, output, projector, nextWin, faults>>
      BY <1>2 DEF Replay
    <3> QED
      BY <2>3, <3>2, <3>3 DEF SharedOK
  <2>5. CASE UNCHANGED <<pc, item>>
    BY <1>2, <2>4, <2>5, LocalFrame DEF Replay
  <2>6. CASE pc'[b] = "check"
    <3>1. /\ pc' = [pc EXCEPT ![b] = "check"]
          /\ item' = [item EXCEPT ![b] = m]
          /\ why' = why /\ dest' = dest /\ held' = held /\ win' = win /\ sigs' = sigs
          /\ pc[b] = "idle"
      BY <1>2, <2>6 DEF Replay
    <3>2. ASSUME NEW q \in Workers
          PROVE  Control(q)'
      BY <2>2, <3>1 DEF LocalOK, Control, Analysing
    <3> QED
      BY <2>2, <2>4, <3>1, <3>2 DEF LocalOK, PcStates
  <2> QED
    BY <1>2, <2>5, <2>6 DEF LocalOK, Replay
<1>3. CASE FlushResidual(b)
  <2>1. seenChats[b] # <<>> /\ seenChats[b] \in Seq(Chats)
    BY <1>3 DEF SharedOK, FlushResidual
  <2>2. Head(seenChats[b]) \in Chats /\ Tail(seenChats[b]) \in Seq(Chats)
    BY <2>1, HeadTailProperties
  <2>3. SharedOK'
    BY <1>3, <2>2 DEF SharedOK, FlushResidual
  <2>4. CASE UNCHANGED <<pc, analysis>>
    BY <1>3, <2>3, <2>4, LocalFrame DEF FlushResidual
  <2>5. CASE pc'[b] = "flush"
    <3>1. /\ pc' = [pc EXCEPT ![b] = "flush"]
          /\ why' = [why EXCEPT ![b] = "residual"]
          /\ dest' = [dest EXCEPT ![b] = Head(seenChats[b])]
          /\ item' = item /\ held' = held /\ win' = win /\ sigs' = sigs
          /\ pc[b] = "idle"
      BY <1>3, <2>5 DEF FlushResidual
    <3>2. ASSUME NEW q \in Workers
          PROVE  Control(q)'
      BY <2>2, <3>1 DEF LocalOK, Control, Analysing
    <3> QED
      BY <2>2, <2>3, <3>1, <3>2 DEF LocalOK, PcStates, Whys
  <2> QED
    BY <1>3, <2>4, <2>5 DEF LocalOK, FlushResidual
<1>4. CASE EndBackfill(b)
  <2>1. UNCHANGED <<input, group, processed, window, output, projector, nextWin, queue, faults>>
    BY <1>4 DEF EndBackfill
  <2>2. SharedOK'
    BY <2>1 DEF SharedOK
  <2>3. LocalOK'
    BY <1>4 DEF LocalOK, EndBackfill, Goto, PcStates, Control, Analysing
  <2> QED
    BY <2>2, <2>3
<1> QED
  BY <1>1, <1>2, <1>3, <1>4

\* Faults of a process.
LEMMA TypeFault ==
  ASSUME SharedOK, LocalOK, NEW p \in Workers, Error(p) \/ Crash(p) \/ Cancel
  PROVE  SharedOK' /\ LocalOK'
<1> USE OrchestratorAssumption, LiveIsWorker
<1> USE DEF input, group, output, projector, queue, analysis
<1>1. ASSUME NEW kind \in FaultKinds, Strike(kind)
      PROVE  faults' \in [FaultKinds -> Nat]
  BY <1>1 DEF SharedOK, Strike
<1>2. CASE Error(p)
  <2>1. UNCHANGED <<input, group, processed, window, output, projector, nextWin, queue>>
    BY <1>2 DEF Error
  <2>2. SharedOK'
    BY <1>1, <1>2, <2>1 DEF SharedOK, Error, FaultKinds
  <2> QED
    BY <1>2, <2>2, ReturnLocal DEF Error
<1>3. ASSUME NEW q \in Workers, NEW stop \in {"off", "done"},
             pc' = [pc EXCEPT ![q] = stop],
             item' = [item EXCEPT ![q] = None],
             Forget(q)
      PROVE  LocalOK'
  <2>1. /\ why' = [why EXCEPT ![q] = "none"]
        /\ dest' = [dest EXCEPT ![q] = None]
        /\ held' = [held EXCEPT ![q] = <<>>]
        /\ win' = [win EXCEPT ![q] = 0]
        /\ sigs' = [sigs EXCEPT ![q] = 0]
    BY <1>3 DEF Forget
  <2>2. ASSUME NEW r \in Workers
        PROVE  Control(r)'
    BY <1>3, <2>1 DEF LocalOK, Control, Analysing
  <2> QED
    BY <1>3, <2>1, <2>2 DEF LocalOK, PcStates, Whys
<1>4. CASE Crash(p)
  <2>1. UNCHANGED <<input, group, processed, window, output, projector, nextWin>>
    BY <1>4 DEF Crash
  <2>2. /\ todo' \in [Workers -> Seq(Messages \cup Commands)]
        /\ \A d \in Backfills : todo'[d] \in Seq(Messages)
        /\ seenChats' \in [Workers -> Seq(Chats)]
    BY <1>4 DEF SharedOK, Crash
  <2>3. SharedOK'
    BY <1>1, <1>4, <2>1, <2>2 DEF SharedOK, Crash, FaultKinds
  <2>4. LocalOK'
    BY <1>3, <1>4 DEF Crash
  <2> QED
    BY <2>3, <2>4
<1>5. CASE Cancel
  <2>1. UNCHANGED <<input, grouped, msgCursor, cmdCursor, processed, window, output, projector,
                    nextWin, seenChats>>
    BY <1>5 DEF Cancel
  <2>2. item[Live] \in Messages \cup Commands
    BY <1>5 DEF LocalOK, Cancel, Busy, Control, Analysing
  <2>3. /\ todo' \in [Workers -> Seq(Messages \cup Commands)]
        /\ \A d \in Backfills : todo'[d] \in Seq(Messages)
        /\ pending' \subseteq Messages \cup Commands
        /\ acked' \subseteq Messages \cup Commands
    BY <1>5, <2>2 DEF SharedOK, Cancel
  <2>4. SharedOK'
    BY <1>1, <1>5, <2>1, <2>3 DEF SharedOK, Cancel, FaultKinds
  <2>5. LocalOK'
    BY <1>3, <1>5 DEF Cancel
  <2> QED
    BY <2>4, <2>5
<1> QED
  BY <1>2, <1>4, <1>5

LEMMA TypeLoseReply ==
  ASSUME SharedOK, LocalOK, LoseReply
  PROVE  SharedOK' /\ LocalOK'
<1> USE DEF input, group, output, projector, queue, analysis
<1> DEFINE msgs == NextEntries(stream, msgCursor)
           cmds == NextEntries(requests, cmdCursor)
<1>1. /\ msgs \in Seq(Messages) /\ Len(msgs) \in Nat
      /\ cmds \in Seq(Commands) /\ Len(cmds) \in Nat
  BY NextEntriesType DEF SharedOK
<1>2. /\ msgCursor' = msgCursor + Len(msgs)
      /\ cmdCursor' = cmdCursor + Len(cmds)
      /\ pending' = pending \cup Elements(msgs \o cmds)
      /\ faults' = [faults EXCEPT !["error"] = @ + 1]
      /\ UNCHANGED <<input, grouped, acked, processed, window, output, projector, nextWin,
                     pc, queue, item, analysis>>
  BY DEF LoseReply, Strike
<1> HIDE DEF msgs, cmds
<1>3. msgCursor' \in Nat /\ cmdCursor' \in Nat /\ faults' \in [FaultKinds -> Nat]
  BY <1>1, <1>2 DEF SharedOK, FaultKinds
<1>4. msgs \o cmds \in Seq(Messages \cup Commands)
  BY <1>1, SeqMonotonic, ConcatProperties
<1>5. pending' \subseteq Messages \cup Commands
  BY <1>2, <1>4 DEF SharedOK, Elements
<1>6. SharedOK'
  BY <1>2, <1>3, <1>5 DEF SharedOK
<1> QED
  BY <1>2, <1>6, LocalFrame

LEMMA TypeInit == Init => TypeInv
<1> SUFFICES ASSUME Init  PROVE  TypeInv
  OBVIOUS
<1>1. SharedOK
  <2>1. /\ todo \in [Workers -> Seq(Messages \cup Commands)]
        /\ \A b \in Backfills : todo[b] \in Seq(Messages)
        /\ seenChats \in [Workers -> Seq(Chats)]
        /\ window \in [Chats -> Seq(Messages)]
        /\ faults \in [FaultKinds -> Nat]
    BY LiveIsWorker DEF Init
  <2>2. /\ stream \in Seq(Messages) /\ requests \in Seq(Commands)
        /\ preprocessed \in Seq(Analyses) /\ commands \in Seq(Analyses)
        /\ completed \in Seq(Nat) /\ signals \in Seq(Nat)
    BY DEF Init
  <2>3. /\ msgCursor = 0 /\ cmdCursor = 0
        /\ pending = {} /\ acked = {} /\ processed = {} /\ rows = {}
        /\ applied = 0 /\ nextWin = 1
    BY DEF Init
  <2>4. /\ pending \subseteq Messages \cup Commands
        /\ acked \subseteq Messages \cup Commands
        /\ processed \subseteq Messages \cup Commands
        /\ rows \subseteq Analyses
    BY <2>3
  <2>5. /\ msgCursor \in Nat /\ cmdCursor \in Nat
        /\ applied \in Nat /\ nextWin \in Nat \ {0}
    BY <2>3
  <2>6. grouped \in BOOLEAN
    BY Zenon DEF Init
  <2> QED
    BY <2>1, <2>2, <2>4, <2>5, <2>6 DEF SharedOK
<1>2. LocalOK
  BY OrchestratorAssumption DEF Init, LocalOK, PcStates, Whys, Control, Analysing
<1> QED
  BY <1>1, <1>2, TypeInvParts

LEMMA TypeStep ==
  ASSUME TypeInv, [Next]_vars
  PROVE  TypeInv'
<1>1. SharedOK /\ LocalOK
  BY TypeInvParts
<1>2. SharedOK' /\ LocalOK'
  <2>1. CASE UNCHANGED vars
    BY <1>1, <2>1, TypeEnvironment
  <2>2. CASE Consume
    BY <1>1, <2>2, TypeLoop, TypeHandle, TypeReprocess, TypeAnalyse, LiveIsWorker DEF Consume
  <2>3. ASSUME NEW b \in Backfills, Backfill(b)
        PROVE  SharedOK' /\ LocalOK'
    BY <1>1, <2>3, TypeBackfill, TypeHandle, TypeAnalyse, LiveIsWorker DEF Backfill
  <2>4. ASSUME NEW p \in Workers, Error(p) \/ Crash(p)
        PROVE  SharedOK' /\ LocalOK'
    BY <1>1, <2>4, TypeFault
  <2>5. CASE Cancel
    BY <1>1, <2>5, TypeFault, LiveIsWorker
  <2> QED
    BY <1>1, <2>1, <2>2, <2>3, <2>4, <2>5, TypeEnvironment, TypeLoseReply DEF Next
<1> QED
  BY <1>2, TypeInvParts DEF TypeInv, TypeOK, SharedOK, LocalOK, Whys

\* Every variable keeps its type, whatever the processes and the faults do.
THEOREM TypeCorrect == Spec => []TypeOK
<1>1. Spec => []TypeInv
  BY TypeInit, TypeStep, PTL DEF Spec
<1>2. TypeInv => TypeOK
  BY DEF TypeInv
<1> QED
  BY <1>1, <1>2, PTL

-----------------------------------------------------------------------------
(***************************************************************************)
(* The safety theorems: OrchestratorInvariant's Inv is inductive.  The     *)
(* lemmas that follow say which step can change a variable, and how; with  *)
(* them each part of Inv needs only the steps that could disturb it.       *)
(***************************************************************************)

(***************************************************************************)
(* What a step can change.                                                 *)
(***************************************************************************)
LEMMA WindowEffect ==
  ASSUME [Next]_vars
  PROVE  \/ window' = window
         \/ \E p \in Workers : Push(p) \/ Delete(p)
         \/ \E c \in Chats : Expire(c)
<1> USE LiveIsWorker
<1> USE DEF input, group, output, projector, queue, analysis, vars
<1>1. CASE Consume
  BY <1>1 DEF Consume, Start, Fetch, Take, Ack, CheckCommand, MarkCommand, HandleMessage,
     CheckMessage, MarkMessage, Load, Measure, Analyse, Flush, EmitPreprocessed, EmitCompleted,
     EmitSignal, EmitCommand
<1>2. ASSUME NEW b \in Backfills, Backfill(b)
      PROVE  window' = window \/ \E p \in Workers : Push(p) \/ Delete(p)
  BY <1>2 DEF Backfill, StartBackfill, Replay, FlushResidual, EndBackfill, HandleMessage,
     CheckMessage, MarkMessage, Load, Measure, Analyse, Flush, EmitPreprocessed, EmitCompleted,
     EmitSignal, EmitCommand
<1> QED
  BY <1>1, <1>2 DEF Next, Ingest, Request, Project, Error, Crash, Cancel, LoseReply

LEMMA ProcessedEffect ==
  ASSUME [Next]_vars
  PROVE  \/ processed' = processed
         \/ \E p \in Workers : MarkMessage(p)
         \/ MarkCommand
<1> USE LiveIsWorker
<1> USE DEF input, group, output, projector, queue, analysis, vars
<1>1. CASE Consume
  BY <1>1 DEF Consume, Start, Fetch, Take, Ack, CheckCommand, HandleMessage, CheckMessage,
     Load, Push, Measure, Analyse, Flush, EmitPreprocessed, EmitCompleted, EmitSignal,
     EmitCommand, Delete
<1>2. ASSUME NEW b \in Backfills, Backfill(b)
      PROVE  processed' = processed \/ \E p \in Workers : MarkMessage(p)
  BY <1>2 DEF Backfill, StartBackfill, Replay, FlushResidual, EndBackfill, HandleMessage,
     CheckMessage, Load, Push, Measure, Analyse, Flush, EmitPreprocessed, EmitCompleted,
     EmitSignal, EmitCommand, Delete
<1> QED
  BY <1>1, <1>2 DEF Next, Ingest, Request, Project, Error, Crash, Cancel, LoseReply,
     Expire

\* An emission is the only step of its kind that changes its stream.
LEMMA OutputEffect ==
  ASSUME [Next]_vars
  PROVE  /\ preprocessed' = preprocessed \/ \E p \in Workers : EmitPreprocessed(p)
         /\ completed' = completed \/ \E p \in Workers : EmitCompleted(p)
         /\ commands' = commands \/ \E p \in Workers : EmitCommand(p)
<1> USE LiveIsWorker
<1> USE DEF input, group, output, projector, queue, analysis, vars
<1>1. CASE Consume
  <2>1. CASE Analyse(Live)
    BY <2>1 DEF Analyse, Flush, EmitPreprocessed, EmitCompleted, EmitSignal, EmitCommand, Delete
  <2> QED
    BY <1>1, <2>1 DEF Consume, Start, Fetch, Take, Ack, CheckCommand, MarkCommand,
       HandleMessage, CheckMessage, MarkMessage, Load, Push, Measure
<1>2. ASSUME NEW b \in Backfills, Backfill(b)
      PROVE  /\ preprocessed' = preprocessed \/ \E p \in Workers : EmitPreprocessed(p)
             /\ completed' = completed \/ \E p \in Workers : EmitCompleted(p)
             /\ commands' = commands \/ \E p \in Workers : EmitCommand(p)
  <2>1. CASE Analyse(b)
    BY <2>1 DEF Analyse, Flush, EmitPreprocessed, EmitCompleted, EmitSignal, EmitCommand, Delete
  <2> QED
    BY <1>2, <2>1 DEF Backfill, StartBackfill, Replay, FlushResidual, EndBackfill,
       HandleMessage, CheckMessage, MarkMessage, Load, Push, Measure
<1> QED
  BY <1>1, <1>2 DEF Next, Ingest, Request, Project, Error, Crash, Cancel, LoseReply,
     Expire

LEMMA RowsEffect ==
  ASSUME [Next]_vars
  PROVE  rows' = rows \/ Project
<1> USE LiveIsWorker
<1> USE DEF input, group, output, projector, queue, analysis, vars
<1>1. CASE Consume
  BY <1>1 DEF Consume, Start, Fetch, Take, Ack, CheckCommand, MarkCommand, HandleMessage,
     CheckMessage, MarkMessage, Load, Push, Measure, Analyse, Flush, EmitPreprocessed,
     EmitCompleted, EmitSignal, EmitCommand, Delete
<1>2. ASSUME NEW b \in Backfills, Backfill(b)
      PROVE  rows' = rows
  BY <1>2 DEF Backfill, StartBackfill, Replay, FlushResidual, EndBackfill, HandleMessage,
     CheckMessage, MarkMessage, Load, Push, Measure, Analyse, Flush, EmitPreprocessed,
     EmitCompleted, EmitSignal, EmitCommand, Delete
<1> QED
  BY <1>1, <1>2 DEF Next, Ingest, Request, Error, Crash, Cancel, LoseReply,
     Expire

LEMMA NextWinEffect ==
  ASSUME [Next]_vars
  PROVE  nextWin' = nextWin \/ \E p \in Workers : Flush(p)
<1> USE LiveIsWorker
<1> USE DEF input, group, output, projector, queue, analysis, vars
<1>1. CASE Consume
  BY <1>1 DEF Consume, Start, Fetch, Take, Ack, CheckCommand, MarkCommand, HandleMessage,
     CheckMessage, MarkMessage, Load, Push, Measure, Analyse, EmitPreprocessed,
     EmitCompleted, EmitSignal, EmitCommand, Delete
<1>2. ASSUME NEW b \in Backfills, Backfill(b)
      PROVE  nextWin' = nextWin \/ \E p \in Workers : Flush(p)
  BY <1>2 DEF Backfill, StartBackfill, Replay, FlushResidual, EndBackfill, HandleMessage,
     CheckMessage, MarkMessage, Load, Push, Measure, Analyse, EmitPreprocessed,
     EmitCompleted, EmitSignal, EmitCommand, Delete
<1> QED
  BY <1>1, <1>2 DEF Next, Ingest, Request, Project, Error, Crash, Cancel, LoseReply,
     Expire

-----------------------------------------------------------------------------
(***************************************************************************)
(* What happens to the local state of a worker.                            *)
(***************************************************************************)
Same(p) ==
  /\ pc'[p] = pc[p] /\ item'[p] = item[p] /\ why'[p] = why[p]
  /\ dest'[p] = dest[p] /\ held'[p] = held[p] /\ win'[p] = win[p]

\* A step of the loop around the handlers, in either process, or a fault.
Loops(p) ==
  \/ p = Live /\ (Start \/ Fetch \/ Take \/ Ack \/ Cancel)
  \/ StartBackfill(p) \/ Replay(p) \/ FlushResidual(p) \/ EndBackfill(p)
  \/ Error(p) \/ Crash(p)

Reprocesses(p) == p = Live /\ (CheckCommand \/ MarkCommand)

\* A handler that returns, or that starts its next flush, touches one worker.
LEMMA ReturnLocality ==
  ASSUME LocalOK, NEW q \in Workers, NEW p \in Workers, p # q, Return(q) \/ AfterFlush(q)
  PROVE  Same(p)
<1>1. CASE Return(q)
  BY <1>1 DEF LocalOK, Return, Forget, Same
<1>2. CASE AfterFlush(q) /\ why[q] = "rollover"
  BY <1>2 DEF LocalOK, AfterFlush, Same
<1> QED
  BY <1>1, <1>2 DEF AfterFlush

\* The steps of one worker leave the local state of the others alone.
LEMMA Locality ==
  ASSUME TypeInv, [Next]_vars, NEW p \in Workers
  PROVE  Same(p) \/ HandleMessage(p) \/ Analyse(p) \/ Loops(p) \/ Reprocesses(p)
<1> USE LiveIsWorker
<1> USE DEF input, group, output, projector, queue, analysis, vars
<1>1. LocalOK
  BY TypeInvParts
<1>2. ASSUME NEW q \in Workers, p # q, HandleMessage(q)
      PROVE  Same(p)
  <2>1. CASE CheckMessage(q) \/ Measure(q)
    BY <1>1, <1>2, <2>1, ReturnLocality DEF LocalOK, CheckMessage, Measure, Same
  <2>2. CASE MarkMessage(q) \/ Load(q) \/ Push(q)
    BY <1>1, <1>2, <2>2 DEF LocalOK, MarkMessage, Load, Push, Goto, Same
  <2> QED
    BY <1>2, <2>1, <2>2 DEF HandleMessage
<1>3. ASSUME NEW q \in Workers, p # q, Analyse(q)
      PROVE  Same(p)
  <2>1. CASE Flush(q) \/ Delete(q) \/ EmitCommand(q)
    BY <1>1, <1>3, <2>1, ReturnLocality DEF LocalOK, Flush, Delete, EmitCommand, Same
  <2>2. CASE EmitPreprocessed(q) \/ EmitCompleted(q) \/ EmitSignal(q)
    BY <1>1, <1>3, <2>2 DEF LocalOK, EmitPreprocessed, EmitCompleted, EmitSignal, Goto, Same
  <2> QED
    BY <1>3, <2>1, <2>2 DEF Analyse
<1>4. CASE p # Live /\ (CheckCommand \/ MarkCommand)
  BY <1>1, <1>4, ReturnLocality DEF LocalOK, CheckCommand, MarkCommand, Same
<1>5. CASE p # Live /\ (Start \/ Fetch \/ Take \/ Ack \/ Cancel)
  BY <1>1, <1>5 DEF LocalOK, Start, Fetch, Take, Ack, Cancel, Goto, Forget, Same
<1>6. ASSUME NEW b \in Backfills, p # b,
             StartBackfill(b) \/ Replay(b) \/ FlushResidual(b) \/ EndBackfill(b)
      PROVE  Same(p)
  BY <1>1, <1>6 DEF LocalOK, StartBackfill, Replay, FlushResidual, EndBackfill, Goto, Same
<1>7. ASSUME NEW q \in Workers, p # q, Error(q) \/ Crash(q)
      PROVE  Same(p)
  BY <1>1, <1>7, ReturnLocality DEF LocalOK, Error, Crash, Forget, Same
<1>8. CASE \/ UNCHANGED vars \/ Project \/ LoseReply
           \/ \E m \in Messages : Ingest(m)
           \/ \E c \in Commands : Request(c)
           \/ \E c \in Chats : Expire(c)
  BY <1>8 DEF Same, Project, LoseReply, Ingest, Request, Expire
<1>9. CASE Consume
  BY <1>2, <1>3, <1>4, <1>5, <1>9 DEF Consume, Loops, Reprocesses
<1>10. ASSUME NEW b \in Backfills, Backfill(b)
       PROVE  Same(p) \/ HandleMessage(p) \/ Analyse(p) \/ Loops(p)
  BY <1>2, <1>3, <1>6, <1>10 DEF Backfill, Loops
<1>11. ASSUME NEW q \in Workers, Error(q) \/ Crash(q)
       PROVE  Same(p) \/ Loops(p)
  BY <1>7, <1>11 DEF Loops
<1>12. CASE Cancel
  BY <1>5, <1>12 DEF Loops
<1> QED
  BY <1>8, <1>9, <1>10, <1>11, <1>12 DEF Next

Keeps(p) ==
  /\ held'[p] = held[p] /\ win'[p] = win[p] /\ dest'[p] = dest[p]
  /\ why'[p] = "reprocess" => why[p] = "reprocess"
  /\ Owning(p)' => Owning(p)

Clears(p) ==
  /\ held'[p] = <<>> /\ win'[p] = 0
  /\ why'[p] # "reprocess"
  /\ ~ Owning(p)'

Reads(p) ==
  /\ Flush(p)
  /\ dest[p] \in Chats
  /\ held'[p] = window[dest[p]] /\ dest'[p] = dest[p]
  /\ win' = [win EXCEPT ![p] = nextWin] /\ nextWin' = nextWin + 1
  /\ why'[p] # "reprocess"

Fetches(p) ==
  /\ ~ Owning(p)'
  /\ \E r \in rows : held'[p] = r.msgs /\ dest'[p] = r.chat /\ win'[p] = r.win

\* A handler's payloads come from its window or from a row, and nowhere else.
LEMMA HeldEffect ==
  ASSUME TypeInv, [Next]_vars, NEW p \in Workers
  PROVE  Keeps(p) \/ Clears(p) \/ Reads(p) \/ Fetches(p)
<1> USE LiveIsWorker
<1> USE DEF input, group, output, projector, queue, analysis
<1>1. LocalOK /\ LocalOK' /\ SharedOK
  BY TypeStep, TypeInvParts DEF TypeInv, TypeOK, LocalOK, Whys
<1>2. ASSUME ~ Analysing(p)', pc'[p] # "delete", why'[p] # "reprocess"
      PROVE  Clears(p)
  BY <1>1, <1>2 DEF LocalOK, Control, Clears, Owning
<1>3. CASE Same(p)
  BY <1>3 DEF Same, Keeps, Owning, Analysing
<1>4. CASE HandleMessage(p)
  <2>1. pc'[p] \in {"mark", "load", "flush", "push", "size", "ack", "idle"}
    BY <1>1, <1>4 DEF LocalOK, HandleMessage, CheckMessage, MarkMessage, Load, Push, Measure,
       Goto, Return
  <2>2. why'[p] # "reprocess"
    BY <1>1, <1>4 DEF LocalOK, HandleMessage, CheckMessage, MarkMessage, Load, Push, Measure,
       Goto, Return, Forget, Control
  <2> QED
    BY <1>2, <2>1, <2>2 DEF Analysing
<1>5. CASE Loops(p)
  <2>1. CASE Fetch
    BY <2>1 DEF Fetch, Keeps, Owning, Analysing
  <2>2. CASE ~ Fetch
    <3>1. pc'[p] \in {"idle", "check", "ack", "off", "done", "flush"}
      BY <1>1, <1>5, <2>2 DEF LocalOK, Loops, Start, Take, Ack, Cancel, StartBackfill, Replay,
         FlushResidual, EndBackfill, Error, Crash, Goto, Return
    <3>2. why'[p] # "reprocess"
      BY <1>1, <3>1 DEF LocalOK, Control
    <3> QED
      BY <1>2, <3>1, <3>2 DEF Analysing
  <2> QED
    BY <2>1, <2>2
<1>6. CASE Reprocesses(p)
  <2>1. CASE CheckCommand /\ IsProcessed(item[Live])
    <3>1. pc'[p] = "ack" /\ why'[p] = "none"
      BY <1>1, <1>6, <2>1 DEF LocalOK, Reprocesses, CheckCommand, Return, Forget
    <3> QED
      BY <1>2, <3>1 DEF Analysing
  <2>2. CASE CheckCommand /\ ~ IsProcessed(item[Live])
    <3>1. pc'[p] = "mark"
      BY <1>1, <1>6, <2>2 DEF LocalOK, Reprocesses, CheckCommand
    <3>2. CASE why'[p] # "reprocess"
      BY <1>2, <3>1, <3>2 DEF Analysing
    <3>3. CASE why'[p] = "reprocess"
      <4>1. PICK r \in rows :
              /\ r.win = Target[item[Live]]
              /\ held' = [held EXCEPT ![Live] = r.msgs]
              /\ dest' = [dest EXCEPT ![Live] = r.chat]
              /\ win' = [win EXCEPT ![Live] = Target[item[Live]]]
        BY <1>1, <1>6, <2>2, <3>3 DEF LocalOK, Reprocesses, CheckCommand, IsProcessed
      <4> QED
        BY <1>1, <1>6, <3>1, <4>1 DEF LocalOK, Reprocesses, Fetches, Owning, Analysing
    <3> QED
      BY <3>2, <3>3
  <2>3. CASE MarkCommand /\ why[Live] = "missing"
    <3>1. pc'[p] = "ack" /\ why'[p] = "none"
      BY <1>1, <1>6, <2>3 DEF LocalOK, Reprocesses, MarkCommand, Return, Forget
    <3> QED
      BY <1>2, <3>1 DEF Analysing
  <2>4. CASE MarkCommand /\ why[Live] # "missing"
    BY <1>1, <1>6, <2>4 DEF LocalOK, Reprocesses, MarkCommand, Keeps, Owning, Control
  <2> QED
    BY <1>6, <2>1, <2>2, <2>3, <2>4 DEF Reprocesses
<1>7. CASE Analyse(p)
  <2>1. ASSUME pc[p] \in {"flush", "delete"}, AfterFlush(p)
        PROVE  Clears(p)
    <3>1. pc'[p] \in {"push", "ack", "idle"} /\ why'[p] = "none"
      BY <1>1, <2>1 DEF LocalOK, AfterFlush, Return, Forget
    <3> QED
      BY <1>2, <3>1 DEF Analysing
  <2>2. CASE Flush(p)
    <3>1. CASE ReadWindow(dest[p]) = <<>>
      BY <2>1, <2>2, <3>1 DEF Flush
    <3>2. CASE ReadWindow(dest[p]) # <<>>
      <4>1. /\ pc[p] = "flush" /\ dest[p] \in Chats /\ why[p] # "reprocess"
            /\ held' = [held EXCEPT ![p] = window[dest[p]]]
            /\ win' = [win EXCEPT ![p] = nextWin]
            /\ dest' = dest /\ why' = why /\ nextWin' = nextWin + 1
        BY <1>1, <2>2, <3>2 DEF LocalOK, Flush, ReadWindow, Control
      <4> QED
        BY <1>1, <2>2, <4>1 DEF LocalOK, Reads
    <3> QED
      BY <3>1, <3>2
  <2>3. CASE EmitPreprocessed(p) \/ EmitCompleted(p) \/ EmitSignal(p)
    BY <1>1, <2>3 DEF LocalOK, EmitPreprocessed, EmitCompleted, EmitSignal, Goto, Keeps,
       Owning, Analysing
  <2>4. CASE EmitCommand(p)
    <3>1. CASE why[p] = "reprocess"
      <4>1. pc'[p] \in {"ack", "idle"} /\ why'[p] = "none"
        BY <1>1, <2>4, <3>1 DEF LocalOK, EmitCommand, Return, Forget
      <4> QED
        BY <1>2, <4>1 DEF Analysing
    <3>2. CASE why[p] # "reprocess"
      BY <1>1, <2>4, <3>2 DEF LocalOK, EmitCommand, Keeps, Owning, Analysing
    <3> QED
      BY <3>1, <3>2
  <2>5. CASE Delete(p)
    BY <2>1, <2>5 DEF Delete
  <2> QED
    BY <1>7, <2>2, <2>3, <2>4, <2>5 DEF Analyse
<1> QED
  BY <1>3, <1>4, <1>5, <1>6, <1>7, Locality

-----------------------------------------------------------------------------
(***************************************************************************)
(* Marking: every payload is in processed_event before it is anywhere.     *)
(***************************************************************************)
LEMMA ProcessedGrows ==
  ASSUME [Next]_vars
  PROVE  processed \subseteq processed'
  BY ProcessedEffect DEF MarkMessage, MarkCommand

\* A message a handler still has to push was marked by that handler.
LEMMA InHandMarked ==
  ASSUME TypeInv, Marking, [Next]_vars, NEW p \in Workers,
         pc'[p] \in {"load", "push"} \/ why'[p] = "rollover"
  PROVE  item'[p] \in processed'
<1> USE LiveIsWorker
<1> USE DEF input, group, output, projector, queue, analysis
<1>1. LocalOK
  BY TypeInvParts
<1>2. CASE pc[p] \in {"load", "push"} \/ why[p] = "rollover"
  <2>1. item[p] \in processed'
    BY <1>2, ProcessedGrows DEF Marking
  <2>2. item'[p] = item[p]
    <3>1. CASE HandleMessage(p)
      BY <1>1, <1>2, <3>1 DEF LocalOK, HandleMessage, CheckMessage, MarkMessage, Load, Push,
         Measure, Goto, Return, Forget, Control
    <3>2. CASE Analyse(p)
      BY <1>1, <3>2 DEF LocalOK, Analyse, Flush, EmitPreprocessed, EmitCompleted, EmitSignal,
         EmitCommand, Delete, AfterFlush, Goto, Return, Forget
    <3>3. CASE Loops(p)
      <4>1. CASE Fetch
        BY <4>1 DEF Fetch
      <4>2. CASE ~ Fetch
        BY <1>1, <1>2, <3>3, <4>2 DEF LocalOK, Loops, Start, Take, Ack, Cancel, StartBackfill,
           Replay, FlushResidual, EndBackfill, Error, Crash, Goto, Return, Forget, Control
      <4> QED
        BY <4>1, <4>2
    <3>4. CASE Reprocesses(p)
      BY <1>1, <1>2, <3>4 DEF LocalOK, Reprocesses, CheckCommand, MarkCommand, Control
    <3> QED
      BY <3>1, <3>2, <3>3, <3>4, Locality DEF Same
  <2> QED
    BY <2>1, <2>2
<1>3. CASE ~ (pc[p] \in {"load", "push"} \/ why[p] = "rollover")
  <2>1. CASE HandleMessage(p)
    <3>1. MarkMessage(p)
      BY <1>1, <1>3, <2>1 DEF LocalOK, HandleMessage, CheckMessage, Load, Push, Measure,
         Goto, Return, Forget
    <3> QED
      BY <3>1 DEF MarkMessage
  <2>2. CASE Analyse(p)
    BY <1>1, <1>3, <2>2 DEF LocalOK, Analyse, Flush, EmitPreprocessed, EmitCompleted,
       EmitSignal, EmitCommand, Delete, AfterFlush, Goto, Return, Forget
  <2>3. CASE Loops(p)
    BY <1>1, <1>3, <2>3 DEF LocalOK, Loops, Start, Fetch, Take, Ack, Cancel, StartBackfill,
       Replay, FlushResidual, EndBackfill, Error, Crash, Goto, Return, Forget
  <2>4. CASE Reprocesses(p)
    BY <1>1, <1>3, <2>4 DEF LocalOK, Reprocesses, CheckCommand, MarkCommand, Return, Forget
  <2> QED
    BY <1>3, <2>1, <2>2, <2>3, <2>4, Locality DEF Same
<1> QED
  BY <1>2, <1>3

LEMMA ElementsOfAppend ==
  ASSUME NEW S, NEW s \in Seq(S), NEW e \in S
  PROVE  Elements(Append(s, e)) = Elements(s) \cup {e}
  BY AppendProperties DEF Elements

LEMMA MarkingStep ==
  ASSUME TypeInv, Marking, [Next]_vars
  PROVE  Marking'
<1>1. SharedOK /\ LocalOK
  BY TypeInvParts
<1>2. processed \subseteq processed'
  BY ProcessedGrows
<1>3. ASSUME NEW c \in Chats
      PROVE  Stored(c)' \subseteq processed'
  <2>1. CASE window'[c] = window[c]
    BY <1>2, <2>1 DEF Marking, MarkedFirst, Stored, Elements
  <2>2. CASE window'[c] = <<>>
    BY <2>2 DEF Stored, Elements
  <2>3. ASSUME NEW p \in Workers, Push(p), dest[p] = c
        PROVE  Stored(c)' \subseteq processed'
    <3>1. item[p] \in processed /\ item[p] \in Messages
      BY <1>1, <2>3 DEF Marking, LocalOK, Push, Goto, Control
    <3>2. window'[c] = Append(window[c], item[p]) /\ window[c] \in Seq(Messages)
      BY <1>1, <2>3 DEF SharedOK, Push
    <3>3. Elements(window'[c]) = Elements(window[c]) \cup {item[p]}
      BY <3>1, <3>2, ElementsOfAppend
    <3> QED
      BY <1>2, <3>1, <3>3 DEF Marking, MarkedFirst, Stored
  <2> QED
    BY <1>1, <2>1, <2>2, <2>3, WindowEffect DEF SharedOK, Push, Delete, Expire
<1>4. ASSUME NEW p \in Workers
      PROVE  Elements(held'[p]) \subseteq processed'
  <2>1. CASE Keeps(p)
    BY <1>2, <2>1 DEF Keeps, Marking, MarkedFirst
  <2>2. CASE Clears(p)
    BY <2>2 DEF Clears, Elements
  <2>3. CASE Reads(p)
    BY <1>2, <2>3 DEF Reads, Marking, MarkedFirst, Stored
  <2>4. CASE Fetches(p)
    BY <1>2, <2>4 DEF Fetches, Marking, MarkedFirst
  <2> QED
    BY <2>1, <2>2, <2>3, <2>4, HeldEffect
<1>5. \A i \in DOMAIN preprocessed' : Elements(preprocessed'[i].msgs) \subseteq processed'
  <2>1. ASSUME NEW p \in Workers, EmitPreprocessed(p)
        PROVE  \A i \in DOMAIN preprocessed' : Elements(preprocessed'[i].msgs) \subseteq processed'
    <3> DEFINE event == [win |-> win[p], chat |-> dest[p], msgs |-> held[p]]
    <3>1. event \in Analyses
      BY <1>1, <2>1 DEF LocalOK, EmitPreprocessed, Goto, Control, Analysing, Analyses
    <3>2. preprocessed' = Append(preprocessed, event) /\ event.msgs = held[p]
      BY <2>1 DEF EmitPreprocessed
    <3>3. Elements(event.msgs) \subseteq processed
      BY <3>2 DEF Marking, MarkedFirst
    <3> HIDE DEF event
    <3> QED
      BY <1>1, <1>2, <3>1, <3>2, <3>3, AppendProperties DEF SharedOK, Marking, MarkedFirst
  <2> QED
    BY <1>2, <2>1, OutputEffect DEF Marking, MarkedFirst
<1>6. \A k \in DOMAIN commands' : Elements(commands'[k].msgs) \subseteq processed'
  <2>1. ASSUME NEW p \in Workers, EmitCommand(p)
        PROVE  \A k \in DOMAIN commands' : Elements(commands'[k].msgs) \subseteq processed'
    <3>1. PICK list \in NormalForms(held[p]) :
            commands' = Append(commands, [win |-> win[p], chat |-> dest[p], msgs |-> list])
      BY <2>1 DEF EmitCommand
    <3> DEFINE cmd == [win |-> win[p], chat |-> dest[p], msgs |-> list]
    <3>2. list \in Seq(Messages) /\ Elements(list) \subseteq Elements(held[p])
      BY <1>1, NormalFormType DEF LocalOK
    <3>3. cmd \in Analyses /\ cmd.msgs = list
      BY <1>1, <2>1, <3>2 DEF LocalOK, EmitCommand, Control, Analysing, Analyses
    <3>4. Elements(cmd.msgs) \subseteq processed
      BY <3>2, <3>3 DEF Marking, MarkedFirst
    <3> HIDE DEF cmd
    <3>5. commands' = Append(commands, cmd)
      BY <3>1 DEF cmd
    <3> QED
      BY <1>1, <1>2, <3>3, <3>4, <3>5, AppendProperties DEF SharedOK, Marking, MarkedFirst
  <2> QED
    BY <1>2, <2>1, OutputEffect DEF Marking, MarkedFirst
<1>7. \A r \in rows' : Elements(r.msgs) \subseteq processed'
  <2>1. CASE Project
    <3> DEFINE cmd == commands[applied + 1]
    <3>1. applied + 1 \in DOMAIN commands
      BY <1>1, <2>1 DEF SharedOK, Project
    <3>2. Elements(cmd.msgs) \subseteq processed'
      BY <1>2, <3>1 DEF Marking, MarkedFirst
    <3>3. ASSUME NEW r \in rows
          PROVE  /\ Elements(r.msgs) \subseteq processed'
                 /\ [r EXCEPT !.msgs = cmd.msgs].msgs = cmd.msgs
      BY <1>1, <1>2 DEF Marking, MarkedFirst, SharedOK, Analyses
    <3>4. ASSUME NEW r \in rows'
          PROVE  \/ r \in rows
                 \/ r.msgs = cmd.msgs
      <4>1. \/ r \in rows
            \/ r = cmd
            \/ \E old \in rows : r = [old EXCEPT !.msgs = cmd.msgs]
        BY <2>1 DEF Project
      <4>2. ASSUME NEW old \in rows, r = [old EXCEPT !.msgs = cmd.msgs]
            PROVE  r.msgs = cmd.msgs
        BY <3>3, <4>2
      <4> QED
        BY <4>1, <4>2
    <3> HIDE DEF cmd
    <3> QED
      BY <3>2, <3>3, <3>4
  <2> QED
    BY <1>2, <2>1, RowsEffect DEF Marking, MarkedFirst
<1> QED
  BY <1>3, <1>4, <1>5, <1>6, <1>7, InHandMarked DEF Marking, MarkedFirst

-----------------------------------------------------------------------------
(***************************************************************************)
(* Streams only grow.                                                      *)
(***************************************************************************)
Event(p) == [win |-> win[p], chat |-> dest[p], msgs |-> held[p]]

Command(p, list) == [win |-> win[p], chat |-> dest[p], msgs |-> list]

LEMMA AppendGrows ==
  ASSUME NEW S, NEW s \in Seq(S), NEW e \in S
  PROVE  /\ \A i \in DOMAIN s : i \in DOMAIN Append(s, e) /\ Append(s, e)[i] = s[i]
         /\ Len(s) + 1 \in DOMAIN Append(s, e) /\ Append(s, e)[Len(s) + 1] = e
  BY AppendProperties, LenProperties

LEMMA CommandsEffect ==
  ASSUME TypeInv, [Next]_vars
  PROVE  /\ \A k \in DOMAIN commands : k \in DOMAIN commands' /\ commands'[k] = commands[k]
         /\ \A k \in DOMAIN commands' :
              \/ k \in DOMAIN commands /\ commands'[k] = commands[k]
              \/ \E p \in Workers : /\ EmitCommand(p)
                                    /\ \E list \in NormalForms(held[p]) :
                                         commands'[k] = Command(p, list)
<1>1. SharedOK /\ LocalOK
  BY TypeInvParts
<1>2. CASE commands' = commands
  BY <1>2
<1>3. ASSUME NEW p \in Workers, EmitCommand(p)
      PROVE  /\ \A k \in DOMAIN commands : k \in DOMAIN commands' /\ commands'[k] = commands[k]
             /\ \A k \in DOMAIN commands' :
                  \/ k \in DOMAIN commands /\ commands'[k] = commands[k]
                  \/ \E list \in NormalForms(held[p]) : commands'[k] = Command(p, list)
  <2>1. PICK list \in NormalForms(held[p]) : commands' = Append(commands, Command(p, list))
    BY <1>3 DEF EmitCommand, Command
  <2>2. list \in Seq(Messages)
    BY <1>1, NormalFormType DEF LocalOK
  <2>3. Command(p, list) \in Analyses
    BY <1>1, <1>3, <2>2 DEF LocalOK, EmitCommand, Control, Analysing, Analyses, Command
  <2> QED
    BY <1>1, <2>1, <2>3, AppendProperties DEF SharedOK
<1> QED
  BY <1>2, <1>3, OutputEffect

LEMMA PreprocessedEffect ==
  ASSUME TypeInv, [Next]_vars
  PROVE  /\ \A i \in DOMAIN preprocessed :
              i \in DOMAIN preprocessed' /\ preprocessed'[i] = preprocessed[i]
         /\ \A p \in Workers : EmitPreprocessed(p) =>
              \E i \in DOMAIN preprocessed' : preprocessed'[i] = Event(p)
<1>1. SharedOK /\ LocalOK
  BY TypeInvParts
<1>2. ASSUME NEW p \in Workers, EmitPreprocessed(p)
      PROVE  /\ \A i \in DOMAIN preprocessed :
                  i \in DOMAIN preprocessed' /\ preprocessed'[i] = preprocessed[i]
             /\ \E i \in DOMAIN preprocessed' : preprocessed'[i] = Event(p)
  <2>1. preprocessed' = Append(preprocessed, Event(p))
    BY <1>2 DEF EmitPreprocessed, Event
  <2>2. Event(p) \in Analyses
    BY <1>1, <1>2 DEF LocalOK, EmitPreprocessed, Goto, Control, Analysing, Analyses, Event
  <2>3. preprocessed \in Seq(Analyses)
    BY <1>1 DEF SharedOK
  <2>4. /\ \A i \in DOMAIN preprocessed :
             /\ i \in DOMAIN Append(preprocessed, Event(p))
             /\ Append(preprocessed, Event(p))[i] = preprocessed[i]
        /\ Len(preprocessed) + 1 \in DOMAIN Append(preprocessed, Event(p))
        /\ Append(preprocessed, Event(p))[Len(preprocessed) + 1] = Event(p)
    BY <2>2, <2>3, AppendGrows
  <2> QED
    BY <2>1, <2>4, Zenon
<1> QED
  BY <1>2, OutputEffect

LEMMA CompletedEffect ==
  ASSUME TypeInv, [Next]_vars
  PROVE  /\ \A i \in DOMAIN completed : i \in DOMAIN completed' /\ completed'[i] = completed[i]
         /\ \A p \in Workers : EmitCompleted(p) =>
              \E i \in DOMAIN completed' : completed'[i] = win[p]
<1>1. SharedOK /\ LocalOK
  BY TypeInvParts
<1>2. ASSUME NEW p \in Workers, EmitCompleted(p)
      PROVE  /\ \A i \in DOMAIN completed : i \in DOMAIN completed' /\ completed'[i] = completed[i]
             /\ \E i \in DOMAIN completed' : completed'[i] = win[p]
  <2>1. completed' = Append(completed, win[p])
    BY <1>2 DEF EmitCompleted
  <2>2. win[p] \in Nat
    BY <1>1 DEF LocalOK
  <2>3. completed \in Seq(Nat)
    BY <1>1 DEF SharedOK
  <2>4. /\ \A i \in DOMAIN completed :
             /\ i \in DOMAIN Append(completed, win[p])
             /\ Append(completed, win[p])[i] = completed[i]
        /\ Len(completed) + 1 \in DOMAIN Append(completed, win[p])
        /\ Append(completed, win[p])[Len(completed) + 1] = win[p]
    BY <2>2, <2>3, AppendGrows
  <2> QED
    BY <2>1, <2>4, Zenon
<1> QED
  BY <1>2, OutputEffect

-----------------------------------------------------------------------------
(***************************************************************************)
(* Window ids.                                                             *)
(***************************************************************************)
LEMMA NextWinGrows ==
  ASSUME TypeInv, [Next]_vars
  PROVE  nextWin \in Nat \ {0} /\ nextWin' \in Nat \ {0} /\ nextWin <= nextWin'
<1>1. SharedOK /\ SharedOK'
  BY TypeInvParts, TypeStep DEF TypeInv, TypeOK, SharedOK
<1>2. nextWin' = nextWin \/ nextWin' = nextWin + 1
  BY NextWinEffect DEF Flush
<1> QED
  BY <1>1, <1>2 DEF SharedOK

LEMMA CommandType ==
  ASSUME SharedOK, NEW k \in DOMAIN commands
  PROVE  commands[k] \in Analyses
  BY DEF SharedOK

\* A row's window is the window of a command.
LEMMA FetchedWindow ==
  ASSUME Reprocessing, NEW p \in Workers, Fetches(p)
  PROVE  \E k \in DOMAIN commands : win'[p] = commands[k].win
  BY DEF Reprocessing, Fetches

LEMMA FreshStep ==
  ASSUME TypeInv, Fresh, Reprocessing, [Next]_vars
  PROVE  Fresh'
<1>1. SharedOK /\ LocalOK
  BY TypeInvParts
<1>2. nextWin \in Nat \ {0} /\ nextWin' \in Nat \ {0} /\ nextWin <= nextWin'
  BY NextWinGrows
<1>3. /\ \A p \in Workers : win[p] \in Nat
      /\ \A k \in DOMAIN commands : commands[k].win \in Nat
  BY <1>1, CommandType DEF LocalOK, Analyses
<1>4. ASSUME NEW p \in Workers
      PROVE  win'[p] < nextWin'
  <2>1. CASE Keeps(p)
    BY <1>2, <1>3, <2>1 DEF Keeps, Fresh
  <2>2. CASE Clears(p)
    BY <1>2, <2>2 DEF Clears
  <2>3. CASE Reads(p)
    BY <1>1, <1>2, <2>3 DEF Reads, LocalOK
  <2>4. CASE Fetches(p)
    BY <1>2, <1>3, <2>4, FetchedWindow DEF Fresh
  <2> QED
    BY <2>1, <2>2, <2>3, <2>4, HeldEffect
<1>5. ASSUME NEW k \in DOMAIN commands'
      PROVE  commands'[k].win < nextWin'
  <2>1. CASE k \in DOMAIN commands /\ commands'[k] = commands[k]
    BY <1>2, <1>3, <2>1 DEF Fresh
  <2>2. ASSUME NEW p \in Workers, NEW list, commands'[k] = Command(p, list)
        PROVE  commands'[k].win < nextWin'
    BY <1>2, <1>3, <2>2 DEF Fresh, Command
  <2> QED
    BY <2>1, <2>2, CommandsEffect
<1> QED
  BY <1>4, <1>5 DEF Fresh

\* The window id a worker flushes under is its own until the command is out.
LEMMA OwnedStep ==
  ASSUME TypeInv, Fresh, Owned, Reprocessing, [Next]_vars
  PROVE  Owned'
<1>1. SharedOK /\ LocalOK
  BY TypeInvParts
<1>2. nextWin \in Nat \ {0} /\ nextWin' \in Nat \ {0} /\ nextWin <= nextWin'
  BY NextWinGrows
<1>3. /\ \A p \in Workers : win[p] \in Nat
      /\ \A k \in DOMAIN commands : commands[k].win \in Nat
  BY <1>1, CommandType DEF LocalOK, Analyses
<1> SUFFICES ASSUME NEW p \in Workers, Owning(p)'
             PROVE  /\ win'[p] # 0
                    /\ \A k \in DOMAIN commands' : commands'[k].win # win'[p]
                    /\ \A q \in Workers \ {p} : win'[q] # win'[p]
  BY DEF Owned
<1>4. CASE Keeps(p)
  <2>1. Owning(p) /\ win'[p] = win[p]
    BY <1>4 DEF Keeps
  <2>2. ASSUME NEW k \in DOMAIN commands'
        PROVE  commands'[k].win # win'[p]
    <3>1. CASE k \in DOMAIN commands /\ commands'[k] = commands[k]
      BY <2>1, <3>1 DEF Owned
    <3>2. ASSUME NEW q \in Workers, NEW list, EmitCommand(q), commands'[k] = Command(q, list)
          PROVE  commands'[k].win # win'[p]
      <4>1. q # p
        BY <1>1, <3>2 DEF LocalOK, EmitCommand, Return, Owning, Analysing
      <4> QED
        BY <2>1, <3>2, <4>1 DEF Owned, Command
    <3> QED
      BY <3>1, <3>2, CommandsEffect
  <2>3. ASSUME NEW q \in Workers \ {p}
        PROVE  win'[q] # win'[p]
    <3>1. CASE Keeps(q)
      BY <2>1, <3>1 DEF Keeps, Owned
    <3>2. CASE Clears(q)
      BY <2>1, <3>2 DEF Clears, Owned
    <3>3. CASE Reads(q)
      BY <1>1, <1>2, <1>3, <2>1, <3>3 DEF Reads, LocalOK, Fresh
    <3>4. CASE Fetches(q)
      BY <2>1, <3>4, FetchedWindow DEF Owned
    <3> QED
      BY <3>1, <3>2, <3>3, <3>4, HeldEffect
  <2> QED
    BY <2>1, <2>2, <2>3 DEF Owned
<1>5. CASE Reads(p)
  <2>1. commands' = commands
    BY <1>5 DEF Reads, Flush, output
  <2>2. win'[p] = nextWin /\ \A q \in Workers \ {p} : win'[q] = win[q]
    BY <1>1, <1>5 DEF Reads, LocalOK
  <2> QED
    BY <1>2, <1>3, <2>1, <2>2 DEF Fresh
<1> QED
  BY <1>4, <1>5, HeldEffect DEF Clears, Fetches

-----------------------------------------------------------------------------
(***************************************************************************)
(* What is analysed again is what was analysed before.                     *)
(***************************************************************************)
LEMMA ContentStep ==
  ASSUME TypeInv, Owned, Reprocessing, WindowContentStable, [Next]_vars
  PROVE  WindowContentStable'
<1>1. SharedOK /\ LocalOK
  BY TypeInvParts
<1>2. ASSUME NEW p \in Workers, EmitCommand(p), NEW list \in NormalForms(held[p]),
             NEW l \in DOMAIN commands, commands[l].win = win[p]
      PROVE  commands[l].chat = dest[p] /\ Elements(commands[l].msgs) = Elements(list)
  <2>1. Repeats(p)
    BY <1>1, <1>2 DEF Owned, Owning, Analysing, Reprocessing, EmitCommand
  <2>2. PICK k \in DOMAIN commands :
          /\ commands[k].win = win[p]
          /\ commands[k].chat = dest[p]
          /\ commands[k].msgs = held[p]
          /\ Kept(held[p]) = Elements(held[p])
    BY <2>1 DEF Repeats
  <2>3. Elements(list) = Elements(held[p])
    BY <1>1, <2>2, NormalFormType DEF LocalOK
  <2> QED
    BY <1>2, <2>2, <2>3 DEF WindowContentStable
<1>3. ASSUME NEW k \in DOMAIN commands', NEW l \in DOMAIN commands',
             commands'[k].win = commands'[l].win
      PROVE  /\ commands'[k].chat = commands'[l].chat
             /\ Elements(commands'[k].msgs) = Elements(commands'[l].msgs)
  <2> DEFINE Old(n) == n \in DOMAIN commands /\ commands'[n] = commands[n]
             New(n) == \E p \in Workers : /\ EmitCommand(p)
                                          /\ \E list \in NormalForms(held[p]) :
                                               commands'[n] = Command(p, list)
  <2>1. (Old(k) \/ New(k)) /\ (Old(l) \/ New(l))
    BY CommandsEffect
  <2>2. CASE Old(k) /\ Old(l)
    BY <1>3, <2>2 DEF WindowContentStable
  <2>3. CASE Old(k) /\ New(l)
    BY <1>2, <1>3, <2>3 DEF Command
  <2>4. CASE New(k) /\ Old(l)
    BY <1>2, <1>3, <2>4 DEF Command
  <2>5. CASE ~ Old(k) /\ ~ Old(l)
    <3>1. k = Len(commands) + 1 /\ l = Len(commands) + 1
      <4>1. PICK p \in Workers : EmitCommand(p)
        BY <2>1, <2>5
      <4>2. PICK list \in NormalForms(held[p]) : commands' = Append(commands, Command(p, list))
        BY <4>1 DEF EmitCommand, Command
      <4>3. Command(p, list) \in Analyses
        BY <1>1, <4>1, NormalFormType DEF LocalOK, EmitCommand, Control, Analysing, Analyses,
           Command
      <4> QED
        BY <1>1, <1>3, <2>5, <4>2, <4>3, AppendProperties, LenProperties DEF SharedOK
    <3> QED
      BY <3>1
  <2> QED
    BY <2>1, <2>2, <2>3, <2>4, <2>5
<1> QED
  BY <1>3 DEF WindowContentStable

LEMMA ReprocessingStep ==
  ASSUME TypeInv, Reprocessing, WindowContentStable, [Next]_vars
  PROVE  Reprocessing'
<1>1. SharedOK /\ LocalOK
  BY TypeInvParts
<1>2. \A k \in DOMAIN commands : k \in DOMAIN commands' /\ commands'[k] = commands[k]
  BY CommandsEffect
<1>3. ASSUME NEW p \in Workers, why'[p] = "reprocess"
      PROVE  Repeats(p)'
  <2>1. CASE Keeps(p)
    <3>1. PICK k \in DOMAIN commands :
            /\ commands[k].win = win[p]
            /\ commands[k].chat = dest[p]
            /\ commands[k].msgs = held[p]
            /\ Kept(held[p]) = Elements(held[p])
      BY <1>3, <2>1 DEF Keeps, Reprocessing, Repeats
    <3> QED
      BY <1>2, <2>1, <3>1 DEF Keeps, Repeats
  <2>2. CASE Fetches(p)
    <3>1. PICK r \in rows : held'[p] = r.msgs /\ dest'[p] = r.chat /\ win'[p] = r.win
      BY <2>2 DEF Fetches
    <3>2. PICK k \in DOMAIN commands : commands[k] = r
      BY DEF Reprocessing
    <3>3. Kept(r.msgs) = Elements(r.msgs)
      BY <3>2 DEF Reprocessing
    <3> QED
      BY <1>2, <3>1, <3>2, <3>3 DEF Repeats
  <2> QED
    BY <1>3, <2>1, <2>2, HeldEffect DEF Clears, Reads
<1>4. ASSUME NEW r \in rows'
      PROVE  \E k \in DOMAIN commands' : commands'[k] = r
  <2>1. CASE r \in rows
    BY <1>2, <2>1 DEF Reprocessing
  <2>2. CASE Project /\ r \notin rows
    <3> DEFINE cmd == commands[applied + 1]
    <3>1. applied + 1 \in DOMAIN commands /\ cmd \in Analyses
      BY <1>1, <2>2 DEF SharedOK, Project
    <3>2. \/ r = cmd
          \/ \E old \in rows : old.win = cmd.win /\ r = [old EXCEPT !.msgs = cmd.msgs]
      BY <2>2 DEF Project
    <3>3. ASSUME NEW old \in rows, old.win = cmd.win, r = [old EXCEPT !.msgs = cmd.msgs]
          PROVE  r = cmd
      <4>1. PICK k \in DOMAIN commands : commands[k] = old
        BY DEF Reprocessing
      <4>2. old.chat = cmd.chat /\ old \in Analyses
        BY <1>1, <3>1, <3>3, <4>1, CommandType DEF WindowContentStable
      <4> HIDE DEF cmd
      <4> QED
        BY <3>1, <3>3, <4>2 DEF Analyses
    <3> QED
      BY <1>2, <3>1, <3>2, <3>3
  <2> QED
    BY <2>1, <2>2, RowsEffect
<1>5. ASSUME NEW k \in DOMAIN commands'
      PROVE  Kept(commands'[k].msgs) = Elements(commands'[k].msgs)
  <2>1. CASE k \in DOMAIN commands /\ commands'[k] = commands[k]
    BY <2>1 DEF Reprocessing
  <2>2. ASSUME NEW p \in Workers, NEW list \in NormalForms(held[p]),
               commands'[k] = Command(p, list)
        PROVE  Kept(commands'[k].msgs) = Elements(commands'[k].msgs)
    <3>1. Kept(list) = Elements(list)
      BY <1>1, KeptOfNormalForm DEF LocalOK
    <3>2. commands'[k].msgs = list
      BY <2>2 DEF Command
    <3> QED
      BY <3>1, <3>2
  <2> QED
    BY <2>1, <2>2, CommandsEffect
<1> QED
  BY <1>3, <1>4, <1>5 DEF Reprocessing

-----------------------------------------------------------------------------
(***************************************************************************)
(* A command has the earlier events of its analysis behind it.             *)
(***************************************************************************)

\* A worker is past an emission only by that emission, of what it still holds.
LEMMA EmittingEffect ==
  ASSUME TypeInv, [Next]_vars, NEW p \in Workers
  PROVE  /\ pc'[p] \in {"completed", "signals", "command"} =>
              /\ win'[p] = win[p] /\ dest'[p] = dest[p] /\ held'[p] = held[p]
              /\ EmitPreprocessed(p) \/ pc[p] \in {"completed", "signals", "command"}
         /\ pc'[p] \in {"signals", "command"} =>
              EmitCompleted(p) \/ pc[p] \in {"signals", "command"}
<1> USE LiveIsWorker
<1> USE DEF input, group, output, projector, queue, analysis
<1>1. LocalOK
  BY TypeInvParts
<1>2. CASE Same(p)
  BY <1>2 DEF Same
<1>3. CASE HandleMessage(p)
  BY <1>1, <1>3 DEF LocalOK, HandleMessage, CheckMessage, MarkMessage, Load, Push, Measure,
     Goto, Return
<1>4. CASE Loops(p)
  BY <1>1, <1>4 DEF LocalOK, Loops, Start, Fetch, Take, Ack, Cancel, StartBackfill, Replay,
     FlushResidual, EndBackfill, Error, Crash, Goto, Return
<1>5. CASE Reprocesses(p)
  BY <1>1, <1>5 DEF LocalOK, Reprocesses, CheckCommand, MarkCommand, Return
<1>6. CASE Analyse(p)
  BY <1>1, <1>6 DEF LocalOK, Analyse, Flush, EmitPreprocessed, EmitCompleted, EmitSignal,
     EmitCommand, Delete, AfterFlush, Goto, Return
<1> QED
  BY <1>2, <1>3, <1>4, <1>5, <1>6, Locality

LEMMA BackingStep ==
  ASSUME TypeInv, Backing, [Next]_vars
  PROVE  Backing'
<1>1. \A i \in DOMAIN preprocessed : i \in DOMAIN preprocessed' /\ preprocessed'[i] = preprocessed[i]
  BY PreprocessedEffect
<1>2. \A i \in DOMAIN completed : i \in DOMAIN completed' /\ completed'[i] = completed[i]
  BY CompletedEffect
<1>3. ASSUME NEW p \in Workers
      PROVE  Emitting(p)'
  <2>1. ASSUME pc'[p] \in {"completed", "signals", "command"}
        PROVE  \E i \in DOMAIN preprocessed' :
                 preprocessed'[i] = [win |-> win'[p], chat |-> dest'[p], msgs |-> held'[p]]
    <3>1. win'[p] = win[p] /\ dest'[p] = dest[p] /\ held'[p] = held[p]
      BY <2>1, EmittingEffect
    <3>2. CASE EmitPreprocessed(p)
      BY <3>1, <3>2, PreprocessedEffect DEF Event
    <3>3. CASE pc[p] \in {"completed", "signals", "command"}
      BY <1>1, <3>1, <3>3 DEF Backing, Emitting
    <3> QED
      BY <2>1, <3>2, <3>3, EmittingEffect
  <2>2. ASSUME pc'[p] \in {"signals", "command"}
        PROVE  \E i \in DOMAIN completed' : completed'[i] = win'[p]
    <3>1. win'[p] = win[p]
      BY <2>2, EmittingEffect
    <3>2. CASE EmitCompleted(p)
      BY <3>1, <3>2, CompletedEffect
    <3>3. CASE pc[p] \in {"signals", "command"}
      BY <1>2, <3>1, <3>3 DEF Backing, Emitting
    <3> QED
      BY <2>2, <3>2, <3>3, EmittingEffect
  <2> QED
    BY <2>1, <2>2 DEF Emitting
<1>4. ASSUME NEW k \in DOMAIN commands'
      PROVE  /\ \E i \in DOMAIN preprocessed' :
                  /\ preprocessed'[i].win = commands'[k].win
                  /\ preprocessed'[i].chat = commands'[k].chat
                  /\ commands'[k].msgs \in NormalForms(preprocessed'[i].msgs)
             /\ \E i \in DOMAIN completed' : completed'[i] = commands'[k].win
  <2>1. CASE k \in DOMAIN commands /\ commands'[k] = commands[k]
    BY <1>1, <1>2, <2>1 DEF Backing, CommandBacked
  <2>2. ASSUME NEW p \in Workers, EmitCommand(p), NEW list \in NormalForms(held[p]),
               commands'[k] = Command(p, list)
        PROVE  /\ \E i \in DOMAIN preprocessed' :
                    /\ preprocessed'[i].win = commands'[k].win
                    /\ preprocessed'[i].chat = commands'[k].chat
                    /\ commands'[k].msgs \in NormalForms(preprocessed'[i].msgs)
               /\ \E i \in DOMAIN completed' : completed'[i] = commands'[k].win
    <3>1. pc[p] = "command"
      BY <2>2 DEF EmitCommand
    <3>2. PICK i \in DOMAIN preprocessed : preprocessed[i] = Event(p)
      BY <3>1 DEF Backing, Emitting, Event
    <3>3. PICK j \in DOMAIN completed : completed[j] = win[p]
      BY <3>1 DEF Backing, Emitting
    <3>4. /\ Event(p).win = win[p] /\ Event(p).chat = dest[p] /\ Event(p).msgs = held[p]
          /\ commands'[k].win = win[p] /\ commands'[k].chat = dest[p]
          /\ commands'[k].msgs = list
      BY <2>2 DEF Event, Command
    <3>5. i \in DOMAIN preprocessed' /\ preprocessed'[i] = Event(p)
      BY <1>1, <3>2
    <3>6. j \in DOMAIN completed' /\ completed'[j] = win[p]
      BY <1>2, <3>3
    <3> QED
      BY <3>4, <3>5, <3>6
  <2> QED
    BY <2>1, <2>2, CommandsEffect
<1> QED
  BY <1>3, <1>4 DEF Backing, CommandBacked

-----------------------------------------------------------------------------
(***************************************************************************)
(* The theorems.                                                           *)
(***************************************************************************)
LEMMA InvInit == Init => Inv
<1> SUFFICES ASSUME Init  PROVE  Inv
  OBVIOUS
<1>1. TypeInv
  BY TypeInit
<1>2. /\ \A p \in Workers : pc[p] = "off" /\ why[p] = "none" /\ held[p] = <<>> /\ win[p] = 0
      /\ \A c \in Chats : window[c] = <<>>
      /\ preprocessed = <<>> /\ commands = <<>> /\ rows = {} /\ nextWin = 1
  BY DEF Init
<1>3. Marking
  BY <1>2 DEF Marking, MarkedFirst, Stored, Elements
<1>4. Fresh /\ Owned /\ Reprocessing /\ WindowContentStable /\ Backing
  BY <1>2 DEF Fresh, Owned, Owning, Analysing, Reprocessing, WindowContentStable, Backing,
     CommandBacked, Emitting
<1> QED
  BY <1>1, <1>3, <1>4 DEF Inv

LEMMA InvStep == Inv /\ [Next]_vars => Inv'
<1> SUFFICES ASSUME Inv, [Next]_vars  PROVE  Inv'
  OBVIOUS
<1>1. /\ TypeInv /\ Marking /\ Fresh /\ Owned
      /\ Reprocessing /\ WindowContentStable /\ Backing
  BY DEF Inv
<1> QED
  BY <1>1, TypeStep, MarkingStep, FreshStep, OwnedStep, ReprocessingStep, ContentStep,
     BackingStep DEF Inv

\* Inv holds in every reachable state, for any number of backfills, commands
\* and faults.
THEOREM Invariance == Spec => []Inv
  BY InvInit, InvStep, PTL DEF Spec

\* No payload is anywhere in the orchestrator, on its streams or in Postgres
\* before its event is in processed_event, with any number of concurrent
\* backfills, errors, crashes and evictions.
THEOREM MarkedFirstHolds == Spec => []MarkedFirst
<1>1. Inv => MarkedFirst
  BY DEF Inv, Marking
<1> QED
  BY <1>1, Invariance, PTL

\* Every projection command has the preprocessed and analysis_completed events
\* of its window before it, and normalises the list of the former.
THEOREM CommandBackedHolds == Spec => []CommandBacked
<1>1. Inv => CommandBacked
  BY DEF Inv, Backing
<1> QED
  BY <1>1, Invariance, PTL

\* All commands for one window carry the same messages of the same chat, so a
\* reprocess never changes what a window is made of.
THEOREM WindowContentStableHolds == Spec => []WindowContentStable
<1>1. Inv => WindowContentStable
  BY DEF Inv
<1> QED
  BY <1>1, Invariance, PTL

-----------------------------------------------------------------------------
(***************************************************************************)
(* What holds when the consumer and the script take turns; and, when       *)
(* nothing fails either, that Orchestrator implements Batcher.             *)
(***************************************************************************)

\* Where a handler's step leaves its worker about to push.
LEMMA PushingEffect ==
  ASSUME TypeInv, Pushing, [Next]_vars, NEW p \in Workers, pc'[p] = "push"
  PROVE  \/ Same(p) /\ pc[p] = "push"
         \/ /\ pc[p] # "push" /\ dest'[p] = dest[p]
            /\ LET list == window'[dest[p]]
               IN  list = <<>> \/ ~ NeedsRollover(list[Len(list)], item'[p])
<1> USE LiveIsWorker
<1> USE DEF input, group, output, projector, queue, analysis
<1>1. LocalOK /\ SharedOK
  BY TypeInvParts
<1>2. CASE HandleMessage(p)
  <2>1. Load(p)
    BY <1>1, <1>2 DEF LocalOK, HandleMessage, CheckMessage, MarkMessage, Load, Push, Measure,
       Goto, Return
  <2> QED
    BY <1>1, <2>1 DEF LocalOK, Load, ReadWindow
<1>3. CASE Loops(p)
  <2>1. CASE Fetch
    BY <2>1 DEF Fetch, Same
  <2>2. CASE ~ Fetch
    BY <1>1, <1>3, <2>2 DEF LocalOK, Loops, Start, Take, Ack, Cancel, StartBackfill, Replay,
       FlushResidual, EndBackfill, Error, Crash, Goto, Return
  <2> QED
    BY <2>1, <2>2
<1>4. CASE Reprocesses(p)
  BY <1>1, <1>4 DEF LocalOK, Reprocesses, CheckCommand, MarkCommand, Return
<1>5. CASE Analyse(p)
  <2>1. CASE Flush(p)
    <3>1. pc[p] = "flush" /\ ReadWindow(dest[p]) = <<>> /\ window' = window /\ AfterFlush(p)
      BY <1>1, <2>1 DEF LocalOK, Flush
    <3>2. dest'[p] = dest[p]
      BY <1>1, <3>1 DEF LocalOK, AfterFlush, Return
    <3> QED
      BY <3>1, <3>2 DEF ReadWindow
  <2>2. CASE Delete(p)
    <3>1. pc[p] = "delete" /\ window' = [window EXCEPT ![dest[p]] = <<>>] /\ AfterFlush(p)
      BY <2>2 DEF Delete
    <3>2. dest[p] \in Chats /\ dest'[p] = dest[p]
      BY <1>1, <3>1 DEF LocalOK, AfterFlush, Return, Control
    <3>3. window'[dest[p]] = <<>>
      BY <1>1, <3>1, <3>2 DEF SharedOK
    <3> QED
      BY <3>1, <3>2, <3>3
  <2>3. CASE EmitPreprocessed(p) \/ EmitCompleted(p) \/ EmitSignal(p) \/ EmitCommand(p)
    BY <1>1, <2>3 DEF LocalOK, EmitPreprocessed, EmitCompleted, EmitSignal, EmitCommand, Goto,
       Return
  <2> QED
    BY <1>5, <2>1, <2>2, <2>3 DEF Analyse
<1>6. CASE Same(p)
  BY <1>6 DEF Same
<1> QED
  BY <1>2, <1>3, <1>4, <1>5, <1>6, Locality

LEMMA PushingStep ==
  ASSUME TypeInv, Pushing, Alone, [Next]_vars
  PROVE  Pushing'
<1>1. LocalOK /\ SharedOK
  BY TypeInvParts
<1>2. ASSUME NEW p \in Workers, Same(p), pc[p] = "push"
      PROVE  LET list == window'[dest[p]]
             IN  list = <<>> \/ ~ NeedsRollover(list[Len(list)], item[p])
  <2>1. dest[p] \in Chats
    BY <1>1, <1>2 DEF LocalOK, Control
  <2>2. ASSUME NEW q \in Workers, Push(q) \/ Delete(q)
        PROVE  FALSE
    <3>1. q = p
      BY <1>2, <2>2 DEF Alone, Active, Push, Delete, Goto
    <3> QED
      BY <1>1, <1>2, <2>2, <3>1 DEF LocalOK, Push, Delete, Goto, Same
  <2>3. window'[dest[p]] = window[dest[p]] \/ window'[dest[p]] = <<>>
    BY <1>1, <2>1, <2>2, WindowEffect DEF SharedOK, Expire
  <2> QED
    BY <1>2, <2>3 DEF Pushing
<1>3. ASSUME NEW p \in Workers, pc'[p] = "push"
      PROVE  LET list == window'[dest'[p]]
             IN  list = <<>> \/ ~ NeedsRollover(list[Len(list)], item'[p])
  <2>1. CASE Same(p) /\ pc[p] = "push"
    BY <1>2, <2>1 DEF Same
  <2> QED
    BY <1>3, <2>1, PushingEffect
<1> QED
  BY <1>3 DEF Pushing

\* Neighbours in a list are less than the rollover gap apart.
Dense(list) == \A i \in 1..(Len(list) - 1) : At[list[i + 1]] < At[list[i]] + Gap

LEMMA DenseAppend ==
  ASSUME NEW list \in Seq(Messages), NEW m \in Messages, Dense(list),
         list = <<>> \/ ~ NeedsRollover(list[Len(list)], m)
  PROVE  Dense(Append(list, m))
<1>1. PICK longer, n : longer = Append(list, m) /\ n = Len(list)
  OBVIOUS
<1>2. /\ longer \in Seq(Messages) /\ n \in Nat /\ Len(longer) = n + 1 /\ longer[n + 1] = m
      /\ \A i \in 1..n : longer[i] = list[i] /\ list[i] \in Messages
  BY <1>1
<1> SUFFICES ASSUME NEW i \in 1..n
             PROVE  At[longer[i + 1]] < At[longer[i]] + Gap
  BY <1>1, <1>2 DEF Dense
<1>3. CASE i = n
  <2>1. list # <<>>
    BY <1>1, <1>2, <1>3
  <2>2. ~ (At[m] >= At[list[n]] + Gap)
    BY <1>1, <2>1 DEF NeedsRollover
  <2>3. At[m] \in Nat /\ At[list[n]] \in Nat /\ Gap \in Nat
    BY <1>2, <1>3, WindowOpsAssumption
  <2> QED
    BY <1>2, <1>3, <2>2, <2>3
<1>4. CASE i # n
  <2>1. i \in 1..(n - 1) /\ i + 1 \in 1..n
    BY <1>2, <1>4
  <2> QED
    BY <1>1, <1>2, <2>1 DEF Dense
<1> QED
  BY <1>3, <1>4

LEMMA GapStep ==
  ASSUME TypeInv, Pushing, NoGapInsideWindow, [Next]_vars
  PROVE  NoGapInsideWindow'
<1>1. LocalOK /\ SharedOK
  BY TypeInvParts
<1>2. ASSUME NEW c \in Chats
      PROVE  Dense(window'[c])
  <2>1. Dense(window[c])
    BY DEF NoGapInsideWindow, Dense
  <2>2. CASE window'[c] = <<>>
    BY <2>2 DEF Dense
  <2>3. ASSUME NEW p \in Workers, Push(p), dest[p] = c
        PROVE  Dense(window'[c])
    <3>1. pc[p] = "push" /\ item[p] \in Messages
      BY <1>1, <2>3 DEF Push, Goto, LocalOK, Control
    <3>2. window[c] \in Seq(Messages) /\ window'[c] = Append(window[c], item[p])
      BY <1>1, <2>3 DEF SharedOK, Push
    <3>3. window[c] = <<>> \/ ~ NeedsRollover(window[c][Len(window[c])], item[p])
      BY <2>3, <3>1 DEF Pushing
    <3> QED
      BY <2>1, <3>1, <3>2, <3>3, DenseAppend
  <2> QED
    BY <1>1, <2>1, <2>2, <2>3, WindowEffect DEF SharedOK, Push, Delete, Expire
<1> QED
  BY <1>2 DEF NoGapInsideWindow, Dense

\* With one worker at a time, neighbours in a list are less than the rollover
\* gap apart, whatever fails, is evicted or is delivered late in between: the
\* comparison needs_rollover makes with the end of the list still holds when the
\* message is pushed, one or several awaits later.
THEOREM NoGapInsideWindowHolds == Spec /\ []Alone => []NoGapInsideWindow
<1>1. Init => TypeInv /\ GapInv
  <2> SUFFICES ASSUME Init
               PROVE  Pushing /\ NoGapInsideWindow
    BY TypeInit DEF GapInv
  <2>1. /\ \A p \in Workers : pc[p] = "off"
        /\ \A c \in Chats : window[c] = <<>>
    BY DEF Init
  <2> QED
    BY <2>1 DEF Pushing, NoGapInsideWindow
<1>2. TypeInv /\ GapInv /\ Alone /\ [Next]_vars => (TypeInv /\ GapInv)'
  BY TypeStep, PushingStep, GapStep DEF GapInv
<1>3. GapInv => NoGapInsideWindow
  BY DEF GapInv
<1> QED
  BY <1>1, <1>2, <1>3, PTL DEF Spec

-----------------------------------------------------------------------------
(***************************************************************************)
(* Faults.                                                                 *)
(***************************************************************************)
Uninterrupted ==
  /\ \A p \in Workers : ~ Error(p) /\ ~ Crash(p)
  /\ ~ Cancel /\ ~ LoseReply

LEMMA FaultsEffect ==
  ASSUME [Next]_vars, Uninterrupted
  PROVE  faults' = faults \/ \E c \in Chats : Expire(c)
<1> USE LiveIsWorker
<1> USE DEF input, group, output, projector, queue, analysis, vars
<1>1. CASE Consume
  BY <1>1 DEF Consume, Start, Fetch, Take, Ack, CheckCommand, MarkCommand, HandleMessage,
     CheckMessage, MarkMessage, Load, Push, Measure, Analyse, Flush, EmitPreprocessed,
     EmitCompleted, EmitSignal, EmitCommand, Delete
<1>2. ASSUME NEW b \in Backfills, Backfill(b)
      PROVE  faults' = faults
  BY <1>2 DEF Backfill, StartBackfill, Replay, FlushResidual, EndBackfill, HandleMessage,
     CheckMessage, MarkMessage, Load, Push, Measure, Analyse, Flush, EmitPreprocessed,
     EmitCompleted, EmitSignal, EmitCommand, Delete
<1> QED
  BY <1>1, <1>2 DEF Next, Uninterrupted, Ingest, Request, Project

LEMMA FaultCounts ==
  ASSUME TypeInv
  PROVE  Interruptions \in Nat /\ faults["expiry"] \in Nat /\ WindowSize \in Nat \ {0}
  BY TypeInvParts, OrchestratorAssumption DEF SharedOK, FaultKinds, Interruptions

\* A fault is an interruption, which leaves the lists and the streams alone, or an
\* expiry, which leaves the workers alone.
LEMMA FaultKindsEffect ==
  ASSUME TypeInv, [Next]_vars
  PROVE  \/ /\ Uninterrupted /\ \A c \in Chats : ~ Expire(c)
            /\ Interruptions' = Interruptions /\ faults'["expiry"] = faults["expiry"]
         \/ /\ ~ Uninterrupted
            /\ Interruptions' = Interruptions + 1 /\ faults'["expiry"] = faults["expiry"]
            /\ UNCHANGED <<window, processed, output>>
         \/ /\ \E c \in Chats : Expire(c)
            /\ Uninterrupted
            /\ Interruptions' = Interruptions /\ faults'["expiry"] = faults["expiry"] + 1
<1>1. /\ faults \in [FaultKinds -> Nat]
      /\ "error" \in FaultKinds /\ "crash" \in FaultKinds /\ "expiry" \in FaultKinds
      /\ faults["error"] \in Nat /\ faults["crash"] \in Nat /\ faults["expiry"] \in Nat
  BY TypeInvParts DEF SharedOK, FaultKinds
<1>2. ASSUME NEW kind \in {"error", "crash"}, Strike(kind)
      PROVE  Interruptions' = Interruptions + 1 /\ faults'["expiry"] = faults["expiry"]
  BY <1>1, <1>2 DEF Strike, Interruptions
<1>3. ASSUME NEW c \in Chats, Expire(c)
      PROVE  Interruptions' = Interruptions /\ faults'["expiry"] = faults["expiry"] + 1
  BY <1>1, <1>3 DEF Strike, Interruptions, Expire
<1>4. CASE ~ Uninterrupted
  <2>1. (Strike("error") \/ Strike("crash")) /\ UNCHANGED <<window, processed, output>>
    BY <1>4 DEF Uninterrupted, Error, Crash, Cancel, LoseReply
  <2> QED
    BY <1>2, <1>4, <2>1
<1>5. CASE Uninterrupted /\ \E c \in Chats : Expire(c)
  BY <1>3, <1>5
<1>6. CASE Uninterrupted /\ ~ \E c \in Chats : Expire(c)
  BY <1>6, FaultsEffect DEF Interruptions
<1> QED
  BY <1>4, <1>5, <1>6

-----------------------------------------------------------------------------
(***************************************************************************)
(* From the mark of a message to its push.                                 *)
(***************************************************************************)
\* A marked message is in the hands of its handler until the push.
LEMMA MarkedEffect ==
  ASSUME TypeInv, [Next]_vars, NEW p \in Workers, Marked(p)'
  PROVE  /\ item'[p] = item[p] /\ dest'[p] = dest[p]
         /\ Marked(p) \/ MarkMessage(p)
<1> USE LiveIsWorker
<1> USE DEF input, group, output, projector, queue, analysis
<1>1. LocalOK
  BY TypeInvParts
<1>2. pc'[p] \in {"load", "push"} \/ why'[p] = "rollover"
  BY DEF Marked
<1>3. CASE HandleMessage(p)
  <2>1. CASE MarkMessage(p)
    BY <2>1 DEF MarkMessage
  <2>2. CASE Load(p)
    BY <2>2 DEF Load, Marked
  <2>3. CASE CheckMessage(p) \/ Push(p) \/ Measure(p)
    BY <1>1, <1>2, <2>3 DEF LocalOK, CheckMessage, Push, Measure, Goto, Return, Forget, Control
  <2> QED
    BY <1>3, <2>1, <2>2, <2>3 DEF HandleMessage
<1>4. CASE Analyse(p)
  <2>1. CASE Flush(p)
    BY <1>1, <1>2, <2>1 DEF LocalOK, Flush, AfterFlush, Return, Forget, Marked
  <2>2. CASE EmitPreprocessed(p) \/ EmitCompleted(p) \/ EmitSignal(p)
    BY <1>1, <1>2, <2>2 DEF LocalOK, EmitPreprocessed, EmitCompleted, EmitSignal, Goto, Marked
  <2>3. CASE EmitCommand(p)
    BY <1>1, <1>2, <2>3 DEF LocalOK, EmitCommand, Return, Forget, Marked
  <2>4. CASE Delete(p)
    BY <1>1, <1>2, <2>4 DEF LocalOK, Delete, AfterFlush, Return, Forget, Marked
  <2> QED
    BY <1>4, <2>1, <2>2, <2>3, <2>4 DEF Analyse
<1>5. CASE Loops(p)
  <2>1. CASE Fetch
    BY <2>1 DEF Fetch, Marked
  <2>2. CASE ~ Fetch
    BY <1>1, <1>2, <1>5, <2>2 DEF LocalOK, Loops, Start, Take, Ack, Cancel, StartBackfill,
       Replay, FlushResidual, EndBackfill, Error, Crash, Goto, Return, Forget, Control
  <2> QED
    BY <2>1, <2>2
<1>6. CASE Reprocesses(p)
  BY <1>1, <1>2, <1>6 DEF LocalOK, Reprocesses, CheckCommand, MarkCommand, Return, Forget,
     Control
<1>7. CASE Same(p)
  BY <1>2, <1>7 DEF Same, Marked
<1> QED
  BY <1>3, <1>4, <1>5, <1>6, <1>7, Locality

LEMMA MarkedStays ==
  ASSUME TypeInv, Uninterrupted, [Next]_vars, NEW p \in Workers, Marked(p)
  PROVE  Push(p) \/ (Marked(p)' /\ item'[p] = item[p])
<1> USE LiveIsWorker
<1> USE DEF input, group, output, projector, queue, analysis
<1>1. LocalOK
  BY TypeInvParts
<1>2. pc[p] \in {"load", "push"} \/ why[p] = "rollover"
  BY DEF Marked
<1>3. CASE HandleMessage(p)
  <2>1. CASE Load(p)
    BY <1>1, <2>1 DEF LocalOK, Load, Marked
  <2>2. CASE CheckMessage(p) \/ MarkMessage(p) \/ Measure(p)
    BY <1>1, <1>2, <2>2 DEF LocalOK, CheckMessage, MarkMessage, Measure, Goto, Control
  <2> QED
    BY <1>3, <2>1, <2>2 DEF HandleMessage
<1>4. CASE Analyse(p)
  <2>1. CASE Flush(p)
    BY <1>1, <1>2, <2>1 DEF LocalOK, Flush, AfterFlush, Marked
  <2>2. CASE EmitPreprocessed(p) \/ EmitCompleted(p) \/ EmitSignal(p)
    BY <1>1, <1>2, <2>2 DEF LocalOK, EmitPreprocessed, EmitCompleted, EmitSignal, Goto, Marked
  <2>3. CASE EmitCommand(p)
    BY <1>1, <1>2, <2>3 DEF LocalOK, EmitCommand, Marked
  <2>4. CASE Delete(p)
    BY <1>1, <1>2, <2>4 DEF LocalOK, Delete, AfterFlush, Marked
  <2> QED
    BY <1>4, <2>1, <2>2, <2>3, <2>4 DEF Analyse
<1>5. CASE Loops(p)
  <2>1. CASE Fetch
    BY <2>1 DEF Fetch, Marked
  <2>2. CASE ~ Fetch
    BY <1>1, <1>2, <1>5, <2>2 DEF Uninterrupted, LocalOK, Loops, Start, Take, Ack, StartBackfill,
       Replay, FlushResidual, EndBackfill, Goto, Control
  <2> QED
    BY <2>1, <2>2
<1>6. CASE Reprocesses(p)
  BY <1>1, <1>2, <1>6 DEF LocalOK, Reprocesses, CheckCommand, MarkCommand, Control
<1>7. CASE Same(p)
  BY <1>2, <1>7 DEF Same, Marked
<1> QED
  BY <1>3, <1>4, <1>5, <1>6, <1>7, Locality

\* A message to be marked has just been found unmarked.
LEMMA MarksEffect ==
  ASSUME TypeInv, [Next]_vars, NEW p \in Workers, Marks(p)'
  PROVE  \/ Marks(p) /\ Same(p)
         \/ /\ pc[p] # "off" /\ item'[p] \notin processed' /\ processed' = processed
            /\ dest'[p] = Chat[item'[p]]
<1> USE LiveIsWorker
<1> USE DEF input, group, output, projector, queue, analysis
<1>1. LocalOK
  BY TypeInvParts
<1>2. pc'[p] = "mark" /\ item'[p] \in Messages
  BY DEF Marks
<1>3. CASE HandleMessage(p)
  <2>1. CheckMessage(p)
    BY <1>1, <1>2, <1>3 DEF LocalOK, HandleMessage, MarkMessage, Load, Push, Measure, Goto,
       Return
  <2>2. ~ IsProcessed(item[p])
    BY <1>1, <1>2, <2>1 DEF LocalOK, CheckMessage, Return
  <2> QED
    BY <1>1, <2>1, <2>2 DEF LocalOK, CheckMessage, IsProcessed
<1>4. CASE Analyse(p)
  BY <1>1, <1>2, <1>4 DEF LocalOK, Analyse, Flush, EmitPreprocessed, EmitCompleted,
     EmitSignal, EmitCommand, Delete, AfterFlush, Goto, Return
<1>5. CASE Loops(p)
  <2>1. CASE Fetch
    BY <1>2, <2>1 DEF Fetch, Same, Marks
  <2>2. CASE ~ Fetch
    BY <1>1, <1>2, <1>5, <2>2 DEF LocalOK, Loops, Start, Take, Ack, Cancel, StartBackfill,
       Replay, FlushResidual, EndBackfill, Error, Crash, Goto, Return
  <2> QED
    BY <2>1, <2>2
<1>6. CASE Reprocesses(p)
  BY <1>1, <1>2, <1>6, OrchestratorAssumption DEF LocalOK, Reprocesses, CheckCommand,
     MarkCommand, Return
<1>7. CASE Same(p)
  BY <1>2, <1>7 DEF Same, Marks
<1> QED
  BY <1>3, <1>4, <1>5, <1>6, <1>7, Locality

\* A list changes by a push of what its pusher holds, or it is emptied.
LEMMA StoredEffect ==
  ASSUME TypeInv, [Next]_vars, NEW c \in Chats, NEW m \in Stored(c)', m \notin Stored(c)
  PROVE  \E p \in Workers : Push(p) /\ Marked(p) /\ item[p] = m /\ dest[p] = c
<1>1. LocalOK /\ SharedOK
  BY TypeInvParts
<1>2. PICK p \in Workers : Push(p) /\ dest[p] = c
  <2>1. window'[c] # window[c] /\ window'[c] # <<>>
    BY DEF Stored, Elements
  <2> QED
    BY <1>1, <2>1, WindowEffect DEF SharedOK, Push, Delete, Expire
<1>3. pc[p] = "push" /\ item[p] \in Messages
  BY <1>1, <1>2 DEF Push, Goto, LocalOK, Control
<1>4. window[c] \in Seq(Messages) /\ window'[c] = Append(window[c], item[p])
  BY <1>1, <1>2 DEF SharedOK, Push
<1>5. Stored(c)' = Stored(c) \cup {item[p]}
  BY <1>3, <1>4, ElementsOfAppend DEF Stored
<1> QED
  BY <1>2, <1>3, <1>5 DEF Marked

-----------------------------------------------------------------------------
(***************************************************************************)
(* From the read of a window to its deletion.                              *)
(***************************************************************************)
LEMMA FlushingEffect ==
  ASSUME TypeInv, [Next]_vars, NEW p \in Workers, Flushing(p)'
  PROVE  \/ /\ Flushing(p) /\ ~ Push(p) /\ ~ Delete(p)
            /\ held'[p] = held[p] /\ win'[p] = win[p] /\ dest'[p] = dest[p]
         \/ Reads(p)
<1> USE LiveIsWorker
<1> USE DEF input, group, output, projector, queue, analysis
<1>1. LocalOK
  BY TypeInvParts
<1>2. ~ Push(p) /\ ~ Delete(p)
  BY <1>1 DEF LocalOK, Push, Delete, AfterFlush, Return, Forget, Goto, Flushing, Owning,
     Analysing
<1>3. CASE Owning(p)'
  BY <1>2, <1>3, HeldEffect DEF Keeps, Clears, Fetches, Flushing
<1>4. CASE pc'[p] = "delete"
  <2>1. CASE HandleMessage(p)
    BY <1>1, <1>4, <2>1 DEF LocalOK, HandleMessage, CheckMessage, MarkMessage, Load, Push,
       Measure, Goto, Return
  <2>2. CASE Analyse(p)
    <3>1. EmitCommand(p)
      BY <1>1, <1>4, <2>2 DEF LocalOK, Analyse, Flush, EmitPreprocessed, EmitCompleted,
         EmitSignal, Delete, AfterFlush, Goto, Return
    <3>2. pc[p] = "command" /\ why[p] # "reprocess" /\ UNCHANGED <<item, why, dest, held, win>>
      BY <1>1, <1>4, <3>1 DEF LocalOK, EmitCommand, Return
    <3> QED
      BY <1>2, <3>2 DEF Flushing, Owning, Analysing
  <2>3. CASE Loops(p)
    <3>1. CASE Fetch
      BY <1>2, <1>4, <3>1 DEF Fetch, Flushing
    <3>2. CASE ~ Fetch
      BY <1>1, <1>4, <2>3, <3>2 DEF LocalOK, Loops, Start, Take, Ack, Cancel, StartBackfill,
         Replay, FlushResidual, EndBackfill, Error, Crash, Goto, Return
    <3> QED
      BY <3>1, <3>2
  <2>4. CASE Reprocesses(p)
    BY <1>1, <1>4, <2>4 DEF LocalOK, Reprocesses, CheckCommand, MarkCommand, Return
  <2>5. CASE Same(p)
    BY <1>2, <1>4, <2>5 DEF Same, Flushing
  <2> QED
    BY <2>1, <2>2, <2>3, <2>4, <2>5, Locality
<1> QED
  BY <1>3, <1>4 DEF Flushing

\* The events of a flush are out: it only has the deletion left.
LEMMA FlushingStays ==
  ASSUME TypeInv, Uninterrupted, [Next]_vars, NEW p \in Workers, Flushing(p), pc[p] # "graph"
  PROVE  \/ Flushing(p)' /\ pc'[p] # "graph" /\ held'[p] = held[p]
         \/ Delete(p)
<1> USE LiveIsWorker
<1> USE DEF input, group, output, projector, queue, analysis
<1>1. LocalOK
  BY TypeInvParts
<1>2. pc[p] \in {"completed", "signals", "command", "delete"} /\ why[p] # "reprocess"
  BY <1>1 DEF LocalOK, Control, Flushing, Owning, Analysing
<1>3. CASE HandleMessage(p)
  BY <1>2, <1>3 DEF HandleMessage, CheckMessage, MarkMessage, Load, Push, Measure, Goto
<1>4. CASE Analyse(p)
  BY <1>1, <1>2, <1>4 DEF LocalOK, Analyse, Flush, EmitPreprocessed, EmitCompleted,
     EmitSignal, EmitCommand, Goto, Flushing, Owning, Analysing
<1>5. CASE Loops(p)
  BY <1>2, <1>5 DEF Uninterrupted, Loops, Start, Fetch, Take, Ack, StartBackfill, Replay,
     FlushResidual, EndBackfill, Goto
<1>6. CASE Reprocesses(p)
  BY <1>2, <1>6 DEF Reprocesses, CheckCommand, MarkCommand
<1>7. CASE Same(p)
  BY <1>2, <1>7 DEF Same, Flushing, Owning, Analysing
<1> QED
  BY <1>3, <1>4, <1>5, <1>6, <1>7, Locality

LEMMA PlacedStep ==
  ASSUME TypeInv, Placed, Alone, [Next]_vars
  PROVE  Placed'
<1> USE LiveIsWorker
<1>1. LocalOK /\ SharedOK
  BY TypeInvParts
<1>2. ASSUME NEW p \in Workers, Marks(p)'
      PROVE  item'[p] \notin processed' /\ dest'[p] = Chat[item'[p]]
  <2>1. CASE Marks(p) /\ Same(p)
    <3>1. item[p] \notin processed /\ dest[p] = Chat[item[p]]
      BY <2>1 DEF Placed
    <3>2. ASSUME NEW q \in Workers, MarkMessage(q)
          PROVE  FALSE
      <4>1. q = p
        BY <2>1, <3>2 DEF Marks, MarkMessage, Goto, Alone, Active
      <4> QED
        BY <1>1, <2>1, <3>2, <4>1 DEF LocalOK, Marks, MarkMessage, Goto, Same
    <3>3. ~ MarkCommand
      <4>1. MarkCommand => Live = p
        BY <2>1 DEF Marks, MarkCommand, Alone, Active
      <4> QED
        BY <2>1, <4>1, OrchestratorAssumption DEF Marks, MarkCommand
    <3> QED
      BY <2>1, <3>1, <3>2, <3>3, ProcessedEffect DEF Same
  <2> QED
    BY <1>2, <2>1, MarksEffect
<1>3. ASSUME NEW p \in Workers, Marked(p)'
      PROVE  dest'[p] = Chat[item'[p]]
  <2>1. Marks(p) \/ Marked(p)
    BY <1>3, MarkedEffect DEF MarkMessage, Goto, Marks
  <2> QED
    BY <1>3, <2>1, MarkedEffect DEF Placed
<1>4. ASSUME NEW c \in Chats, NEW m \in Stored(c)'
      PROVE  Chat[m] = c
  <2>1. CASE m \in Stored(c)
    BY <2>1 DEF Placed
  <2>2. CASE m \notin Stored(c)
    BY <1>4, <2>2, StoredEffect DEF Placed
  <2> QED
    BY <2>1, <2>2
<1>5. ASSUME NEW p \in Workers, Flushing(p)', NEW m \in Elements(held'[p])
      PROVE  Chat[m] = dest'[p]
  BY <1>5, FlushingEffect DEF Placed, Reads, Stored
<1> QED
  BY <1>2, <1>3, <1>4, <1>5 DEF Placed

LEMMA CoveredStep ==
  ASSUME TypeInv, Covered, Alone, [Next]_vars
  PROVE  Covered'
<1>1. LocalOK /\ SharedOK
  BY TypeInvParts
<1> SUFFICES ASSUME NEW p \in Workers, Flushing(p)'
             PROVE  Elements(window'[dest'[p]]) \subseteq Elements(held'[p])
  BY DEF Covered, Stored
<1>2. CASE Reads(p)
  <2>1. window' = window
    BY <1>2 DEF Reads, Flush
  <2> QED
    BY <1>2, <2>1 DEF Reads
<1>3. CASE /\ Flushing(p) /\ ~ Push(p) /\ ~ Delete(p)
           /\ held'[p] = held[p] /\ win'[p] = win[p] /\ dest'[p] = dest[p]
  <2>1. PICK c \in Chats : c = dest[p]
    BY <1>1, <1>3 DEF LocalOK, Control, Flushing, Owning
  <2>2. Stored(c) \subseteq Elements(held[p])
    BY <1>3, <2>1 DEF Covered
  <2>3. ASSUME NEW m \in Stored(c)', m \notin Stored(c)
        PROVE  FALSE
    <3>1. PICK q \in Workers : Push(q)
      BY <2>3, StoredEffect
    <3>2. q = p
      BY <1>3, <3>1 DEF Alone, Active, Push, Goto, Flushing, Owning, Analysing
    <3> QED
      BY <1>3, <3>1, <3>2
  <2>4. Stored(c)' = Elements(window'[c])
    BY DEF Stored
  <2> QED
    BY <1>3, <2>1, <2>2, <2>3, <2>4
<1> QED
  BY <1>2, <1>3, FlushingEffect

LEMMA DeletingStep ==
  ASSUME TypeInv, Deleting, Backing, [Next]_vars
  PROVE  Deleting'
<1>1. LocalOK /\ SharedOK
  BY TypeInvParts
<1>2. \A i \in DOMAIN preprocessed : i \in DOMAIN preprocessed' /\ preprocessed'[i] = preprocessed[i]
  BY PreprocessedEffect
<1>3. \A k \in DOMAIN commands : k \in DOMAIN commands' /\ commands'[k] = commands[k]
  BY CommandsEffect
<1> SUFFICES ASSUME NEW p \in Workers, pc'[p] = "delete"
             PROVE  /\ \E i \in DOMAIN preprocessed' :
                         preprocessed'[i].win = win'[p] /\ preprocessed'[i].msgs = held'[p]
                    /\ \E k \in DOMAIN commands' : commands'[k].win = win'[p]
  BY DEF Deleting
<1>4. Flushing(p) /\ held'[p] = held[p] /\ win'[p] = win[p]
  <2>1. ~ Reads(p)
    BY <1>1 DEF Reads, Flush, AfterFlush, Return, LocalOK
  <2> QED
    BY <2>1, FlushingEffect DEF Flushing
<1>5. CASE pc[p] = "delete"
  BY <1>2, <1>3, <1>4, <1>5 DEF Deleting
<1>6. CASE pc[p] # "delete"
  <2>1. EmitCommand(p)
    <3>1. ~ Same(p)
      BY <1>6 DEF Same
    <3>2. pc[p] \in {"graph", "completed", "signals", "command"}
      BY <1>4, <1>6 DEF Flushing, Owning, Analysing
    <3>3. ~ HandleMessage(p)
      BY <3>2 DEF HandleMessage, CheckMessage, MarkMessage, Load, Push, Measure, Goto
    <3>4. ~ Loops(p)
      BY <1>1, <3>2 DEF LocalOK, Loops, Start, Fetch, Take, Ack, Cancel, StartBackfill,
         Replay, FlushResidual, EndBackfill, Error, Crash, Goto, Return
    <3>5. ~ Reprocesses(p)
      BY <3>2 DEF Reprocesses, CheckCommand, MarkCommand
    <3>6. Analyse(p)
      BY <3>1, <3>3, <3>4, <3>5, Locality
    <3> QED
      BY <1>1, <3>2, <3>6 DEF LocalOK, Analyse, Flush, EmitPreprocessed, EmitCompleted,
         EmitSignal, Delete, Goto
  <2>2. PICK i \in DOMAIN preprocessed : preprocessed[i] = Event(p)
    BY <2>1 DEF EmitCommand, Backing, Emitting, Event
  <2>3. preprocessed'[i].win = win[p] /\ preprocessed'[i].msgs = held[p] /\ i \in DOMAIN preprocessed'
    BY <1>2, <2>2 DEF Event
  <2>4. PICK list \in NormalForms(held[p]) : commands' = Append(commands, Command(p, list))
    BY <2>1 DEF EmitCommand, Command
  <2>5. Command(p, list) \in Analyses /\ Command(p, list).win = win[p]
    BY <1>1, <2>1, <2>4, NormalFormType DEF LocalOK, EmitCommand, Control, Analysing, Analyses,
       Command
  <2>6. PICK cmd \in Analyses : cmd = Command(p, list)
    BY <2>5
  <2>7. commands \in Seq(Analyses) /\ commands' = Append(commands, cmd)
    BY <1>1, <2>4, <2>6 DEF SharedOK
  <2>8. Len(commands) + 1 \in DOMAIN commands' /\ commands'[Len(commands) + 1] = cmd
    BY <2>7, AppendGrows
  <2> QED
    BY <1>4, <2>3, <2>5, <2>6, <2>8
<1> QED
  BY <1>5, <1>6

-----------------------------------------------------------------------------
(***************************************************************************)
(* Every message in one window.                                            *)
(***************************************************************************)
LEMMA PreprocessedOrigin ==
  ASSUME TypeInv, [Next]_vars, NEW i \in DOMAIN preprocessed'
  PROVE  \/ i \in DOMAIN preprocessed /\ preprocessed'[i] = preprocessed[i]
         \/ \E p \in Workers : EmitPreprocessed(p) /\ preprocessed'[i] = Event(p)
<1>1. SharedOK /\ LocalOK
  BY TypeInvParts
<1>2. ASSUME NEW p \in Workers, EmitPreprocessed(p)
      PROVE  \/ i \in DOMAIN preprocessed /\ preprocessed'[i] = preprocessed[i]
             \/ preprocessed'[i] = Event(p)
  <2>1. PICK event : event = Event(p)
    OBVIOUS
  <2>2. preprocessed' = Append(preprocessed, event)
    BY <1>2, <2>1 DEF EmitPreprocessed, Event
  <2>3. event \in Analyses
    BY <1>1, <1>2, <2>1 DEF LocalOK, EmitPreprocessed, Goto, Control, Analysing, Analyses, Event
  <2> QED
    BY <1>1, <2>1, <2>2, <2>3, AppendProperties DEF SharedOK
<1> QED
  BY <1>2, OutputEffect

\* A reprocess emits again what an event of its window has.
LEMMA RepeatedEmission ==
  ASSUME TypeInv, CommandBacked, Reprocessing, NEW p \in Workers, why[p] = "reprocess"
  PROVE  \E i \in DOMAIN preprocessed :
           /\ preprocessed[i].win = win[p]
           /\ Elements(held[p]) \subseteq Elements(preprocessed[i].msgs)
<1>1. PICK k \in DOMAIN commands :
        /\ commands[k].win = win[p]
        /\ commands[k].msgs = held[p]
  BY DEF Reprocessing, Repeats
<1>2. PICK i \in DOMAIN preprocessed :
        /\ preprocessed[i].win = commands[k].win
        /\ commands[k].msgs \in NormalForms(preprocessed[i].msgs)
  BY DEF CommandBacked
<1>3. preprocessed[i] \in Analyses
  BY TypeInvParts DEF SharedOK
<1>4. preprocessed[i].msgs \in Seq(Messages)
  BY <1>3 DEF Analyses
<1>5. Elements(held[p]) \subseteq Elements(preprocessed[i].msgs)
  BY <1>1, <1>2, <1>4, NormalFormType
<1> QED
  BY <1>1, <1>2, <1>5

\* What a row holds, an event holds.
LEMMA RowsEmitted ==
  ASSUME TypeInv, CommandBacked, Reprocessing, NEW r \in rows
  PROVE  \E i \in DOMAIN preprocessed : Elements(r.msgs) \subseteq Elements(preprocessed[i].msgs)
<1>1. PICK k \in DOMAIN commands : commands[k] = r
  BY DEF Reprocessing
<1>2. PICK i \in DOMAIN preprocessed : commands[k].msgs \in NormalForms(preprocessed[i].msgs)
  BY DEF CommandBacked
<1>3. preprocessed[i] \in Analyses
  BY TypeInvParts DEF SharedOK
<1>4. preprocessed[i].msgs \in Seq(Messages)
  BY <1>3 DEF Analyses
<1>5. Elements(r.msgs) \subseteq Elements(preprocessed[i].msgs)
  BY <1>1, <1>2, <1>4, NormalFormType
<1> QED
  BY <1>5

LEMMA UnseenStep ==
  ASSUME TypeInv, Marking, CommandBacked, Reprocessing, Placed, Unseen, Alone, [Next]_vars
  PROVE  Unseen'
<1>1. LocalOK /\ SharedOK
  BY TypeInvParts
<1> SUFFICES ASSUME NEW p \in Workers, Marked(p)'
             PROVE  /\ \A c \in Chats : item'[p] \notin Stored(c)'
                    /\ item'[p] \notin Elements(held'[p])
                    /\ \A i \in DOMAIN preprocessed' :
                         item'[p] \notin Elements(preprocessed'[i].msgs)
  BY DEF Unseen
<1>2. item'[p] = item[p] /\ (Marked(p) \/ MarkMessage(p)) /\ Active(p)
  BY <1>1, MarkedEffect DEF Marked, MarkMessage, Goto, Active, LocalOK, Control
<1>3. /\ \A c \in Chats : item[p] \notin Stored(c)
      /\ item[p] \notin Elements(held[p])
      /\ \A i \in DOMAIN preprocessed : item[p] \notin Elements(preprocessed[i].msgs)
  <2>1. CASE MarkMessage(p)
    <3>1. item[p] \notin processed
      BY <2>1 DEF MarkMessage, Goto, Marks, Placed
    <3> QED
      BY <3>1 DEF Marking, MarkedFirst
  <2> QED
    BY <1>2, <2>1 DEF Unseen
<1>4. ASSUME NEW c \in Chats, item[p] \in Stored(c)'
      PROVE  FALSE
  <2>1. PICK q \in Workers : Push(q)
    BY <1>3, <1>4, StoredEffect
  <2>2. q = p
    BY <1>2, <2>1 DEF Alone, Active, Push, Goto
  <2> QED
    BY <1>1, <2>1, <2>2 DEF Push, Goto, Marked, LocalOK, Control, analysis
<1>5. ASSUME NEW i \in DOMAIN preprocessed'
      PROVE  item[p] \notin Elements(preprocessed'[i].msgs)
  <2>1. ASSUME NEW q \in Workers, EmitPreprocessed(q)
        PROVE  item[p] \notin Elements(held[q])
    <3>1. q = p
      BY <1>2, <2>1 DEF Alone, Active, EmitPreprocessed, Goto
    <3> QED
      BY <1>3, <3>1
  <2> QED
    BY <1>3, <2>1, PreprocessedOrigin DEF Event
<1>6. item[p] \notin Elements(held'[p])
  <2>1. CASE Keeps(p)
    BY <1>3, <2>1 DEF Keeps
  <2>2. CASE Clears(p)
    BY <2>2 DEF Clears, Elements
  <2>3. CASE Reads(p)
    BY <1>3, <2>3 DEF Reads, Stored
  <2>4. CASE Fetches(p)
    BY <1>3, <2>4, RowsEmitted DEF Fetches
  <2> QED
    BY <2>1, <2>2, <2>3, <2>4, HeldEffect
<1> QED
  BY <1>2, <1>4, <1>5, <1>6

-----------------------------------------------------------------------------
(***************************************************************************)
(* How often a message is emitted.                                         *)
(***************************************************************************)
LEMMA EmittedEffect ==
  ASSUME TypeInv, [Next]_vars, NEW m
  PROVE  \/ Emitted(m)' \subseteq Emitted(m)
         \/ \E p \in Workers : /\ EmitPreprocessed(p) /\ m \in Elements(held[p])
                               /\ Emitted(m)' \subseteq Emitted(m) \cup {win[p]}
<1>1. CASE preprocessed' = preprocessed
  BY <1>1 DEF Emitted
<1>2. ASSUME NEW p \in Workers, EmitPreprocessed(p)
      PROVE  \/ Emitted(m)' \subseteq Emitted(m)
             \/ m \in Elements(held[p]) /\ Emitted(m)' \subseteq Emitted(m) \cup {win[p]}
  <2>1. PICK e : e = Event(p)
    OBVIOUS
  <2>2. e.win = win[p] /\ e.msgs = held[p]
    BY <2>1 DEF Event
  <2>3. ASSUME NEW i \in DOMAIN preprocessed', m \in Elements(preprocessed'[i].msgs)
        PROVE  \/ preprocessed'[i].win \in Emitted(m)
               \/ preprocessed'[i].win = win[p] /\ m \in Elements(held[p])
    <3>1. CASE i \in DOMAIN preprocessed /\ preprocessed'[i] = preprocessed[i]
      BY <2>3, <3>1 DEF Emitted
    <3>2. CASE preprocessed'[i] = e
      BY <2>2, <2>3, <3>2
    <3>3. preprocessed' = Append(preprocessed, e)
      BY <1>2, <2>1 DEF EmitPreprocessed, Event
    <3>4. preprocessed \in Seq(Analyses) /\ e \in Analyses
      BY <1>2, <2>1, TypeInvParts DEF SharedOK, LocalOK, EmitPreprocessed, Goto, Control,
         Analysing, Analyses, Event
    <3>5. (i \in DOMAIN preprocessed /\ preprocessed'[i] = preprocessed[i]) \/ preprocessed'[i] = e
      BY <3>3, <3>4, AppendProperties
    <3> QED
      BY <3>1, <3>2, <3>5
  <2>4. Emitted(m)' = {preprocessed'[i].win :
                         i \in {j \in DOMAIN preprocessed' : m \in Elements(preprocessed'[j].msgs)}}
    BY DEF Emitted
  <2> QED
    BY <2>3, <2>4
<1> QED
  BY <1>1, <1>2, OutputEffect

LEMMA AtMostOneMore ==
  ASSUME NEW S, IsFiniteSet(S), NEW T, NEW x
  PROVE  /\ Cardinality(S) \in Nat
         /\ T \subseteq S => IsFiniteSet(T) /\ Cardinality(T) \in Nat
                             /\ Cardinality(T) <= Cardinality(S)
         /\ T \subseteq S \cup {x} => IsFiniteSet(T) /\ Cardinality(T) \in Nat
                                     /\ Cardinality(T) <= Cardinality(S) + 1
<1>1. Cardinality(S) \in Nat
  BY FS_CardinalityType
<1>2. ASSUME T \subseteq S
      PROVE  IsFiniteSet(T) /\ Cardinality(T) \in Nat /\ Cardinality(T) <= Cardinality(S)
  BY <1>2, FS_Subset, FS_CardinalityType
<1>3. ASSUME T \subseteq S \cup {x}
      PROVE  IsFiniteSet(T) /\ Cardinality(T) \in Nat /\ Cardinality(T) <= Cardinality(S) + 1
  <2>1. IsFiniteSet(S \cup {x})
    BY FS_AddElement
  <2>2. Cardinality(S \cup {x}) = Cardinality(S) \/ Cardinality(S \cup {x}) = Cardinality(S) + 1
    BY FS_AddElement
  <2>3. IsFiniteSet(T) /\ Cardinality(T) \in Nat /\ Cardinality(T) <= Cardinality(S \cup {x})
    BY <1>3, <2>1, FS_Subset, FS_CardinalityType
  <2> QED
    BY <1>1, <2>2, <2>3
<1> QED
  BY <1>1, <1>2, <1>3

\* What remains to be emitted has been so before, unless its deletion has failed.
LEMMA RemainingBefore ==
  ASSUME TypeInv, Placed, Unseen, Alone, Uninterrupted, [Next]_vars, NEW m \in Messages,
         Remaining(m)', ~ Leaving(m)'
  PROVE  \/ Remaining(m) /\ ~ Leaving(m)
         \/ Emitted(m) = {}
<1>1. LocalOK /\ SharedOK
  BY TypeInvParts
<1>2. PICK c \in Chats : c = Chat[m]
  BY OrchestratorAssumption
<1>3. CASE Leaving(m)
  <2>1. PICK p \in Workers : Flushing(p) /\ pc[p] # "graph" /\ m \in Elements(held[p])
    BY <1>3 DEF Leaving
  <2>2. Delete(p)
    <3>1. ~ (Flushing(p)' /\ pc'[p] # "graph" /\ held'[p] = held[p])
      BY <2>1 DEF Leaving
    <3> QED
      BY <2>1, <3>1, FlushingStays
  <2>3. dest[p] = c
    BY <1>2, <2>1 DEF Placed
  <2>4. Stored(c)' = {}
    <3>1. window'[c] = <<>>
      BY <1>1, <2>2, <2>3 DEF SharedOK, Delete
    <3> QED
      BY <3>1 DEF Stored, Elements
  <2>5. PICK q \in Workers : pc'[q] = "graph"
    BY <1>2, <2>4 DEF Remaining
  <2>6. q # p
    BY <1>1, <2>2, <2>5 DEF LocalOK, Delete, AfterFlush, Return
  <2>7. pc'[q] = pc[q]
    BY <1>1, <2>2, <2>6 DEF LocalOK, Delete, AfterFlush, Return
  <2> QED
    BY <2>2, <2>5, <2>6, <2>7 DEF Delete, Alone, Active
<1>4. CASE m \in Stored(c)' /\ m \notin Stored(c)
  <2>1. PICK p \in Workers : Marked(p) /\ item[p] = m
    BY <1>4, StoredEffect
  <2> QED
    BY <2>1 DEF Unseen, Emitted
<1>5. ASSUME ~ Leaving(m), NEW p \in Workers, Owning(p)', pc'[p] = "graph",
             m \in Elements(held'[p])
      PROVE  Remaining(m)
  <2>1. Flushing(p)'
    BY <1>5 DEF Flushing
  <2>2. CASE Reads(p)
    <3>1. dest[p] \in Chats /\ m \in Stored(dest[p])
      BY <1>5, <2>2 DEF Reads, Stored
    <3> QED
      BY <3>1 DEF Placed, Remaining
  <2>3. CASE Flushing(p) /\ ~ Delete(p) /\ held'[p] = held[p]
    <3>1. pc[p] = "graph"
      BY <1>5, <2>3, FlushingStays
    <3> QED
      BY <1>5, <2>3, <3>1 DEF Flushing, Remaining
  <2> QED
    BY <2>1, <2>2, <2>3, FlushingEffect
<1> QED
  BY <1>2, <1>3, <1>4, <1>5 DEF Remaining

LEMMA RepeatedStep ==
  ASSUME TypeInv, CommandBacked, Reprocessing, Placed, Unseen, Repeated, Alone, [Next]_vars
  PROVE  Repeated'
<1> SUFFICES ASSUME NEW m \in Messages
             PROVE  /\ IsFiniteSet(Emitted(m)')
                    /\ Cardinality(Emitted(m)') <= Interruptions' + 1
                    /\ Remaining(m)' /\ ~ Leaving(m)' => Cardinality(Emitted(m)') <= Interruptions'
  BY DEF Repeated
<1>1. PICK S, T, i, j : S = Emitted(m) /\ T = Emitted(m)' /\ i = Interruptions /\ j = Interruptions'
  OBVIOUS
<1>2. /\ IsFiniteSet(S) /\ Cardinality(S) <= i + 1
      /\ Remaining(m) /\ ~ Leaving(m) => Cardinality(S) <= i
  BY <1>1 DEF Repeated
<1>3. i \in Nat /\ j \in Nat /\ (j = i \/ j = i + 1)
  BY <1>1, FaultCounts, FaultKindsEffect
<1>4. Cardinality(S) \in Nat
  BY <1>2, FS_CardinalityType
<1>5. CASE T \subseteq S
  <2>1. IsFiniteSet(T) /\ Cardinality(T) \in Nat /\ Cardinality(T) <= Cardinality(S)
    BY <1>2, <1>5, AtMostOneMore
  <2>2. Cardinality(T) <= j + 1
    BY <1>2, <1>3, <1>4, <2>1
  <2>3. ASSUME Remaining(m)', ~ Leaving(m)'
        PROVE  Cardinality(T) <= j
    <3>1. CASE ~ Uninterrupted
      <4>1. j = i + 1
        BY <1>1, <3>1, FaultKindsEffect
      <4> QED
        BY <1>2, <1>3, <1>4, <2>1, <4>1
    <3>2. CASE Uninterrupted /\ Remaining(m) /\ ~ Leaving(m)
      BY <1>2, <1>3, <1>4, <2>1, <3>2
    <3>3. CASE Emitted(m) = {}
      <4>1. Cardinality(S) = 0
        BY <1>1, <3>3, FS_EmptySet
      <4> QED
        BY <1>3, <2>1, <4>1
    <3> QED
      BY <2>3, <3>1, <3>2, <3>3, RemainingBefore
  <2> QED
    BY <1>1, <2>1, <2>2, <2>3
<1>6. ASSUME NEW p \in Workers, EmitPreprocessed(p), m \in Elements(held[p]),
             T \subseteq S \cup {win[p]}
      PROVE  \/ T \subseteq S
             \/ Remaining(m) /\ ~ Leaving(m) /\ Leaving(m)'
  <2>1. pc[p] = "graph" /\ pc \in [Workers -> PcStates]
    BY <1>6, TypeInvParts DEF LocalOK, EmitPreprocessed, Goto
  <2>2. CASE why[p] = "reprocess"
    <3>1. PICK k \in DOMAIN preprocessed :
            /\ preprocessed[k].win = win[p]
            /\ Elements(held[p]) \subseteq Elements(preprocessed[k].msgs)
      BY <2>2, RepeatedEmission
    <3>2. win[p] \in S
      BY <1>1, <1>6, <3>1 DEF Emitted
    <3> QED
      BY <1>6, <3>2
  <2>3. CASE why[p] # "reprocess"
    <3>1. Remaining(m)
      BY <1>6, <2>1, <2>3 DEF Remaining, Owning, Analysing
    <3>2. ~ Leaving(m)
      BY <2>1 DEF Leaving, Alone, Active, Flushing, Owning, Analysing
    <3>3. pc'[p] = "completed" /\ why' = why /\ held' = held
      BY <1>6, <2>1 DEF EmitPreprocessed, Goto, analysis
    <3>4. Leaving(m)'
      BY <1>6, <2>3, <3>3 DEF Leaving, Flushing, Owning, Analysing
    <3> QED
      BY <3>1, <3>2, <3>4
  <2> QED
    BY <2>2, <2>3
<1>7. ASSUME NEW p, T \subseteq S \cup {win[p]}, Remaining(m), ~ Leaving(m), Leaving(m)'
      PROVE  IsFiniteSet(T) /\ Cardinality(T) <= j + 1
  <2>1. IsFiniteSet(T) /\ Cardinality(T) \in Nat /\ Cardinality(T) <= Cardinality(S) + 1
    BY <1>2, <1>7, AtMostOneMore
  <2>2. Cardinality(S) <= i
    BY <1>2, <1>7
  <2> QED
    BY <1>3, <1>4, <2>1, <2>2
<1> QED
  BY <1>1, <1>5, <1>6, <1>7, EmittedEffect

-----------------------------------------------------------------------------
(***************************************************************************)
(* How long a list gets.                                                   *)
(***************************************************************************)
LEMMA FillingStays ==
  ASSUME TypeInv, Uninterrupted, [Next]_vars, NEW p \in Workers, Filling(p)
  PROVE  \/ Filling(p)' /\ dest'[p] = dest[p]
         \/ window'[dest[p]] = <<>>
         \/ Len(window[dest[p]]) < WindowSize
<1> USE LiveIsWorker, OrchestratorAssumption
<1> USE DEF input, group, output, projector, queue, analysis
<1>1. LocalOK /\ SharedOK
  BY TypeInvParts
<1>2. /\ pc[p] = "size" \/ why[p] = "full"
      /\ pc[p] \in {"size", "flush", "graph", "completed", "signals", "command", "delete"}
      /\ dest[p] \in Chats /\ (pc[p] # "size" => why[p] = "full")
  BY <1>1, OrchestratorAssumption DEF Filling, LocalOK, PcStates, Control, Analysing
<1>3. CASE HandleMessage(p)
  <2>1. Measure(p)
    BY <1>2, <1>3 DEF HandleMessage, CheckMessage, MarkMessage, Load, Push, Goto
  <2>2. CASE WindowFull(dest[p])
    BY <1>1, <2>1, <2>2 DEF LocalOK, Measure, Filling
  <2>3. CASE ~ WindowFull(dest[p])
    <3>1. Len(window[dest[p]]) \in Nat
      BY <1>1, <1>2 DEF SharedOK
    <3> QED
      BY <2>3, <3>1 DEF WindowFull
  <2> QED
    BY <2>2, <2>3
<1>4. CASE Analyse(p)
  <2>1. CASE Flush(p)
    <3>1. CASE ReadWindow(dest[p]) = <<>>
      BY <2>1, <3>1 DEF Flush, ReadWindow
    <3>2. CASE ReadWindow(dest[p]) # <<>>
      BY <1>2, <2>1, <3>2 DEF Flush, Filling
    <3> QED
      BY <3>1, <3>2
  <2>2. CASE Delete(p)
    BY <1>1, <1>2, <2>2 DEF Delete, SharedOK
  <2>3. CASE EmitPreprocessed(p) \/ EmitCompleted(p) \/ EmitSignal(p) \/ EmitCommand(p)
    BY <1>2, <2>3 DEF EmitPreprocessed, EmitCompleted, EmitSignal, EmitCommand, Goto, Filling
  <2> QED
    BY <1>4, <2>1, <2>2, <2>3 DEF Analyse
<1>5. CASE Loops(p)
  BY <1>2, <1>5 DEF Uninterrupted, Loops, Start, Fetch, Take, Ack, StartBackfill, Replay,
     FlushResidual, EndBackfill, Goto
<1>6. CASE Reprocesses(p)
  BY <1>2, <1>6 DEF Reprocesses, CheckCommand, MarkCommand
<1>7. CASE Same(p)
  BY <1>2, <1>7 DEF Same, Filling
<1> QED
  BY <1>3, <1>4, <1>5, <1>6, <1>7, Locality

LEMMA ShortStep ==
  ASSUME TypeInv, Short, Alone, [Next]_vars
  PROVE  Short'
<1>1. LocalOK /\ SharedOK
  BY TypeInvParts
<1>2. PICK i, j, n : i = Interruptions /\ j = Interruptions' /\ n = WindowSize
  OBVIOUS
<1>3. i \in Nat /\ j \in Nat /\ n \in Nat \ {0} /\ (j = i \/ j = i + 1)
  BY <1>2, FaultCounts, FaultKindsEffect
<1> SUFFICES ASSUME NEW c \in Chats
             PROVE  \/ Len(window'[c]) < n + j
                    \/ /\ Len(window'[c]) <= n + j
                       /\ \E p \in Workers : Filling(p)' /\ dest'[p] = c
  BY <1>2 DEF Short
<1>4. PICK k : k = Len(window[c])
  OBVIOUS
<1>5. k \in Nat
  BY <1>1, <1>4 DEF SharedOK
<1>6. \/ k < n + i
      \/ k <= n + i /\ \E p \in Workers : Filling(p) /\ dest[p] = c
  BY <1>2, <1>4 DEF Short
<1>7. CASE window'[c] = <<>>
  <2>1. Len(window'[c]) = 0
    BY <1>7
  <2> QED
    BY <1>3, <2>1
<1>8. ASSUME NEW p \in Workers, Push(p), dest[p] = c
      PROVE  /\ Len(window'[c]) <= n + j
             /\ \E q \in Workers : Filling(q)' /\ dest'[q] = c
  <2>1. pc[p] = "push" /\ item[p] \in Messages /\ why[p] = "none"
    BY <1>1, <1>8 DEF Push, Goto, LocalOK, Control
  <2>2. ASSUME NEW q \in Workers, Filling(q)
        PROVE  FALSE
    <3>1. Active(q)
      BY <1>1, <2>2 DEF Filling, Active, LocalOK, Control
    <3>2. q = p
      BY <2>1, <3>1 DEF Alone, Active
    <3> QED
      BY <2>1, <2>2, <3>2 DEF Filling
  <2>3. k < n + i
    BY <1>6, <2>2
  <2>4. window[c] \in Seq(Messages) /\ window'[c] = Append(window[c], item[p])
    BY <1>1, <1>8 DEF SharedOK, Push
  <2>5. Len(window'[c]) = k + 1
    BY <1>4, <2>1, <2>4
  <2>6. Filling(p)' /\ dest'[p] = c
    BY <1>1, <1>8 DEF LocalOK, Push, Goto, Filling, analysis
  <2> QED
    BY <1>3, <1>5, <2>3, <2>5, <2>6
<1>9. CASE window'[c] = window[c]
  <2>1. Len(window'[c]) = k
    BY <1>4, <1>9
  <2>2. CASE k < n + i
    BY <1>3, <1>5, <2>1, <2>2
  <2>3. ASSUME k <= n + i, NEW p \in Workers, Filling(p), dest[p] = c
        PROVE  \/ Len(window'[c]) < n + j
               \/ /\ Len(window'[c]) <= n + j
                  /\ \E q \in Workers : Filling(q)' /\ dest'[q] = c
    <3>1. CASE ~ Uninterrupted
      <4>1. j = i + 1
        BY <1>2, <3>1, FaultKindsEffect
      <4> QED
        BY <1>3, <1>5, <2>1, <2>3, <4>1
    <3>2. CASE Uninterrupted /\ Filling(p)' /\ dest'[p] = c
      <4>1. Len(window'[c]) <= n + j
        BY <1>3, <1>5, <2>1, <2>3
      <4> QED
        BY <3>2, <4>1
    <3>3. CASE Uninterrupted /\ Len(window[c]) < n
      BY <1>3, <1>4, <1>5, <2>1, <3>3
    <3> QED
      BY <1>2, <1>7, <2>3, <3>1, <3>2, <3>3, FillingStays
  <2> QED
    BY <1>6, <2>2, <2>3
<1> QED
  BY <1>1, <1>7, <1>8, <1>9, WindowEffect DEF SharedOK, Push, Delete, Expire

-----------------------------------------------------------------------------
(***************************************************************************)
(* What a fault loses.                                                     *)
(***************************************************************************)
LEMMA WindowOf ==
  ASSUME NEW m, NEW k \in DOMAIN commands, NEW i \in DOMAIN preprocessed,
         preprocessed[i].win = commands[k].win, m \in Elements(preprocessed[i].msgs)
  PROVE  WindowsOf(m) # {}
<1>1. commands[k].win \in {commands[l].win : l \in DOMAIN commands}
  OBVIOUS
<1>2. commands[k].win \in WindowsOf(m)
  BY <1>1 DEF WindowsOf
<1> QED
  BY <1>2

LEMMA WindowsStay ==
  ASSUME TypeInv, [Next]_vars, NEW m, WindowsOf(m) # {}
  PROVE  WindowsOf(m)' # {}
<1>1. PICK k \in DOMAIN commands, i \in DOMAIN preprocessed :
        preprocessed[i].win = commands[k].win /\ m \in Elements(preprocessed[i].msgs)
  BY DEF WindowsOf
<1>2. /\ i \in DOMAIN preprocessed' /\ preprocessed'[i] = preprocessed[i]
      /\ k \in DOMAIN commands' /\ commands'[k] = commands[k]
  BY PreprocessedEffect, CommandsEffect
<1>3. commands'[k].win \in {commands'[l].win : l \in DOMAIN commands'}
  BY <1>2
<1>4. preprocessed'[i].win = commands'[k].win /\ m \in Elements(preprocessed'[i].msgs)
  BY <1>1, <1>2
<1>5. commands'[k].win \in WindowsOf(m)'
  BY <1>2, <1>3, <1>4 DEF WindowsOf
<1> QED
  BY <1>5

LEMMA InHandIs ==
  ASSUME NEW m
  PROVE  InHand(m) <=> \E p \in Workers : item[p] = m /\ Marked(p)
  BY DEF InHand, Marked


\* A message is lost in the hands of an interrupted handler, or with its list.
LEMMA LostEffect ==
  ASSUME TypeInv, Placed, Covered, Deleting, [Next]_vars, NEW m \in Lost', m \notin Lost
  PROVE  \/ ~ Uninterrupted /\ InHand(m)
         \/ \E c \in Chats : Expire(c) /\ m \in Stored(c)
<1>1. LocalOK /\ SharedOK
  BY TypeInvParts
<1> SUFFICES ASSUME ~ (~ Uninterrupted /\ InHand(m)),
                    ~ \E c \in Chats : Expire(c) /\ m \in Stored(c)
             PROVE  FALSE
  OBVIOUS
<1>2. m \in processed' /\ m \in Messages
  BY DEF Lost, Handled
<1>3. InHand(m)' \/ m \in Stored(Chat[m])' \/ WindowsOf(m)' # {}
  <2>1. CASE m \notin processed
    <3>1. PICK p \in Workers : MarkMessage(p) /\ item[p] = m
      <4>1. MarkCommand => item[Live] \in Commands /\ processed' = processed \cup {item[Live]}
        BY DEF MarkCommand
      <4>2. ~ MarkCommand
        BY <1>2, <2>1, <4>1, OrchestratorAssumption
      <4> QED
        BY <1>2, <2>1, <4>2, ProcessedEffect DEF MarkMessage
    <3>2. pc'[p] = "load" /\ item'[p] = m
      BY <1>1, <3>1 DEF MarkMessage, Goto, LocalOK
    <3>3. \E q \in Workers : item'[q] = m /\ (pc'[q] \in {"load", "push"} \/ why'[q] = "rollover")
      BY <3>2
    <3> QED
      BY <3>3 DEF InHand
  <2>2. CASE WindowsOf(m) # {}
    BY <2>2, WindowsStay
  <2>3. ASSUME NEW p \in Workers, item[p] = m, Marked(p)
        PROVE  InHand(m)' \/ m \in Stored(Chat[m])'
    <3>1. CASE Push(p)
      <4>1. dest[p] = Chat[m] /\ dest[p] \in Chats /\ pc[p] = "push"
        BY <1>1, <2>3, <3>1 DEF Placed, Push, Goto, LocalOK, Control
      <4>2. /\ window[Chat[m]] \in Seq(Messages)
            /\ window'[Chat[m]] = Append(window[Chat[m]], m)
        BY <1>1, <2>3, <3>1, <4>1 DEF SharedOK, Push
      <4>3. m \in Elements(Append(window[Chat[m]], m))
        BY <1>2, <4>2, ElementsOfAppend
      <4> QED
        BY <4>2, <4>3 DEF Stored
    <3>2. CASE Marked(p)' /\ item'[p] = item[p]
      <4>1. \E q \in Workers : item'[q] = m /\ (pc'[q] \in {"load", "push"} \/ why'[q] = "rollover")
        BY <2>3, <3>2 DEF Marked
      <4> QED
        BY <4>1 DEF InHand
    <3>3. Uninterrupted
      BY <2>3, InHandIs
    <3> QED
      BY <1>1, <2>3, <3>1, <3>2, <3>3, MarkedStays
  <2>4. CASE m \in Stored(Chat[m])
    <3>1. PICK c \in Chats : c = Chat[m]
      BY <1>2, OrchestratorAssumption
    <3>2. CASE window'[c] = window[c]
      BY <2>4, <3>1, <3>2 DEF Stored
    <3>3. ASSUME NEW p \in Workers, Push(p), dest[p] = c
          PROVE  m \in Stored(c)'
      <4>1. item[p] \in Messages
        BY <1>1, <3>3 DEF Push, Goto, LocalOK, Control
      <4>2. window[c] \in Seq(Messages) /\ window'[c] = Append(window[c], item[p])
        BY <1>1, <3>3 DEF SharedOK, Push
      <4>3. Stored(c)' = Stored(c) \cup {item[p]}
        BY <4>1, <4>2, ElementsOfAppend DEF Stored
      <4> QED
        BY <2>4, <3>1, <4>3
    <3>4. ASSUME NEW p \in Workers, Delete(p), dest[p] = c
          PROVE  WindowsOf(m) # {}
      <4>1. pc[p] = "delete"
        BY <3>4 DEF Delete
      <4>2. m \in Elements(held[p])
        BY <2>4, <3>1, <3>4, <4>1 DEF Covered, Flushing
      <4>3. PICK i \in DOMAIN preprocessed, k \in DOMAIN commands :
              /\ preprocessed[i].win = win[p] /\ preprocessed[i].msgs = held[p]
              /\ commands[k].win = win[p]
        BY <4>1 DEF Deleting
      <4> QED
        BY <4>2, <4>3, WindowOf
    <3>5. CASE \E p \in Workers : Delete(p) /\ dest[p] = c
      BY <3>4, <3>5, WindowsStay
    <3>6. \/ window'[c] = window[c]
          \/ \E p \in Workers : (Push(p) \/ Delete(p)) /\ dest[p] = c
      BY <1>1, <2>4, <3>1, WindowEffect DEF SharedOK, Push, Delete, Expire
    <3> QED
      BY <3>1, <3>2, <3>3, <3>5, <3>6
  <2>5. m \notin processed \/ InHand(m) \/ m \in Stored(Chat[m]) \/ WindowsOf(m) # {}
    BY <1>2 DEF Lost, Handled
  <2> QED
    BY <2>1, <2>2, <2>3, <2>4, <2>5, InHandIs
<1> QED
  BY <1>2, <1>3 DEF Lost, Handled

\* A list has no more elements than places.
LEMMA ListSize ==
  ASSUME NEW S, NEW s \in Seq(S)
  PROVE  IsFiniteSet(Elements(s)) /\ Cardinality(Elements(s)) <= Len(s)
<1>1. PICK n \in Nat : n = Len(s)
  OBVIOUS
<1> DEFINE f == [i \in 1..n |-> s[i]]
<1>2. f \in Surjection(1..n, Elements(s))
  BY <1>1 DEF Surjection, Elements
<1>3. IsFiniteSet(1..n) /\ Cardinality(1..n) = n
  <2>1. IsFiniteSet(1..n) /\ Cardinality(1..n) = IF 1 > n THEN 0 ELSE n - 1 + 1
    BY FS_Interval
  <2> QED
    BY <2>1
<1>4. IsFiniteSet(Elements(s)) /\ Cardinality(Elements(s)) <= Cardinality(1..n)
  BY <1>2, <1>3, FS_Surjection
<1> QED
  BY <1>1, <1>3, <1>4

\* The size of a union.
LEMMA UnionSize ==
  ASSUME NEW S, NEW T, IsFiniteSet(S), IsFiniteSet(T)
  PROVE  /\ IsFiniteSet(S \cup T) /\ Cardinality(S \cup T) \in Nat
         /\ Cardinality(S \cup T) <= Cardinality(S) + Cardinality(T)
<1>1. IsFiniteSet(S \cup T) /\ Cardinality(S \cup T) \in Nat
      /\ Cardinality(S) \in Nat /\ Cardinality(T) \in Nat /\ Cardinality(S \cap T) \in Nat
  BY FS_Union, FS_Intersection, FS_CardinalityType
<1>2. Cardinality(S \cup T) = Cardinality(S) + Cardinality(T) - Cardinality(S \cap T)
  BY FS_Union
<1> QED
  BY <1>1, <1>2

\* One more interruption, or one more expired list, makes room for its losses.
LEMMA LossSum ==
  ASSUME NEW i \in Nat, NEW e \in Nat, NEW n \in Nat, NEW k \in Nat,
         k <= i + e * (n + i)
  PROVE  /\ k + 1 <= (i + 1) + e * (n + (i + 1))
         /\ k + (n + i) <= i + (e + 1) * (n + i)
<1>1. PICK a : a = n + i
  OBVIOUS
<1>2. a \in Nat /\ e * a \in Nat /\ e * (a + 1) = e * a + e /\ (e + 1) * a = e * a + a
  BY <1>1
<1>3. n + (i + 1) = a + 1
  BY <1>1
<1>4. k <= i + e * a
  BY <1>1
<1>5. k + 1 <= (i + 1) + e * (a + 1)
  BY <1>2, <1>4
<1>6. k + a <= i + (e + 1) * a
  BY <1>2, <1>4
<1> QED
  BY <1>1, <1>3, <1>5, <1>6

LEMMA LossesStep ==
  ASSUME TypeInv, Placed, Covered, Deleting, Short, Losses, Alone, [Next]_vars
  PROVE  Losses'
<1>1. LocalOK /\ SharedOK
  BY TypeInvParts
<1>2. PICK S, T, i, e, n, k : /\ S = Lost /\ T = Lost'
                              /\ i = Interruptions /\ e = faults["expiry"]
                              /\ n = WindowSize /\ k = Cardinality(S)
  OBVIOUS
<1>3. i \in Nat /\ e \in Nat /\ n \in Nat /\ k <= i + e * (n + i) /\ IsFiniteSet(S)
  BY <1>2, FaultCounts DEF Losses
<1>4. k \in Nat
  BY <1>2, <1>3, FS_CardinalityType
<1>5. k + 1 <= (i + 1) + e * (n + (i + 1)) /\ k + (n + i) <= i + (e + 1) * (n + i)
  BY <1>3, <1>4, LossSum
<1> SUFFICES /\ IsFiniteSet(T)
             /\ Cardinality(T) <= Interruptions' + faults'["expiry"] * (n + Interruptions')
  BY <1>2 DEF Losses
<1>6. CASE /\ Uninterrupted /\ \A c \in Chats : ~ Expire(c)
           /\ Interruptions' = Interruptions /\ faults'["expiry"] = faults["expiry"]
  <2>1. T \subseteq S
    BY <1>2, <1>6, LostEffect
  <2>2. IsFiniteSet(T) /\ Cardinality(T) \in Nat /\ Cardinality(T) <= k
    BY <1>2, <1>3, <2>1, AtMostOneMore
  <2>3. PICK r : r = i + e * (n + i)
    OBVIOUS
  <2>4. r \in Nat /\ k <= r
    BY <1>3, <2>3
  <2>5. Cardinality(T) <= r
    BY <1>4, <2>2, <2>4
  <2> QED
    BY <1>2, <1>6, <2>2, <2>3, <2>5
<1>7. CASE /\ ~ Uninterrupted
           /\ Interruptions' = Interruptions + 1 /\ faults'["expiry"] = faults["expiry"]
           /\ UNCHANGED <<window, processed, output>>
  <2>1. ASSUME NEW x, NEW y, InHand(x), InHand(y)
        PROVE  x = y
    <3>1. PICK p \in Workers, q \in Workers :
            item[p] = x /\ Marked(p) /\ item[q] = y /\ Marked(q)
      BY <2>1, InHandIs
    <3>2. Active(p) /\ Active(q)
      BY <1>1, <3>1 DEF Marked, Active, LocalOK, Control
    <3> QED
      BY <3>1, <3>2 DEF Alone
  <2>2. \A c \in Chats : ~ Expire(c)
    BY <1>1, <1>7 DEF Expire, SharedOK
  <2>3. PICK x : T \subseteq S \cup {x}
    <3>1. \A x \in T : x \in S \/ InHand(x)
      BY <1>2, <2>2, LostEffect
    <3>2. CASE \E x : InHand(x)
      BY <2>1, <3>1, <3>2
    <3>3. CASE ~ \E x : InHand(x)
      BY <3>1, <3>3
    <3> QED
      BY <3>2, <3>3
  <2>4. IsFiniteSet(T) /\ Cardinality(T) \in Nat /\ Cardinality(T) <= k + 1
    BY <1>2, <1>3, <2>3, AtMostOneMore
  <2>5. PICK r : r = (i + 1) + e * (n + (i + 1))
    OBVIOUS
  <2>6. r \in Nat /\ k + 1 <= r
    BY <1>3, <1>5, <2>5
  <2>7. Cardinality(T) <= r
    BY <1>4, <2>4, <2>6
  <2> QED
    BY <1>2, <1>7, <2>4, <2>5, <2>7
<1>8. ASSUME NEW c \in Chats, Expire(c), Uninterrupted,
             Interruptions' = Interruptions, faults'["expiry"] = faults["expiry"] + 1
      PROVE  /\ IsFiniteSet(T)
             /\ Cardinality(T) <= Interruptions' + faults'["expiry"] * (n + Interruptions')
  <2>1. PICK U, u : U = Stored(c) /\ u = Cardinality(U)
    OBVIOUS
  <2>2. IsFiniteSet(U) /\ u \in Nat /\ u <= n + i
    <3>1. window[c] \in Seq(Messages) /\ Len(window[c]) \in Nat
      BY <1>1 DEF SharedOK
    <3>2. IsFiniteSet(U) /\ u <= Len(window[c])
      BY <2>1, <3>1, ListSize DEF Stored
    <3>3. u \in Nat
      BY <2>1, <3>2, FS_CardinalityType
    <3>4. Len(window[c]) <= n + i
      BY <1>2, <1>3, <3>1 DEF Short
    <3> QED
      BY <1>3, <3>1, <3>2, <3>3, <3>4
  <2>3. T \subseteq S \cup U
    <3>1. ASSUME NEW d \in Chats, Expire(d)
          PROVE  d = c
      <4>1. window'[d] = <<>> /\ window[d] # <<>> /\ window' = [window EXCEPT ![c] = <<>>]
        BY <1>1, <1>8, <3>1 DEF Expire, SharedOK
      <4> QED
        BY <1>1, <4>1 DEF SharedOK
    <3> QED
      BY <1>2, <1>8, <2>1, <3>1, LostEffect
  <2>4. IsFiniteSet(S \cup U) /\ Cardinality(S \cup U) \in Nat /\ Cardinality(S \cup U) <= k + u
    BY <1>2, <1>3, <2>1, <2>2, UnionSize
  <2>5. IsFiniteSet(T) /\ Cardinality(T) \in Nat /\ Cardinality(T) <= Cardinality(S \cup U)
    BY <2>3, <2>4, FS_Subset, FS_CardinalityType
  <2>6. Cardinality(T) <= k + (n + i)
    BY <1>3, <1>4, <2>2, <2>4, <2>5
  <2>7. PICK r : r = i + (e + 1) * (n + i)
    OBVIOUS
  <2>8. r \in Nat /\ k + (n + i) <= r
    BY <1>3, <1>5, <2>7
  <2>9. Cardinality(T) <= r
    BY <1>3, <1>4, <2>5, <2>6, <2>8
  <2> QED
    BY <1>2, <1>8, <2>5, <2>7, <2>9
<1> QED
  BY <1>6, <1>7, <1>8, FaultKindsEffect

-----------------------------------------------------------------------------
(***************************************************************************)
(* What is delivered and never handled: Batch is inductive, with as many   *)
(* workers as there are.                                                   *)
(***************************************************************************)
LEMMA DeliveryEffect ==
  ASSUME TypeInv, [Next]_vars
  PROVE  \/ UNCHANGED <<pending, acked>> /\ todo'[Live] = todo[Live]
         \/ Fetch \/ Take \/ Ack \/ LoseReply \/ Cancel \/ Crash(Live)
<1> USE LiveIsWorker
<1> USE DEF input, group, output, projector, queue, analysis, vars
<1>1. todo \in [Workers -> Seq(Messages \cup Commands)] /\ \A b \in Backfills : b # Live
  BY TypeInvParts, OrchestratorAssumption DEF SharedOK
<1>2. CASE Consume
  BY <1>2 DEF Consume, Start, CheckCommand, MarkCommand, HandleMessage, CheckMessage,
     MarkMessage, Load, Push, Measure, Analyse, Flush, EmitPreprocessed, EmitCompleted,
     EmitSignal, EmitCommand, Delete
<1>3. ASSUME NEW b \in Backfills, Backfill(b)
      PROVE  UNCHANGED <<pending, acked>> /\ todo'[Live] = todo[Live]
  <2>1. CASE StartBackfill(b) \/ Replay(b) \/ FlushResidual(b) \/ EndBackfill(b)
    BY <1>1, <2>1 DEF StartBackfill, Replay, FlushResidual, EndBackfill
  <2>2. CASE HandleMessage(b) \/ Analyse(b)
    BY <2>2 DEF HandleMessage, CheckMessage, MarkMessage, Load, Push, Measure, Analyse,
       Flush, EmitPreprocessed, EmitCompleted, EmitSignal, EmitCommand, Delete
  <2> QED
    BY <1>3, <2>1, <2>2 DEF Backfill
<1>4. ASSUME NEW p \in Workers, p # Live, Crash(p)
      PROVE  UNCHANGED <<pending, acked>> /\ todo'[Live] = todo[Live]
  BY <1>1, <1>4 DEF Crash
<1>5. ASSUME NEW p \in Workers, Error(p)
      PROVE  UNCHANGED <<pending, acked>> /\ todo'[Live] = todo[Live]
  BY <1>5 DEF Error
<1> QED
  BY <1>2, <1>3, <1>4, <1>5 DEF Next, Ingest, Request, Project, Expire

\* A handler goes on with its entry, or is through with it.
LEMMA HandlerEffect ==
  ASSUME TypeInv, Batch, HandleMessage(Live) \/ Analyse(Live) \/ Reprocesses(Live)
  PROVE  /\ Busy(Live) /\ item'[Live] = item[Live]
         /\ Busy(Live)' \/ pc'[Live] = "ack"
         /\ item[Live] \in Messages => item[Live] \in processed' \/ pc'[Live] = "mark"
<1> USE LiveIsWorker, OrchestratorAssumption
<1> USE DEF input, group, output, projector, queue, analysis
<1>1. LocalOK
  BY TypeInvParts
<1>2. /\ Busy(Live) /\ pc[Live] \notin {"check", "mark"} /\ item[Live] \in Messages =>
           item[Live] \in processed
  BY DEF Batch
<1>3. CASE HandleMessage(Live)
  BY <1>1, <1>2, <1>3 DEF LocalOK, HandleMessage, CheckMessage, MarkMessage, Load, Push,
     Measure, Goto, Return, Busy, IsProcessed
<1>4. CASE Flush(Live) \/ Delete(Live)
  BY <1>1, <1>2, <1>4 DEF LocalOK, Flush, Delete, AfterFlush, Return, Busy
<1>5. CASE EmitPreprocessed(Live) \/ EmitCompleted(Live) \/ EmitSignal(Live) \/ EmitCommand(Live)
  BY <1>1, <1>2, <1>5 DEF LocalOK, EmitPreprocessed, EmitCompleted, EmitSignal, EmitCommand,
     Goto, Return, Busy
<1>6. CASE CheckCommand \/ MarkCommand
  BY <1>1, <1>2, <1>6 DEF LocalOK, CheckCommand, MarkCommand, Goto, Return, Busy
<1> QED
  BY <1>3, <1>4, <1>5, <1>6 DEF Analyse, Reprocesses

\* Only an interruption leaves a batch unhandled.
LEMMA UnhandledBound ==
  ASSUME TypeInv, Batch, [Next]_vars, NEW X, IsFiniteSet(X), Cardinality(X) <= BatchSize,
         Unhandled' \subseteq Unhandled \cup X, X = {} \/ ~ Uninterrupted
  PROVE  IsFiniteSet(Unhandled') /\ Cardinality(Unhandled') <= BatchSize * Interruptions'
<1>1. PICK S, T, i, j, n : /\ S = Unhandled /\ T = Unhandled' /\ n = BatchSize
                           /\ i = Interruptions /\ j = Interruptions'
  OBVIOUS
<1>2. /\ i \in Nat /\ n \in Nat /\ IsFiniteSet(S) /\ Cardinality(S) <= n * i
      /\ T \subseteq S \cup X
  BY <1>1, FaultCounts, OrchestratorAssumption DEF Batch
<1>3. j = i \/ j = i + 1
  BY <1>1, FaultKindsEffect
<1>4. ~ Uninterrupted => j = i + 1
  BY <1>1, FaultKindsEffect
<1>5. PICK r, q : r = n * i /\ q = n * j
  OBVIOUS
<1>6. /\ r \in Nat /\ q \in Nat /\ (j = i => q = r) /\ (j = i + 1 => q = r + n)
      /\ Cardinality(S) <= r
  BY <1>2, <1>3, <1>5
<1>7. Cardinality(S) \in Nat /\ Cardinality(X) \in Nat
  BY <1>2, FS_CardinalityType
<1>8. CASE X = {}
  <2>1. T \subseteq S
    BY <1>2, <1>8
  <2>2. IsFiniteSet(T) /\ Cardinality(T) \in Nat /\ Cardinality(T) <= Cardinality(S)
    BY <1>2, <2>1, AtMostOneMore
  <2>3. r <= q /\ q \in Nat
    BY <1>2, <1>3, <1>6
  <2>4. Cardinality(T) <= q
    BY <1>6, <1>7, <2>2, <2>3
  <2> QED
    BY <1>1, <1>5, <2>2, <2>4
<1>9. CASE ~ Uninterrupted
  <2>1. /\ IsFiniteSet(S \cup X) /\ Cardinality(S \cup X) \in Nat
        /\ Cardinality(S \cup X) <= Cardinality(S) + Cardinality(X)
    BY <1>2, UnionSize
  <2>2. IsFiniteSet(T) /\ Cardinality(T) \in Nat /\ Cardinality(T) <= Cardinality(S \cup X)
    BY <1>2, <2>1, FS_Subset, FS_CardinalityType
  <2>3. q = r + n /\ Cardinality(X) <= n
    BY <1>1, <1>4, <1>6, <1>9
  <2>4. Cardinality(T) <= q
    BY <1>2, <1>6, <1>7, <2>1, <2>2, <2>3
  <2> QED
    BY <1>1, <1>5, <2>2, <2>4
<1> QED
  BY <1>8, <1>9

\* The batch in hand gets no larger while it is worked off.
LEMMA HandBound ==
  ASSUME Batch, Hand' \subseteq Hand
  PROVE  IsFiniteSet(Hand') /\ Cardinality(Hand') <= BatchSize
<1>1. PICK S, T : S = Hand /\ T = Hand'
  OBVIOUS
<1>2. IsFiniteSet(S) /\ Cardinality(S) <= BatchSize /\ T \subseteq S /\ BatchSize \in Nat
  BY <1>1, OrchestratorAssumption DEF Batch
<1>3. IsFiniteSet(T) /\ Cardinality(T) \in Nat /\ Cardinality(T) <= Cardinality(S)
      /\ Cardinality(S) \in Nat
  BY <1>2, AtMostOneMore
<1>4. Cardinality(T) <= BatchSize
  BY <1>2, <1>3
<1> QED
  BY <1>1, <1>3, <1>4

\* The messages of one read are at most a batch.
LEMMA ReadSize ==
  ASSUME TypeInv, NEW X,
         X = Messages \cap Elements(NextEntries(stream, msgCursor) \o NextEntries(requests, cmdCursor))
  PROVE  IsFiniteSet(X) /\ Cardinality(X) <= BatchSize
<1>1. PICK msgs, cmds, n : /\ msgs = NextEntries(stream, msgCursor)
                           /\ cmds = NextEntries(requests, cmdCursor) /\ n = BatchSize
  OBVIOUS
<1>2. /\ msgs \in Seq(Messages) /\ cmds \in Seq(Commands) /\ n \in Nat
      /\ stream \in Seq(Messages) /\ msgCursor \in Nat
  BY <1>1, TypeInvParts, NextEntriesType, OrchestratorAssumption DEF SharedOK
<1>3. Len(msgs) \in Nat /\ Len(msgs) <= n
  <2> DEFINE last == IF Len(stream) < msgCursor + n THEN Len(stream) ELSE msgCursor + n
  <2>1. Len(stream) \in Nat /\ last \in Int /\ last <= msgCursor + n
    BY <1>2, LenProperties
  <2>2. msgs = SubSeq(stream, msgCursor + 1, last)
    BY <1>1 DEF NextEntries
  <2>3. \A k \in (msgCursor + 1)..last : stream[k] \in Messages
    BY <1>2, <2>1, LenProperties
  <2> HIDE DEF last
  <2>4. Len(msgs) = IF msgCursor + 1 <= last THEN last - (msgCursor + 1) + 1 ELSE 0
    BY <1>2, <2>1, <2>2, <2>3, SubSeqProperties
  <2> QED
    BY <1>2, <2>1, <2>4
<1>4. X \subseteq Elements(msgs)
  <2>1. ASSUME NEW m \in X
        PROVE  m \in Elements(msgs)
    <3>1. m \in Messages /\ m \notin Commands /\ m \in Elements(msgs \o cmds)
      BY <1>1, <2>1, OrchestratorAssumption
    <3>2. Elements(msgs \o cmds) \subseteq Elements(msgs) \cup Commands
      BY <1>2 DEF Elements
    <3> QED
      BY <3>1, <3>2
  <2> QED
    BY <2>1
<1>5. IsFiniteSet(Elements(msgs)) /\ Cardinality(Elements(msgs)) <= Len(msgs)
  BY <1>2, ListSize
<1>6. /\ IsFiniteSet(X) /\ Cardinality(X) \in Nat
      /\ Cardinality(X) <= Cardinality(Elements(msgs)) /\ Cardinality(Elements(msgs)) \in Nat
  BY <1>4, <1>5, AtMostOneMore
<1> QED
  BY <1>1, <1>2, <1>3, <1>5, <1>6

\* The head and the rest of a list have its elements.
LEMMA ElementsOfTail ==
  ASSUME NEW S, NEW s \in Seq(S), s # <<>>
  PROVE  Elements(s) = {Head(s)} \cup Elements(Tail(s))
<1>1. PICK n \in Nat : n = Len(s)
  OBVIOUS
<1>2. /\ n >= 1 /\ DOMAIN s = 1..n /\ Head(s) = s[1]
      /\ Tail(s) \in Seq(S) /\ Len(Tail(s)) = n - 1
      /\ \A i \in 1..(n - 1) : Tail(s)[i] = s[i + 1]
  BY <1>1
<1>3. DOMAIN Tail(s) = 1..(n - 1)
  BY <1>2
<1>4. ASSUME NEW x \in Elements(s)
      PROVE  x \in {Head(s)} \cup Elements(Tail(s))
  <2>1. PICK i \in 1..n : x = s[i]
    BY <1>2, <1>4 DEF Elements
  <2>2. CASE i = 1
    BY <1>2, <2>1, <2>2
  <2>3. CASE i # 1
    <3>1. i - 1 \in 1..(n - 1) /\ Tail(s)[i - 1] = x
      BY <1>2, <2>1, <2>3
    <3> QED
      BY <1>3, <3>1 DEF Elements
  <2> QED
    BY <2>2, <2>3
<1>5. ASSUME NEW x \in {Head(s)} \cup Elements(Tail(s))
      PROVE  x \in Elements(s)
  <2>1. CASE x = Head(s)
    BY <1>2, <2>1 DEF Elements
  <2>2. CASE x \in Elements(Tail(s))
    <3>1. PICK i \in 1..(n - 1) : x = Tail(s)[i]
      BY <1>3, <2>2 DEF Elements
    <3>2. i + 1 \in 1..n /\ x = s[i + 1]
      BY <1>2, <3>1
    <3> QED
      BY <1>2, <3>2 DEF Elements
  <2> QED
    BY <1>5, <2>1, <2>2
<1> QED
  BY <1>4, <1>5

LEMMA BatchInit ==
  ASSUME Init
  PROVE  Batch
<1>1. todo[Live] = <<>> /\ pc[Live] = "off" /\ pending = {} /\ acked = {}
  BY LiveIsWorker DEF Init
<1>2. Hand = {} /\ Unhandled = {}
  BY <1>1 DEF Hand, Unhandled, Busy, Elements
<1>3. IsFiniteSet({}) /\ Cardinality({}) = 0
  BY FS_EmptySet
<1>4. Interruptions \in Nat /\ BatchSize \in Nat
  BY OrchestratorAssumption DEF Init, Interruptions, FaultKinds
<1>5. BatchSize * Interruptions \in Nat /\ 0 <= BatchSize /\ 0 <= BatchSize * Interruptions
  BY <1>4
<1> QED
  BY <1>1, <1>2, <1>3, <1>5 DEF Batch, Elements, Busy

LEMMA BatchStep ==
  ASSUME TypeInv, Batch, [Next]_vars
  PROVE  Batch'
<1> USE LiveIsWorker
<1>1. LocalOK /\ SharedOK /\ processed \subseteq processed' /\ IsFiniteSet({}) /\ Cardinality({}) = 0
  BY TypeInvParts, ProcessedGrows, FS_EmptySet
<1>2. /\ todo \in [Workers -> Seq(Messages \cup Commands)] /\ BatchSize \in Nat
      /\ Messages \cap Commands = {} /\ Cardinality({}) <= BatchSize
  BY <1>1, OrchestratorAssumption DEF SharedOK
<1>3. /\ Elements(todo[Live]) \subseteq pending \cup acked
      /\ pc[Live] \notin {"off", "idle"} => item[Live] \in pending \cup acked
      /\ Busy(Live) /\ pc[Live] \notin {"check", "mark"} /\ item[Live] \in Messages =>
           item[Live] \in processed
      /\ IsFiniteSet(Hand) /\ Cardinality(Hand) <= BatchSize
  BY DEF Batch
<1>4. SUFFICES /\ Elements(todo'[Live]) \subseteq pending' \cup acked'
               /\ pc'[Live] \notin {"off", "idle"} => item'[Live] \in pending' \cup acked'
               /\ Busy(Live)' /\ pc'[Live] \notin {"check", "mark"} /\ item'[Live] \in Messages =>
                    item'[Live] \in processed'
               /\ \/ Hand' \subseteq Hand
                  \/ IsFiniteSet(Hand') /\ Cardinality(Hand') <= BatchSize
               /\ \E X : /\ IsFiniteSet(X) /\ Cardinality(X) <= BatchSize
                         /\ Unhandled' \subseteq Unhandled \cup X
                         /\ X = {} \/ ~ Uninterrupted
  BY HandBound, UnhandledBound DEF Batch
<1>5. CASE Fetch
  <2> DEFINE read == NextEntries(stream, msgCursor) \o NextEntries(requests, cmdCursor)
             new == Messages \cap Elements(read)
  <2>1. /\ todo' = [todo EXCEPT ![Live] = read] /\ pending' = pending \cup Elements(read)
        /\ acked' = acked /\ pc' = pc /\ item' = item /\ processed' = processed
        /\ pc[Live] = "idle"
    BY <1>5 DEF Fetch, analysis
  <2>2. IsFiniteSet(new) /\ Cardinality(new) <= BatchSize
    BY ReadSize
  <2> HIDE DEF read
  <2>3. todo'[Live] = read /\ ~ Busy(Live) /\ ~ Busy(Live)'
    BY <1>2, <2>1 DEF Busy
  <2>4. Hand' = new
    BY <2>3 DEF Hand
  <2>5. Unhandled' \subseteq Unhandled
    <3>1. ASSUME NEW m \in Unhandled'
          PROVE  m \in Unhandled
      <4>1. m \in pending \cup acked
        BY <2>1, <2>3, <3>1 DEF Unhandled, OnItsWay
      <4>2. todo[Live] = <<>>
        BY <1>5 DEF Fetch
      <4> QED
        BY <2>1, <2>3, <3>1, <4>1, <4>2 DEF Unhandled, OnItsWay, Elements
    <3> QED
      BY <3>1
  <2> QED
    BY <1>1, <1>2, <2>1, <2>2, <2>3, <2>4, <2>5
<1>6. CASE Take
  <2>1. PICK e, rest : e = Head(todo[Live]) /\ rest = Tail(todo[Live])
    OBVIOUS
  <2>2. Elements(todo[Live]) = {e} \cup Elements(rest)
    <3>1. todo[Live] \in Seq(Messages \cup Commands) /\ todo[Live] # <<>>
      BY <1>2, <1>6 DEF Take
    <3> QED
      BY <2>1, <3>1, ElementsOfTail
  <2>3. /\ todo'[Live] = rest /\ item'[Live] = e
        /\ pc'[Live] = (IF e \in Blank THEN "ack" ELSE "check")
        /\ pending' = pending /\ acked' = acked /\ processed' = processed /\ pc[Live] = "idle"
    BY <1>1, <1>2, <1>6, <2>1 DEF Take, Goto, group, LocalOK
  <2>4. ~ Busy(Live) /\ (Busy(Live)' <=> e \notin Blank)
    BY <2>3 DEF Busy
  <2>5. Hand' \subseteq Hand
    BY <2>2, <2>3, <2>4 DEF Hand
  <2>6. Unhandled' \subseteq Unhandled
    BY <2>2, <2>3, <2>4 DEF Unhandled, OnItsWay
  <2> QED
    BY <1>1, <1>2, <1>3, <2>2, <2>3, <2>4, <2>5, <2>6
<1>7. CASE Ack
  <2>1. /\ pc[Live] = "ack" /\ pc'[Live] = "idle" /\ todo' = todo /\ processed' = processed
        /\ pending' = pending \ {item[Live]} /\ acked' = acked \cup {item[Live]}
    BY <1>1, <1>7 DEF Ack, Goto, LocalOK, queue
  <2>2. ~ Busy(Live) /\ ~ Busy(Live)'
    BY <2>1 DEF Busy
  <2>3. pending' \cup acked' = pending \cup acked
    BY <1>3, <2>1
  <2>4. Hand' \subseteq Hand
    BY <2>1, <2>2 DEF Hand
  <2>5. Unhandled' \subseteq Unhandled
    BY <2>1, <2>2, <2>3 DEF Unhandled, OnItsWay
  <2> QED
    BY <1>1, <1>2, <1>3, <2>1, <2>2, <2>3, <2>4, <2>5
<1>8. CASE LoseReply
  <2> DEFINE read == NextEntries(stream, msgCursor) \o NextEntries(requests, cmdCursor)
             new == Messages \cap Elements(read)
  <2>1. /\ todo' = todo /\ pending' = pending \cup Elements(read)
        /\ acked' = acked /\ pc' = pc /\ item' = item /\ processed' = processed
    BY <1>8 DEF LoseReply, queue
  <2>2. IsFiniteSet(new) /\ Cardinality(new) <= BatchSize
    BY ReadSize
  <2> HIDE DEF read
  <2>3. Busy(Live)' <=> Busy(Live)
    BY <2>1 DEF Busy
  <2>4. Hand' \subseteq Hand
    BY <2>1, <2>3 DEF Hand
  <2>5. Unhandled' \subseteq Unhandled \cup new
    BY <2>1, <2>3 DEF Unhandled, OnItsWay
  <2>6. ~ Uninterrupted
    BY <1>8 DEF Uninterrupted
  <2> QED
    BY <1>3, <2>1, <2>2, <2>3, <2>4, <2>5, <2>6
<1>9. CASE Cancel \/ Crash(Live)
  <2>1. /\ pc'[Live] = "off" /\ todo'[Live] = <<>> /\ processed' = processed
        /\ \/ pending' = pending /\ acked' = acked
           \/ /\ pending' = pending \ {item[Live]} /\ acked' = acked \cup {item[Live]}
              /\ item[Live] \in pending \cup acked
    BY <1>1, <1>2, <1>3, <1>9 DEF Cancel, Crash, LocalOK, group, Busy
  <2>2. ~ Busy(Live)' /\ Elements(todo'[Live]) = {}
    BY <2>1 DEF Busy, Elements
  <2>3. pending' \cup acked' = pending \cup acked
    BY <2>1
  <2>4. Hand' \subseteq Hand
    BY <2>2 DEF Hand
  <2>5. Unhandled' \subseteq Unhandled \cup Hand
    BY <2>1, <2>2, <2>3 DEF Unhandled, OnItsWay, Hand
  <2>6. ~ Uninterrupted
    BY <1>9 DEF Uninterrupted
  <2> QED
    BY <1>3, <2>1, <2>2, <2>4, <2>5, <2>6
<1>10. CASE UNCHANGED <<pending, acked>> /\ todo'[Live] = todo[Live]
  <2>1. CASE HandleMessage(Live) \/ Analyse(Live) \/ Reprocesses(Live)
    <3>1. /\ Busy(Live) /\ item'[Live] = item[Live]
          /\ Busy(Live)' \/ pc'[Live] = "ack"
          /\ item[Live] \in Messages => item[Live] \in processed' \/ pc'[Live] = "mark"
      BY <2>1, HandlerEffect
    <3>2. pc[Live] \notin {"off", "idle"} /\ (pc'[Live] = "ack" => ~ Busy(Live)')
      BY <3>1 DEF Busy
    <3>3. Hand' \subseteq Hand
      BY <1>10, <3>1 DEF Hand
    <3>4. Unhandled' \subseteq Unhandled
      <4>1. ASSUME NEW m \in Unhandled'
            PROVE  m \in Unhandled
        <5>1. /\ m \in pending \cup acked /\ m \in Messages \ Blank /\ m \notin processed
              /\ m \notin processed' /\ m \notin Elements(todo[Live])
              /\ ~ (Busy(Live)' /\ item[Live] = m)
          BY <1>1, <1>10, <3>1, <4>1 DEF Unhandled, OnItsWay
        <5>2. item[Live] # m
          <6>1. CASE Busy(Live)'
            BY <5>1, <6>1
          <6>2. CASE pc'[Live] = "ack"
            BY <3>1, <5>1, <6>2
          <6> QED
            BY <3>1, <6>1, <6>2
        <5> QED
          BY <5>1, <5>2 DEF Unhandled, OnItsWay
      <4> QED
        BY <4>1
    <3> QED
      BY <1>1, <1>2, <1>3, <1>10, <3>1, <3>2, <3>3, <3>4
  <2>2. CASE Start
    <3>1. pc[Live] = "off" /\ pc'[Live] = "idle" /\ item' = item /\ processed' = processed
      BY <1>1, <2>2 DEF Start, Goto, LocalOK
    <3>2. ~ Busy(Live) /\ ~ Busy(Live)'
      BY <3>1 DEF Busy
    <3>3. Hand' \subseteq Hand /\ Unhandled' \subseteq Unhandled
      BY <1>10, <3>1, <3>2 DEF Hand, Unhandled, OnItsWay
    <3> QED
      BY <1>1, <1>2, <1>3, <1>10, <3>1, <3>2, <3>3
  <2>3. CASE Error(Live)
    <3>1. Busy(Live) /\ pc'[Live] = "ack" /\ item' = item /\ processed' = processed
      BY <1>1, <2>3 DEF Error, Return, LocalOK
    <3>2. ~ Busy(Live)' /\ pc[Live] \notin {"off", "idle"}
      BY <3>1 DEF Busy
    <3>3. Hand' \subseteq Hand /\ Unhandled' \subseteq Unhandled \cup Hand
      BY <1>10, <3>1, <3>2 DEF Hand, Unhandled, OnItsWay
    <3>4. ~ Uninterrupted
      BY <2>3 DEF Uninterrupted
    <3> QED
      BY <1>3, <1>10, <3>1, <3>2, <3>3, <3>4
  <2>4. CASE Same(Live)
    <3>1. pc'[Live] = pc[Live] /\ item'[Live] = item[Live]
      BY <2>4 DEF Same
    <3>2. Busy(Live)' <=> Busy(Live)
      BY <3>1 DEF Busy
    <3>3. Hand' \subseteq Hand /\ Unhandled' \subseteq Unhandled
      BY <1>1, <1>10, <3>1, <3>2 DEF Hand, Unhandled, OnItsWay
    <3> QED
      BY <1>1, <1>2, <1>3, <1>10, <3>1, <3>2, <3>3
  <2> QED
    BY <1>5, <1>6, <1>7, <1>9, <2>1, <2>2, <2>3, <2>4, Locality, OrchestratorAssumption
    DEF Loops, StartBackfill, Replay, FlushResidual, EndBackfill
<1> QED
  BY <1>5, <1>6, <1>7, <1>8, <1>9, <1>10, DeliveryEffect

LEMMA BatchInvariance == Spec => []Batch
<1>1. Init => Batch
  BY BatchInit
<1>2. Inv /\ Batch /\ [Next]_vars => Batch'
  BY BatchStep DEF Inv
<1> QED
  BY <1>1, <1>2, Invariance, PTL DEF Spec

-----------------------------------------------------------------------------
LEMMA LossInit ==
  ASSUME Init
  PROVE  LossInv
<1>1. /\ \A p \in Workers : pc[p] = "off" /\ why[p] = "none"
      /\ \A c \in Chats : window[c] = <<>>
      /\ preprocessed = <<>> /\ processed = {}
  BY DEF Init
<1>2. Interruptions = 0 /\ faults["expiry"] = 0 /\ WindowSize \in Nat \ {0}
  BY OrchestratorAssumption DEF Init, Interruptions, FaultKinds
<1>3. Placed /\ Unseen
  BY <1>1 DEF Placed, Unseen, Marks, Marked, Stored, Elements, Flushing, Owning, Analysing
<1>4. Covered /\ Deleting
  BY <1>1 DEF Covered, Deleting, Flushing, Owning, Analysing
<1>5. IsFiniteSet({}) /\ Cardinality({}) = 0
  BY FS_EmptySet
<1>6. Repeated
  <2>1. ASSUME NEW m \in Messages
        PROVE  IsFiniteSet(Emitted(m)) /\ Cardinality(Emitted(m)) = 0
    <3>1. Emitted(m) = {}
      BY <1>1 DEF Emitted
    <3> QED
      BY <1>5, <3>1
  <2>2. ASSUME NEW m \in Messages
        PROVE  /\ Cardinality(Emitted(m)) <= Interruptions + 1
               /\ Cardinality(Emitted(m)) <= Interruptions
    BY <1>2, <2>1
  <2> QED
    BY <2>1, <2>2 DEF Repeated
<1>7. Short
  <2>1. \A c \in Chats : Len(window[c]) = 0
    BY <1>1
  <2> QED
    BY <1>2, <2>1 DEF Short
<1>8. Losses
  <2>1. Lost = {}
    BY <1>1 DEF Lost, Handled
  <2> QED
    BY <1>2, <1>5, <2>1 DEF Losses
<1> QED
  BY <1>3, <1>4, <1>6, <1>7, <1>8 DEF LossInv

LEMMA LossStep ==
  ASSUME Inv, LossInv, Alone, [Next]_vars
  PROVE  LossInv'
<1>1. TypeInv /\ Marking /\ Reprocessing /\ Backing /\ CommandBacked
  BY DEF Inv, Backing
<1> QED
  BY <1>1, PlacedStep, UnseenStep, CoveredStep, DeletingStep, RepeatedStep, ShortStep,
     LossesStep DEF LossInv

LEMMA LossInvariance == Spec /\ []Alone => []LossInv
<1>1. Init => LossInv
  BY LossInit
<1>2. Inv /\ LossInv /\ Alone /\ [Next]_vars => LossInv'
  BY LossStep
<1> QED
  BY <1>1, <1>2, Invariance, PTL DEF Spec

\* With one worker at a time, an error, a crash or a shutdown loses at most one
\* message and has at most one window of a message analysed again, and an expired
\* list loses at most what it can hold, however many of them strike and where.
THEOREM LossBoundHolds == Spec /\ []Alone => []LossBound
<1>1. ASSUME Inv, Batch, LossInv
      PROVE  LossBound
  <2>1. ASSUME NEW m \in Messages
        PROVE  Cardinality(WindowsOf(m)) <= 1 + Interruptions
    <3>1. WindowsOf(m) \subseteq Emitted(m)
      BY DEF WindowsOf, Emitted
    <3>2. IsFiniteSet(Emitted(m)) /\ Cardinality(Emitted(m)) <= Interruptions + 1
      BY <1>1 DEF LossInv, Repeated
    <3>3. /\ Cardinality(WindowsOf(m)) <= Cardinality(Emitted(m))
          /\ Cardinality(WindowsOf(m)) \in Nat /\ Cardinality(Emitted(m)) \in Nat
      BY <3>1, <3>2, AtMostOneMore
    <3>4. Interruptions \in Nat
      BY <1>1, FaultCounts DEF Inv
    <3> QED
      BY <3>2, <3>3, <3>4
  <2>2. ASSUME NEW c \in Chats
        PROVE  \/ Len(window[c]) < WindowSize + Interruptions
               \/ \E p \in Workers : Filling(p) /\ dest[p] = c
    BY <1>1 DEF LossInv, Short
  <2>3. Cardinality(Lost) <= Interruptions + faults["expiry"] * (WindowSize + Interruptions)
    BY <1>1 DEF LossInv, Losses
  <2>4. Cardinality(Unhandled) <= BatchSize * Interruptions
    BY <1>1 DEF Batch
  <2> QED
    BY <2>1, <2>2, <2>3, <2>4 DEF LossBound
<1> QED
  BY <1>1, LossInvariance, BatchInvariance, Invariance, PTL

\* event-schema.md's "effectively once" is kept as long as nothing fails and the
\* script is not run next to the consumer: then every handled message is in hand,
\* in its chat's list or in a projected window, and in no second one, whatever
\* is replayed, reprocessed or delivered late.
THEOREM EffectivelyOnceHolds == Spec /\ []Alone /\ []Faultless => []EffectivelyOnce
<1>1. ASSUME TypeInv, LossInv, LossBound, Faultless
      PROVE  EffectivelyOnce
  <2>1. Interruptions = 0 /\ faults["expiry"] = 0 /\ WindowSize \in Nat
    BY <1>1, OrchestratorAssumption DEF Faultless, FaultKinds, Interruptions
  <2>2. AnalysedOnce
    <3>1. ASSUME NEW m \in Messages
          PROVE  Cardinality(WindowsOf(m)) <= 1
      <4>1. Cardinality(WindowsOf(m)) <= 1 + Interruptions
        BY <1>1 DEF LossBound
      <4> QED
        BY <2>1, <4>1
    <3> QED
      BY <3>1 DEF AnalysedOnce
  <2>3. IsFiniteSet(Lost) /\ Cardinality(Lost) <= 0
    BY <1>1, <2>1 DEF LossInv, Losses
  <2>4. Cardinality(Lost) = 0
    BY <2>3, FS_CardinalityType
  <2>5. NothingLost
    BY <2>3, <2>4, FS_EmptySet DEF NothingLost
  <2> QED
    BY <2>2, <2>5 DEF EffectivelyOnce
<1>2. Inv => TypeInv
  BY DEF Inv
<1> QED
  BY <1>1, <1>2, LossBoundHolds, LossInvariance, Invariance, PTL

-----------------------------------------------------------------------------
(***************************************************************************)
(* Without faults the consumer is a Batcher.                               *)
(***************************************************************************)
LEMMA Unfaulted ==
  ASSUME TypeInv, Faultless, Faultless', [Next]_vars
  PROVE  Uninterrupted /\ \A c \in Chats : ~ Expire(c)
<1>1. /\ Interruptions = 0 /\ Interruptions' = 0
      /\ faults["expiry"] = 0 /\ faults'["expiry"] = 0
  BY DEF Faultless, FaultKinds, Interruptions
<1> QED
  BY <1>1, FaultKindsEffect

LEMMA IntactStep ==
  ASSUME TypeInv, Intact, Alone, Faultless, Faultless', [Next]_vars
  PROVE  Intact'
<1>1. LocalOK /\ SharedOK
  BY TypeInvParts
<1> SUFFICES ASSUME NEW p \in Workers, Flushing(p)'
             PROVE  held'[p] # <<>> /\ window'[dest'[p]] = held'[p]
  BY DEF Intact
<1>2. CASE /\ Flushing(p) /\ ~ Push(p) /\ ~ Delete(p)
           /\ held'[p] = held[p] /\ dest'[p] = dest[p]
  <2>1. Active(p)
    BY <1>2 DEF Flushing, Owning, Analysing, Active
  <2>2. ASSUME NEW q \in Workers, Push(q) \/ Delete(q)
        PROVE  FALSE
    <3>1. Active(q)
      BY <2>2 DEF Push, Delete, Goto, Active
    <3> QED
      BY <1>2, <2>1, <2>2, <3>1 DEF Alone
  <2>3. window' = window
    BY <2>2, Unfaulted, WindowEffect
  <2> QED
    BY <1>2, <2>3 DEF Intact
<1>3. CASE Reads(p)
  <2>1. window' = window
    BY <1>3 DEF Reads, Flush
  <2>2. window[dest[p]] # <<>>
    BY <1>1, <1>3 DEF Reads, Flush, ReadWindow, AfterFlush, Return, Forget, LocalOK, Flushing,
       Owning, Analysing
  <2> QED
    BY <1>3, <2>1, <2>2 DEF Reads
<1> QED
  BY <1>2, <1>3, FlushingEffect

LEMMA AnnouncedStep ==
  ASSUME TypeInv, Fresh, Owned, Announced, [Next]_vars
  PROVE  Announced'
<1>1. SharedOK /\ LocalOK
  BY TypeInvParts
<1>2. nextWin \in Nat /\ nextWin' \in Nat /\ nextWin <= nextWin'
  BY NextWinGrows
<1>3. \A i \in DOMAIN preprocessed : preprocessed[i].win \in Nat
  <2>1. \A i \in DOMAIN preprocessed : preprocessed[i] \in Analyses
    BY <1>1 DEF SharedOK
  <2> QED
    BY <2>1 DEF Analyses
<1>4. ASSUME NEW i \in DOMAIN preprocessed'
      PROVE  preprocessed'[i].win < nextWin'
  <2>1. CASE i \in DOMAIN preprocessed /\ preprocessed'[i] = preprocessed[i]
    BY <1>2, <1>3, <2>1 DEF Announced
  <2>2. ASSUME NEW p \in Workers, preprocessed'[i] = Event(p)
        PROVE  preprocessed'[i].win < nextWin'
    <3>1. preprocessed'[i].win = win[p]
      BY <2>2 DEF Event
    <3>2. win[p] < nextWin /\ win[p] \in Nat
      BY <1>1 DEF Fresh, LocalOK
    <3> QED
      BY <1>2, <3>1, <3>2
  <2> QED
    BY <2>1, <2>2, PreprocessedOrigin
<1>5. ASSUME NEW p \in Workers, Owning(p)', NEW i \in DOMAIN preprocessed',
             preprocessed'[i].win = win'[p]
      PROVE  preprocessed'[i].msgs = held'[p]
  <2>1. CASE Keeps(p)
    <3>1. Owning(p) /\ win'[p] = win[p] /\ held'[p] = held[p]
      BY <1>5, <2>1 DEF Keeps
    <3>2. CASE i \in DOMAIN preprocessed /\ preprocessed'[i] = preprocessed[i]
      BY <1>5, <3>1, <3>2 DEF Announced
    <3>3. ASSUME NEW q \in Workers, preprocessed'[i] = Event(q)
          PROVE  preprocessed'[i].msgs = held'[p]
      <4>1. preprocessed'[i].win = win[q] /\ preprocessed'[i].msgs = held[q]
        BY <3>3 DEF Event
      <4>2. q = p
        BY <1>5, <3>1, <4>1 DEF Owned
      <4> QED
        BY <3>1, <4>1, <4>2
    <3> QED
      BY <3>2, <3>3, PreprocessedOrigin
  <2>2. CASE Reads(p)
    <3>1. preprocessed' = preprocessed /\ win'[p] = nextWin
      BY <1>1, <2>2 DEF Reads, Flush, output, LocalOK
    <3>2. preprocessed[i].win < nextWin
      BY <1>5, <3>1 DEF Announced
    <3> QED
      BY <1>2, <1>3, <1>5, <3>1, <3>2
  <2> QED
    BY <1>5, <2>1, <2>2, HeldEffect DEF Clears, Fetches
<1> QED
  BY <1>4, <1>5 DEF Announced

\* A message gets its first window with the command of the flush that holds it.
LEMMA WindowsEffect ==
  ASSUME TypeInv, CommandBacked, Reprocessing, Owned, Announced, [Next]_vars,
         NEW m, WindowsOf(m) = {}, WindowsOf(m)' # {}
  PROVE  \E p \in Workers : EmitCommand(p) /\ Owning(p) /\ m \in Elements(held[p])
<1>1. SharedOK /\ LocalOK
  BY TypeInvParts
<1>2. PICK k \in DOMAIN commands', i \in DOMAIN preprocessed' :
        preprocessed'[i].win = commands'[k].win /\ m \in Elements(preprocessed'[i].msgs)
  BY DEF WindowsOf
<1>3. \A l \in DOMAIN commands, j \in DOMAIN preprocessed :
        ~ (preprocessed[j].win = commands[l].win /\ m \in Elements(preprocessed[j].msgs))
  BY WindowOf
<1>4. ASSUME k \in DOMAIN commands, commands'[k] = commands[k],
             NEW p \in Workers, EmitPreprocessed(p), preprocessed'[i] = Event(p)
      PROVE  FALSE
  <2>1. win[p] = commands[k].win /\ m \in Elements(held[p]) /\ pc[p] = "graph"
    BY <1>2, <1>4 DEF Event, EmitPreprocessed, Goto
  <2>2. CASE why[p] = "reprocess"
    <3>1. PICK j \in DOMAIN preprocessed :
            /\ preprocessed[j].win = win[p]
            /\ Elements(held[p]) \subseteq Elements(preprocessed[j].msgs)
      BY <2>2, RepeatedEmission
    <3> QED
      BY <1>3, <1>4, <2>1, <3>1
  <2>3. CASE why[p] # "reprocess"
    BY <1>4, <2>1, <2>3 DEF Owned, Owning, Analysing
  <2> QED
    BY <2>2, <2>3
<1>5. ASSUME NEW p \in Workers, EmitCommand(p), NEW list, commands'[k] = Command(p, list)
      PROVE  Owning(p) /\ m \in Elements(held[p])
  <2>1. preprocessed' = preprocessed /\ pc[p] = "command" /\ preprocessed[i].win = win[p]
    BY <1>2, <1>5 DEF EmitCommand, Command
  <2>2. why[p] # "reprocess"
    <3>1. SUFFICES ASSUME why[p] = "reprocess"
                   PROVE  FALSE
      OBVIOUS
    <3>2. PICK l \in DOMAIN commands : commands[l].win = win[p]
      BY <3>1 DEF Reprocessing, Repeats
    <3> QED
      BY <1>2, <1>3, <2>1, <3>2
  <2>3. Owning(p)
    BY <2>1, <2>2 DEF Owning, Analysing
  <2> QED
    BY <1>2, <2>1, <2>3 DEF Announced
<1>6. \/ k \in DOMAIN commands /\ commands'[k] = commands[k]
      \/ \E p \in Workers : EmitCommand(p) /\ \E list : commands'[k] = Command(p, list)
  BY CommandsEffect
<1>7. \/ i \in DOMAIN preprocessed /\ preprocessed'[i] = preprocessed[i]
      \/ \E p \in Workers : EmitPreprocessed(p) /\ preprocessed'[i] = Event(p)
  BY PreprocessedOrigin
<1> QED
  BY <1>2, <1>3, <1>4, <1>5, <1>6, <1>7

\* A message is in hand from its mark to its push.
LEMMA HandEffect ==
  ASSUME TypeInv, Uninterrupted, [Next]_vars, NEW m
  PROVE  /\ InHand(m)' /\ ~ InHand(m) => \E p \in Workers : MarkMessage(p) /\ item[p] = m
         /\ InHand(m) /\ ~ InHand(m)' => \E p \in Workers : Push(p) /\ item[p] = m
<1>1. ASSUME InHand(m)', ~ InHand(m)
      PROVE  \E p \in Workers : MarkMessage(p) /\ item[p] = m
  <2>1. PICK p \in Workers : item'[p] = m /\ Marked(p)'
    BY <1>1 DEF InHand, Marked
  <2>2. item[p] = m /\ (Marked(p) \/ MarkMessage(p))
    BY <2>1, MarkedEffect
  <2> QED
    BY <1>1, <2>2, InHandIs
<1>2. ASSUME InHand(m), ~ InHand(m)'
      PROVE  \E p \in Workers : Push(p) /\ item[p] = m
  <2>1. PICK p \in Workers : item[p] = m /\ Marked(p)
    BY <1>2, InHandIs
  <2>2. Push(p) \/ (Marked(p)' /\ item'[p] = m)
    BY <2>1, MarkedStays
  <2> QED
    BY <1>2, <2>1, <2>2 DEF InHand, Marked
<1> QED
  BY <1>1, <1>2

\* A list is only deleted when everything in it is in a window.
LEMMA StoredStays ==
  ASSUME TypeInv, Covered, Deleting, Faultless, Faultless', [Next]_vars,
         NEW c \in Chats, NEW m \in Stored(c), m \notin Stored(c)'
  PROVE  WindowsOf(m) # {}
<1>1. SharedOK /\ LocalOK
  BY TypeInvParts
<1>2. ASSUME NEW p \in Workers, Push(p), dest[p] = c
      PROVE  FALSE
  <2>1. item[p] \in Messages
    BY <1>1, <1>2 DEF Push, Goto, LocalOK, Control
  <2>2. window[c] \in Seq(Messages) /\ window'[c] = Append(window[c], item[p])
    BY <1>1, <1>2 DEF SharedOK, Push
  <2>3. Stored(c)' = Stored(c) \cup {item[p]}
    BY <2>1, <2>2, ElementsOfAppend DEF Stored
  <2> QED
    BY <2>3
<1>3. window'[c] # window[c]
  BY DEF Stored
<1>4. PICK p \in Workers : Delete(p) /\ dest[p] = c
  BY <1>1, <1>2, <1>3, WindowEffect, Unfaulted DEF SharedOK, Push, Delete
<1>5. pc[p] = "delete"
  BY <1>4 DEF Delete
<1>6. m \in Elements(held[p])
  BY <1>4, <1>5 DEF Covered, Flushing
<1>7. PICK i \in DOMAIN preprocessed, k \in DOMAIN commands :
        /\ preprocessed[i].win = win[p] /\ preprocessed[i].msgs = held[p]
        /\ commands[k].win = win[p]
  BY <1>5 DEF Deleting
<1> QED
  BY <1>6, <1>7, WindowOf

Closes(p) == EmitCommand(p) /\ Owning(p)

\* A message's stage changes by its mark, its push and the command of its flush.
LEMMA StageStays ==
  ASSUME Inv, LossInv, Announced, Faultless, Faultless', [Next]_vars,
         NEW m \in Messages,
         \A p \in Workers : (MarkMessage(p) \/ Push(p)) => item[p] # m,
         \A p \in Workers : Closes(p) => m \notin Elements(held[p])
  PROVE  Stage(m)' = Stage(m)
<1>1. /\ TypeInv /\ Reprocessing /\ CommandBacked /\ Owned
      /\ Covered /\ Deleting
  BY DEF Inv, Backing, LossInv
<1>2. PICK c \in Chats : c = Chat[m]
  BY OrchestratorAssumption
<1>3. WindowsOf(m)' # {} <=> WindowsOf(m) # {}
  BY <1>1, WindowsEffect, WindowsStay DEF Closes
<1>4. InHand(m)' <=> InHand(m)
  BY <1>1, HandEffect, Unfaulted
<1>5. m \in Stored(c)' => m \in Stored(c)
  BY <1>1, StoredEffect
<1>6. WindowsOf(m) # {} \/ (m \in Stored(c)' <=> m \in Stored(c))
  BY <1>1, <1>5, StoredStays
<1> QED
  BY <1>2, <1>3, <1>4, <1>6 DEF Stage

\* The active worker is the only one that takes a step of a handler.
LEMMA OneSteps ==
  ASSUME Alone, NEW p \in Workers, NEW q \in Workers,
         MarkMessage(p) \/ Push(p) \/ Closes(p), MarkMessage(q) \/ Push(q) \/ Closes(q)
  PROVE  /\ p = q
         /\ MarkMessage(p) <=> MarkMessage(q)
         /\ Push(p) <=> Push(q)
         /\ Closes(p) <=> Closes(q)
<1>1. Active(p) /\ Active(q)
  BY DEF Closes, EmitCommand, MarkMessage, Push, Goto, Active
<1> QED
  BY <1>1 DEF Alone

\* Batcher's instance of the standard module is the standard module.
LEMMA SameCardinality ==
  ASSUME NEW S
  PROVE  Abstract!Cardinality(S) = Cardinality(S)
  BY DEF Cardinality, Abstract!Cardinality

LEMMA AcceptStep ==
  ASSUME Inv, LossInv, Announced, Alone, Faultless, Faultless', [Next]_vars,
         NEW p \in Workers, MarkMessage(p)
  PROVE  \E m \in Messages : Abstract!Accept(m)
<1>1. /\ LocalOK /\ TypeInv /\ Marking /\ MarkedFirst /\ Placed
  BY TypeInvParts DEF Inv, LossInv, Marking
<1>2. PICK m \in Messages : m = item[p]
  BY DEF MarkMessage
<1>3. m \notin processed
  BY <1>1, <1>2 DEF Placed, Marks, MarkMessage, Goto
<1>4. /\ m \notin Stored(Chat[m])
      /\ \A i \in DOMAIN preprocessed : m \notin Elements(preprocessed[i].msgs)
      /\ ~ InHand(m)
  BY <1>1, <1>3, OrchestratorAssumption, InHandIs DEF Marking, MarkedFirst, Marked
<1>5. WindowsOf(m) = {}
  BY <1>4 DEF WindowsOf
<1>6. Stage(m) = "new"
  BY <1>4, <1>5 DEF Stage
<1>7. /\ UNCHANGED <<window, preprocessed, commands>>
      /\ pc'[p] = "load" /\ item'[p] = m
  BY <1>1, <1>2 DEF MarkMessage, Goto, LocalOK, output
<1>8. InHand(m)'
  BY <1>7 DEF InHand
<1>9. m \notin Stored(Chat[m])' /\ WindowsOf(m)' = {}
  BY <1>4, <1>5, <1>7 DEF Stored, WindowsOf
<1>10. Stage(m)' = "accepted"
  BY <1>8, <1>9 DEF Stage
<1>11. ASSUME NEW n \in Messages \ {m}
       PROVE  Stage(n)' = Stage(n)
  <2>1. ASSUME NEW q \in Workers, MarkMessage(q) \/ Push(q) \/ Closes(q)
        PROVE  q = p /\ ~ Closes(q)
    <3>1. q = p
      BY <2>1, OneSteps
    <3>2. pc[p] = "mark"
      BY DEF MarkMessage, Goto
    <3> QED
      BY <3>1, <3>2 DEF Closes, EmitCommand
  <2> QED
    BY <1>2, <2>1, StageStays
<1> QED
  BY <1>6, <1>10, <1>11 DEF Abstract!Accept

\* A list has room for the message its handler is about to push.
LEMMA Room ==
  ASSUME TypeInv, Short, Alone, Faultless, NEW p \in Workers, Push(p), NEW c \in Chats
  PROVE  /\ IsFiniteSet(Stored(c)) /\ Cardinality(Stored(c)) \in Nat
         /\ Cardinality(Stored(c)) < WindowSize
<1>1. LocalOK /\ SharedOK
  BY TypeInvParts
<1>2. pc[p] = "push" /\ why[p] = "none"
  BY <1>1 DEF Push, Goto, LocalOK, Control
<1>3. ASSUME NEW q \in Workers, Filling(q)
      PROVE  FALSE
  <2>1. Active(q)
    BY <1>1, <1>3 DEF Filling, Active, LocalOK, Control
  <2>2. q = p
    BY <1>2, <2>1 DEF Alone, Active
  <2> QED
    BY <1>2, <1>3, <2>2 DEF Filling
<1>4. Interruptions = 0 /\ WindowSize \in Nat
  BY OrchestratorAssumption DEF Faultless, FaultKinds, Interruptions
<1>5. Len(window[c]) < WindowSize + Interruptions
  BY <1>3 DEF Short
<1>6. window[c] \in Seq(Messages) /\ Len(window[c]) \in Nat
  BY <1>1 DEF SharedOK
<1>7. IsFiniteSet(Stored(c)) /\ Cardinality(Stored(c)) <= Len(window[c])
  BY <1>6, ListSize DEF Stored
<1>8. Cardinality(Stored(c)) \in Nat
  BY <1>7, FS_CardinalityType
<1> QED
  BY <1>4, <1>5, <1>6, <1>7, <1>8

LEMMA JoinStep ==
  ASSUME Inv, LossInv, Announced, Alone, Faultless, Faultless', [Next]_vars,
         NEW p \in Workers, Push(p)
  PROVE  \E m \in Messages : Abstract!Join(m)
<1>1. /\ LocalOK /\ SharedOK /\ TypeInv /\ Placed /\ Unseen /\ Short
  BY TypeInvParts DEF Inv, LossInv
<1>2. pc[p] = "push" /\ item[p] \in Messages /\ dest[p] \in Chats
  BY <1>1 DEF Push, Goto, LocalOK, Control
<1>3. PICK m \in Messages : m = item[p]
  BY <1>2
<1>4. PICK c \in Chats : c = Chat[m] /\ c = dest[p]
  BY <1>1, <1>2, <1>3 DEF Placed, Marked
<1>5. /\ m \notin Stored(c)
      /\ \A i \in DOMAIN preprocessed : m \notin Elements(preprocessed[i].msgs)
      /\ InHand(m)
  BY <1>1, <1>2, <1>3, InHandIs DEF Unseen, Marked
<1>6. WindowsOf(m) = {}
  BY <1>5 DEF WindowsOf
<1>7. Stage(m) = "accepted"
  BY <1>4, <1>5, <1>6 DEF Stage
<1>8. m \in Stored(c)'
  <2>1. window[c] \in Seq(Messages) /\ window'[c] = Append(window[c], m)
    BY <1>1, <1>3, <1>4 DEF SharedOK, Push
  <2>2. m \in Elements(window'[c])
    BY <2>1, ElementsOfAppend
  <2> QED
    BY <2>2 DEF Stored
<1>9. WindowsOf(m)' = {}
  BY <1>6 DEF WindowsOf, Push, output
<1>10. Stage(m)' = "open"
  BY <1>4, <1>8, <1>9 DEF Stage
<1>11. ASSUME NEW n \in Messages \ {m}
       PROVE  Stage(n)' = Stage(n)
  <2>1. ASSUME NEW q \in Workers, MarkMessage(q) \/ Push(q) \/ Closes(q)
        PROVE  q = p /\ ~ Closes(q)
    <3>1. q = p
      BY <2>1, OneSteps
    <3> QED
      BY <1>2, <3>1 DEF Closes, EmitCommand
  <2> QED
    BY <1>3, <2>1, StageStays
<1>12. Cardinality({n \in Messages : Chat[n] = c /\ Stage(n) = "open"}) < WindowSize
  <2>1. PICK B : B = {n \in Messages : Chat[n] = c /\ Stage(n) = "open"}
    OBVIOUS
  <2>2. B \subseteq Stored(c)
    BY <2>1 DEF Stage
  <2>3. /\ IsFiniteSet(Stored(c)) /\ Cardinality(Stored(c)) \in Nat
        /\ Cardinality(Stored(c)) < WindowSize
    BY <1>1, Room
  <2>4. Cardinality(B) \in Nat /\ Cardinality(B) <= Cardinality(Stored(c))
    BY <2>2, <2>3, AtMostOneMore
  <2>5. WindowSize \in Nat
    BY OrchestratorAssumption
  <2>6. Cardinality(B) < WindowSize
    BY <2>3, <2>4, <2>5
  <2> QED
    BY <2>1, <2>6
<1>13. Abstract!Batch(Chat[m]) = {n \in Messages : Chat[n] = c /\ Stage(n) = "open"}
  BY <1>4 DEF Abstract!Batch
<1>14. Abstract!Cardinality(Abstract!Batch(Chat[m])) < WindowSize
  BY <1>12, <1>13, SameCardinality
<1> QED
  BY <1>7, <1>10, <1>11, <1>14 DEF Abstract!Join

LEMMA AtMostOne ==
  ASSUME NEW S, IsFiniteSet(S), Cardinality(S) <= 1
  PROVE  \A x, y \in S : x = y
<1>1. Cardinality(S) \in Nat
  BY FS_CardinalityType
<1>2. CASE Cardinality(S) = 0
  BY <1>2, FS_EmptySet
<1>3. CASE Cardinality(S) = 1
  BY <1>3, FS_Singleton
<1> QED
  BY <1>1, <1>2, <1>3

LEMMA CloseStep ==
  ASSUME Inv, LossInv, BatchInv, Alone, Faultless, Faultless', [Next]_vars,
         NEW p \in Workers, Closes(p)
  PROVE  \E m \in Messages : Abstract!Close(Chat[m])
<1>1. /\ LocalOK /\ SharedOK /\ TypeInv /\ Owned /\ Backing
      /\ Placed /\ Covered /\ Repeated /\ Intact /\ Announced
  BY TypeInvParts DEF Inv, LossInv, BatchInv
<1>2. pc[p] = "command" /\ dest[p] \in Chats /\ Flushing(p)
  BY <1>1 DEF Closes, EmitCommand, LocalOK, Control, Analysing, Flushing
<1>3. PICK c \in Chats : c = dest[p]
  BY <1>2
<1>4. PICK i \in DOMAIN preprocessed : preprocessed[i].win = win[p] /\ preprocessed[i].msgs = held[p]
  BY <1>1, <1>2 DEF Backing, Emitting
<1>5. Stored(c) = Elements(held[p]) /\ Elements(held[p]) # {} /\ Elements(held[p]) \subseteq Messages
  <2>1. held[p] \in Seq(Messages) /\ held[p] # <<>> /\ window[c] = held[p]
    BY <1>1, <1>2, <1>3 DEF LocalOK, Intact
  <2>2. 1 \in DOMAIN held[p]
    BY <2>1
  <2>3. Elements(held[p]) \subseteq Messages
    BY <2>1 DEF Elements
  <2> QED
    BY <2>1, <2>2, <2>3 DEF Stored, Elements
<1>6. ASSUME NEW m \in Elements(held[p])
      PROVE  Chat[m] = c /\ Stage(m) = "open"
  <2>1. m \in Messages /\ Chat[m] = c
    BY <1>1, <1>2, <1>3, <1>5, <1>6 DEF Placed
  <2>2. win[p] \in Emitted(m) /\ win[p] \notin WindowsOf(m) /\ WindowsOf(m) \subseteq Emitted(m)
    <3>1. win[p] \in Emitted(m)
      BY <1>4, <1>6 DEF Emitted
    <3>2. win[p] \notin {commands[k].win : k \in DOMAIN commands}
      BY <1>1 DEF Closes, Owned
    <3>3. win[p] \notin WindowsOf(m)
      BY <3>2 DEF WindowsOf
    <3>4. WindowsOf(m) \subseteq Emitted(m)
      BY DEF WindowsOf, Emitted
    <3> QED
      BY <3>1, <3>3, <3>4
  <2>3. \A x, y \in Emitted(m) : x = y
    <3>1. PICK S : S = Emitted(m)
      OBVIOUS
    <3>2. IsFiniteSet(S) /\ Cardinality(S) <= 1
      <4>1. Interruptions = 0
        BY DEF Faultless, FaultKinds, Interruptions
      <4>2. IsFiniteSet(S) /\ Cardinality(S) <= Interruptions + 1
        BY <1>1, <2>1, <3>1 DEF Repeated
      <4> QED
        BY <4>1, <4>2
    <3> QED
      BY <3>1, <3>2, AtMostOne
  <2>4. WindowsOf(m) = {}
    BY <2>2, <2>3
  <2> QED
    BY <1>5, <1>6, <2>1, <2>4 DEF Stage
<1>7. ASSUME NEW m \in Elements(held[p])
      PROVE  Stage(m)' = "analysed"
  <2>1. PICK list \in NormalForms(held[p]) : commands' = Append(commands, Command(p, list))
    BY DEF Closes, EmitCommand, Command
  <2>2. commands \in Seq(Analyses) /\ Command(p, list) \in Analyses
    BY <1>1, <1>2, <2>1, NormalFormType DEF SharedOK, LocalOK, Analyses, Command
  <2>3. Len(commands) + 1 \in DOMAIN commands' /\ commands'[Len(commands) + 1] = Command(p, list)
    BY <2>1, <2>2, AppendGrows
  <2>4. preprocessed' = preprocessed /\ Command(p, list).win = win[p]
    BY DEF Closes, EmitCommand, Command
  <2>5. win[p] \in {commands'[k].win : k \in DOMAIN commands'}
    BY <2>3, <2>4
  <2>6. win[p] \in WindowsOf(m)'
    BY <1>4, <1>7, <2>4, <2>5 DEF WindowsOf
  <2> QED
    BY <2>6 DEF Stage
<1>8. ASSUME NEW m \in Messages, m \notin Elements(held[p])
      PROVE  Stage(m)' = Stage(m)
  <2>1. ASSUME NEW q \in Workers, MarkMessage(q) \/ Push(q) \/ Closes(q)
        PROVE  q = p /\ ~ MarkMessage(q) /\ ~ Push(q)
    <3>1. q = p
      BY <2>1, OneSteps
    <3> QED
      BY <1>2, <3>1 DEF MarkMessage, Push, Goto
  <2> QED
    BY <1>1, <1>8, <2>1, StageStays
<1>9. {m \in Messages : Chat[m] = c /\ Stage(m) = "open"} = Elements(held[p])
  <2>1. ASSUME NEW m \in Messages, Chat[m] = c, Stage(m) = "open"
        PROVE  m \in Elements(held[p])
    BY <1>5, <2>1 DEF Stage
  <2> QED
    BY <1>5, <1>6, <2>1
<1>10. Abstract!Batch(c) = Elements(held[p])
  BY <1>9 DEF Abstract!Batch
<1>11. Abstract!Close(c)
  BY <1>5, <1>7, <1>8, <1>10 DEF Abstract!Close
<1>12. PICK m \in Messages : Chat[m] = c
  BY <1>5, <1>6
<1> QED
  BY <1>11, <1>12

\* Without faults, and with the consumer and the script taking turns, the consumer
\* is a Batcher: it accepts a message once, lets it join a batch that has room, and
\* counts it as analysed together with all of its batch.
THEOREM BatcherImplemented == Spec /\ []Alone /\ []Faultless => ImplementsBatcher
<1>1. Init => Abstract!Init
  <2> SUFFICES ASSUME Init, NEW m \in Messages
               PROVE  Stage(m) = "new"
    BY DEF Abstract!Init
  <2>1. /\ \A p \in Workers : pc[p] = "off" /\ why[p] = "none"
        /\ \A c \in Chats : window[c] = <<>>
        /\ preprocessed = <<>>
    BY DEF Init
  <2>2. ~ InHand(m) /\ m \notin Stored(Chat[m]) /\ WindowsOf(m) = {}
    BY <2>1, OrchestratorAssumption DEF InHand, Stored, Elements, WindowsOf
  <2> QED
    BY <2>2 DEF Stage
<1>2. Inv /\ LossInv /\ BatchInv /\ Alone /\ Faultless /\ Faultless' /\ [Next]_vars
        => [Abstract!Next]_([m \in Messages |-> Stage(m)])
  <2> SUFFICES ASSUME Inv, LossInv, BatchInv, Alone, Faultless, Faultless', [Next]_vars
               PROVE  [Abstract!Next]_([m \in Messages |-> Stage(m)])
    OBVIOUS
  <2>1. Announced
    BY DEF BatchInv
  <2>2. CASE \E p \in Workers : MarkMessage(p) \/ Push(p) \/ Closes(p)
    BY <2>1, <2>2, AcceptStep, JoinStep, CloseStep DEF Abstract!Next
  <2>3. CASE ~ \E p \in Workers : MarkMessage(p) \/ Push(p) \/ Closes(p)
    BY <2>1, <2>3, StageStays
  <2> QED
    BY <2>2, <2>3
<1>3. Init => BatchInv
  BY DEF Init, BatchInv, Intact, Announced, Flushing, Owning, Analysing
<1>4. Inv /\ Alone /\ Faultless /\ Faultless' /\ BatchInv /\ [Next]_vars => BatchInv'
  BY IntactStep, AnnouncedStep DEF Inv, BatchInv
<1> QED
  BY <1>1, <1>2, <1>3, <1>4, Invariance, LossInvariance, PTL
     DEF Spec, ImplementsBatcher, Abstract!Spec
==============================================================================

---------------------------- MODULE RekeyProofs ----------------------------
(***************************************************************************)
(* Proofs about Rekey, for any number of tasks, files, master keys and      *)
(* phrases: types and the order of keys whatever overlaps, fails and        *)
(* crashes; that calm behaviours leave a vault that opens, with its files,  *)
(* its phrase and its cloud.                                                *)
(***************************************************************************)
EXTENDS Rekey, SequenceTheorems, TLAPS

(* Where the tasks of each kind can be.                                     *)
Shaped(k, pc) ==
    \/ k = "none" /\ pc = "idle"
    \/ k = "change" /\ pc \in {"rewrap", "rekey", "swap", "stage", "upload", "manifest", "write"}
    \/ k = "setup" /\ pc \in {"stage", "upload", "write"}
    \/ k = "recover" /\ pc \in {"rewrap", "rekey", "stage", "upload", "manifest", "flag",
                                "install", "write"}
    \/ k = "sync" /\ pc \in {"push", "pushHeader", "clear"}

Shapes == \A t \in Tasks : Shaped(task[t].kind, task[t].pc)

(* A phrase handed in or out is one that was generated.                     *)
PhrasesGiven == \A t \in Tasks : task[t].kind = "setup" => task[t].phrase \in Phrases

Typed == TypeOK /\ Shapes /\ PhrasesGiven

LEMMA BoundsFacts ==
    /\ MaxGen \in Nat \ {0} /\ MaxPhrases \in Nat /\ GenLimit \in Nat /\ GenLimit <= MaxGen
  BY BoundsAssumption DEF GenLimit

LEMMA IdleTask ==
    Idle \in Ceremony /\ Idle.kind = "none" /\ Idle.pc = "idle" /\ NoHeader \in Header
  <1>1. NoHeader \in Header
    BY BoundsFacts DEF NoHeader, Header, Gens
  <1>2. QED BY <1>1, BoundsFacts DEF Idle, Ceremony, Gens

LEMMA RewrappedTyped ==
    ASSUME NEW slots \in Seq(Slot), NEW q \in Phrases, NEW n \in Gens
    PROVE  /\ FirstRewrapped(slots, q, n) \in Seq(Slot)
           /\ slots # <<>> =>
                /\ FirstRewrapped(slots, q, n) # <<>>
                /\ FirstRewrapped(slots, q, n)[1].key = n
  <1>1. CASE slots = <<>>
    BY <1>1 DEF FirstRewrapped
  <1>2. CASE slots # <<>>
    <2> DEFINE s == [slots[1] EXCEPT !.under = q, !.key = n]
    <2>1. Len(slots) \in Nat /\ Len(slots) >= 1 /\ slots[1] \in Slot
      BY <1>2
    <2>2. s \in Slot /\ s.key = n
      BY <2>1 DEF Slot
    <2>3. FirstRewrapped(slots, q, n) = [slots EXCEPT ![1] = s]
      BY <1>2 DEF FirstRewrapped
    <2> HIDE DEF s
    <2>4. [slots EXCEPT ![1] = s] \in Seq(Slot) /\ [slots EXCEPT ![1] = s][1] = s
          /\ Len([slots EXCEPT ![1] = s]) = Len(slots)
      BY <2>1, <2>2
    <2>5. QED BY <2>1, <2>2, <2>3, <2>4
  <1>3. QED BY <1>1, <1>2

LEMMA SlotAdded ==
    ASSUME NEW slots \in Seq(Slot), NEW s \in Slot
    PROVE  /\ Append(slots, s) \in Seq(Slot) /\ Append(slots, s) # <<>>
           /\ slots = <<>> => Append(slots, s)[1] = s
           /\ slots # <<>> => Append(slots, s)[1] = slots[1]
  <1>1. Append(slots, s) \in Seq(Slot) /\ Append(slots, s) # <<>>
    BY AppendProperties
  <1>2. CASE slots = <<>>
    BY <1>1, <1>2
  <1>3. CASE slots # <<>>
    <2>1. Len(slots) \in Nat /\ 1 \in 1 .. Len(slots)
      BY <1>3
    <2>2. Append(slots, s)[1] = slots[1]
      BY <2>1, AppendProperties
    <2>3. QED BY <1>1, <1>3, <2>2
  <1>4. QED BY <1>2, <1>3

-----------------------------------------------------------------------------
(* What a step does to its task, field by field.                            *)
Others(t) == \A u \in Tasks : u # t => task'[u] = task[u]

Becomes(t, k, pc, ok) ==
    /\ task'[t].kind = k /\ task'[t].pc = pc /\ task'[t].ok = ok
    /\ task'[t].hdr = task[t].hdr /\ task'[t].old = task[t].old
    /\ task'[t].new = task[t].new /\ task'[t].phrase = task[t].phrase
    /\ Others(t) /\ task' \in [Tasks -> Ceremony]

Ends(t) ==
    /\ task'[t].kind = "none" /\ task'[t].pc = "idle"
    /\ Others(t) /\ task' \in [Tasks -> Ceremony]

Begins(t, k, pc) ==
    /\ task'[t].kind = k /\ task'[t].pc = pc /\ task'[t].ok = TRUE
    /\ Others(t) /\ task' \in [Tasks -> Ceremony]

Places == {"idle", "rewrap", "rekey", "swap", "stage", "upload", "manifest",
           "flag", "install", "write", "push", "pushHeader", "clear"}

LEMMA GotoBecomes ==
    ASSUME Typed, NEW t \in Tasks, NEW pc \in Places, Goto(t, pc)
    PROVE  Becomes(t, task[t].kind, pc, task[t].ok)
  <1> DEFINE r == [task[t] EXCEPT !.pc = pc]
  <1>1. task[t] \in Ceremony
    BY DEF Typed, TypeOK
  <1>2. /\ r \in Ceremony /\ r.kind = task[t].kind /\ r.pc = pc /\ r.ok = task[t].ok
        /\ r.hdr = task[t].hdr /\ r.old = task[t].old /\ r.new = task[t].new
        /\ r.phrase = task[t].phrase
    BY <1>1 DEF Ceremony, Places
  <1>3. task' = [task EXCEPT ![t] = r]
    BY DEF Goto
  <1> HIDE DEF r
  <1>4. QED BY <1>2, <1>3 DEF Becomes, Others, Typed, TypeOK

LEMMA FailBecomes ==
    ASSUME Typed, NEW t \in Tasks, NEW pc \in Places,
           task' = [task EXCEPT ![t] = [@ EXCEPT !.pc = pc, !.ok = FALSE]]
    PROVE  Becomes(t, task[t].kind, pc, FALSE)
  <1> DEFINE r == [task[t] EXCEPT !.pc = pc, !.ok = FALSE]
  <1>1. task[t] \in Ceremony
    BY DEF Typed, TypeOK
  <1>2. /\ r \in Ceremony /\ r.kind = task[t].kind /\ r.pc = pc /\ r.ok = FALSE
        /\ r.hdr = task[t].hdr /\ r.old = task[t].old /\ r.new = task[t].new
        /\ r.phrase = task[t].phrase
    BY <1>1 DEF Ceremony, Places
  <1>3. task' = [task EXCEPT ![t] = r]
    OBVIOUS
  <1> HIDE DEF r
  <1>4. QED BY <1>2, <1>3 DEF Becomes, Others, Typed, TypeOK

LEMMA SyncBecomes ==
    ASSUME Typed, NEW t \in Tasks,
           task' = [task EXCEPT ![t] = [@ EXCEPT !.kind = "sync", !.pc = "push"]]
    PROVE  Becomes(t, "sync", "push", task[t].ok)
  <1> DEFINE r == [task[t] EXCEPT !.kind = "sync", !.pc = "push"]
  <1>1. task[t] \in Ceremony
    BY DEF Typed, TypeOK
  <1>2. /\ r \in Ceremony /\ r.kind = "sync" /\ r.pc = "push" /\ r.ok = task[t].ok
        /\ r.hdr = task[t].hdr /\ r.old = task[t].old /\ r.new = task[t].new
        /\ r.phrase = task[t].phrase
    BY <1>1 DEF Ceremony
  <1>3. task' = [task EXCEPT ![t] = r]
    OBVIOUS
  <1> HIDE DEF r
  <1>4. QED BY <1>2, <1>3 DEF Becomes, Others, Typed, TypeOK

LEMMA RetireEnds ==
    ASSUME Typed, NEW t \in Tasks, Retire(t) PROVE Ends(t)
  BY IdleTask DEF Retire, Ends, Others, Typed, TypeOK

(* The new task of each kind.                                               *)
LEMMA ChangeBegins ==
    ASSUME Typed, NEW t \in Tasks, NEW q \in PhraseField, ChangeBegin(t, q)
    PROVE  /\ Begins(t, "change", "rewrap")
           /\ task'[t].old = localHdr.key /\ task'[t].new = gens + 1
           /\ task'[t].hdr.key = gens + 1
           /\ task'[t].hdr.slots = <<>> \/ task'[t].hdr.slots[1].key = gens + 1
           /\ gens' = gens + 1 /\ gens' \in Gens
  <1> DEFINE g == gens + 1
             slots == SlotsAfter(localHdr.slots, q, g)
             h == [key |-> g, slots |-> slots]
             r == [Idle EXCEPT !.kind = "change", !.pc = "rewrap", !.old = KeyOf(localHdr),
                               !.new = g, !.phrase = q, !.hdr = h]
  <1>1. g \in Gens /\ gens' = g
    BY BoundsFacts DEF ChangeBegin, Typed, TypeOK, Gens
  <1>2. localHdr.key \in Gens /\ localHdr.slots \in Seq(Slot) /\ q \in {0} \cup Phrases
    BY DEF Typed, TypeOK, Header, PhraseField
  <1>3. slots \in Seq(Slot) /\ (slots = <<>> \/ slots[1].key = g)
    <2>1. CASE q = 0
      BY <2>1 DEF SlotsAfter
    <2>2. CASE q # 0 /\ localHdr.slots = <<>>
      BY <2>2 DEF SlotsAfter, FirstRewrapped
    <2>3. CASE q # 0 /\ localHdr.slots # <<>>
      BY <1>1, <1>2, <2>3, RewrappedTyped DEF SlotsAfter
    <2>4. QED BY <2>1, <2>2, <2>3
  <1> HIDE DEF slots, g
  <1>4. h \in Header /\ h.key = g /\ h.slots = slots
    BY <1>1, <1>3 DEF Header
  <1> HIDE DEF h
  <1>5. q \in 0 .. MaxPhrases
    BY <1>2, BoundsFacts DEF Phrases
  <1>6. /\ r \in Ceremony /\ r.kind = "change" /\ r.pc = "rewrap" /\ r.ok = TRUE
        /\ r.old = localHdr.key /\ r.new = g /\ r.hdr = h
    BY <1>1, <1>2, <1>4, <1>5 DEF Ceremony, Idle, KeyOf
  <1>7. task' = [task EXCEPT ![t] = r]
    BY DEF ChangeBegin, g, slots, h
  <1> HIDE DEF r
  <1>8. QED BY <1>1, <1>3, <1>4, <1>6, <1>7 DEF Begins, Others, Typed, TypeOK, g

LEMMA SetupBegins ==
    ASSUME Typed, NEW t \in Tasks, SetupBegin(t)
    PROVE  /\ Begins(t, "setup", "stage")
           /\ task'[t].hdr.key = localHdr.key /\ task'[t].hdr.slots # <<>>
           /\ (localHdr.slots = <<>> \/ localHdr.slots[1].key = localHdr.key) =>
                  task'[t].hdr.slots[1].key = localHdr.key
           /\ task'[t].phrase \in Phrases
           /\ phrases' = task'[t].phrase
  <1> DEFINE p == phrases + 1
             k == localHdr.key
             s == [salt |-> p, under |-> p, key |-> k]
             slots == Append(localHdr.slots, s)
             h == [key |-> k, slots |-> slots]
             r == [Idle EXCEPT !.kind = "setup", !.pc = "stage", !.phrase = p, !.hdr = h]
  <1>1. p \in Phrases /\ phrases' = p /\ p \in 0 .. MaxPhrases
    BY BoundsFacts DEF SetupBegin, Typed, TypeOK, Phrases
  <1>2. k \in Gens /\ localHdr.slots \in Seq(Slot)
    BY DEF Typed, TypeOK, Header
  <1>3. s \in Slot /\ s.key = k
    BY <1>1, <1>2 DEF Slot
  <1> HIDE DEF s, p, k
  <1>4. /\ slots \in Seq(Slot) /\ slots # <<>>
        /\ localHdr.slots = <<>> => slots[1] = s
        /\ localHdr.slots # <<>> => slots[1] = localHdr.slots[1]
    BY <1>2, <1>3, SlotAdded
  <1> HIDE DEF slots
  <1>5. h \in Header /\ h.key = k /\ h.slots = slots
    BY <1>2, <1>4 DEF Header
  <1> HIDE DEF h
  <1>6. r \in Ceremony /\ r.kind = "setup" /\ r.pc = "stage" /\ r.ok = TRUE /\ r.hdr = h
        /\ r.phrase = p
    BY <1>1, <1>5, IdleTask DEF Ceremony, Idle
  <1>7. task' = [task EXCEPT ![t] = r]
    BY DEF SetupBegin, h, slots, s, p, k, KeyOf
  <1> HIDE DEF r
  <1>8. QED BY <1>1, <1>3, <1>4, <1>5, <1>6, <1>7 DEF Begins, Others, Typed, TypeOK, k

LEMMA RecoverBegins ==
    ASSUME Typed, NEW t \in Tasks, NEW q \in shown, RecoverBegin(t, q)
    PROVE  /\ Begins(t, "recover", "rewrap")
           /\ task'[t].new = gens + 1 /\ task'[t].hdr.key = gens + 1
           /\ task'[t].hdr.slots # <<>> /\ task'[t].hdr.slots[1].key = gens + 1
           /\ gens' = gens + 1 /\ gens' \in Gens
  <1>1. PICK i \in 1 .. Len(localHdr.slots) :
          task' = [task EXCEPT ![t] =
             [Idle EXCEPT !.kind = "recover", !.pc = "rewrap", !.old = localHdr.slots[i].key,
                !.new = gens + 1, !.phrase = q,
                !.hdr = [key |-> gens + 1,
                         slots |-> FirstRewrapped(localHdr.slots, q, gens + 1)]]]
    BY DEF RecoverBegin
  <1> DEFINE g == gens + 1
             o == localHdr.slots[i].key
             slots == FirstRewrapped(localHdr.slots, q, g)
             h == [key |-> g, slots |-> slots]
             r == [Idle EXCEPT !.kind = "recover", !.pc = "rewrap", !.old = o,
                               !.new = g, !.phrase = q, !.hdr = h]
  <1>2. g \in Gens /\ gens' = g
    BY BoundsFacts DEF RecoverBegin, Typed, TypeOK, Gens
  <1>3. localHdr.slots \in Seq(Slot) /\ q \in Phrases
    BY DEF Typed, TypeOK, Header
  <1>4. localHdr.slots[i] \in Slot /\ localHdr.slots # <<>>
    BY <1>1, <1>3
  <1>5. o \in Gens
    BY <1>4 DEF Slot
  <1>6. slots \in Seq(Slot) /\ slots # <<>> /\ slots[1].key = g
    BY <1>2, <1>3, <1>4, RewrappedTyped
  <1> HIDE DEF slots, g, o
  <1>7. h \in Header /\ h.key = g /\ h.slots = slots
    BY <1>2, <1>6 DEF Header
  <1> HIDE DEF h
  <1>8. q \in 0 .. MaxPhrases
    BY <1>3, BoundsFacts DEF Phrases
  <1>9. /\ r \in Ceremony /\ r.kind = "recover" /\ r.pc = "rewrap" /\ r.ok = TRUE
        /\ r.new = g /\ r.hdr = h
    BY <1>2, <1>5, <1>7, <1>8 DEF Ceremony, Idle
  <1>10. task' = [task EXCEPT ![t] = r]
    BY <1>1 DEF g, slots, h, o
  <1> HIDE DEF r
  <1>11. QED BY <1>2, <1>6, <1>7, <1>9, <1>10 DEF Begins, Others, Typed, TypeOK, g

LEMMA SyncBegins ==
    ASSUME Typed, NEW t \in Tasks, SyncBegin(t)
    PROVE  Begins(t, "sync", "push") /\ task'[t].hdr = localHdr /\ task'[t].new = session
  <1> DEFINE r == [Idle EXCEPT !.kind = "sync", !.pc = "push", !.hdr = localHdr, !.new = session]
  <1>1. localHdr \in Header /\ session \in Gens /\ 0 \in Gens /\ 0 \in 0 .. MaxPhrases
    BY BoundsFacts DEF Typed, TypeOK, Gens
  <1>2. /\ r \in Ceremony /\ r.kind = "sync" /\ r.pc = "push" /\ r.ok = TRUE
        /\ r.hdr = localHdr /\ r.new = session
    BY <1>1 DEF Ceremony, Idle
  <1>3. task' = [task EXCEPT ![t] = r]
    BY DEF SyncBegin
  <1> HIDE DEF r
  <1>4. QED BY <1>2, <1>3 DEF Begins, Others, Typed, TypeOK

-----------------------------------------------------------------------------
TasksTyped == task \in [Tasks -> Ceremony] /\ Shapes /\ PhrasesGiven

LEMMA BecomesTyped ==
    ASSUME Typed, NEW t \in Tasks, NEW k, NEW pc, NEW ok, Becomes(t, k, pc, ok), Shaped(k, pc),
           k \in {task[t].kind, "sync"}
    PROVE  TasksTyped'
  <1>1. Shapes'
    BY DEF Becomes, Others, Typed, Shapes
  <1>2. PhrasesGiven'
    BY DEF Becomes, Others, Typed, PhrasesGiven
  <1>3. QED BY <1>1, <1>2 DEF Becomes, TasksTyped

LEMMA EndsTyped ==
    ASSUME Typed, NEW t \in Tasks, Ends(t) PROVE TasksTyped'
  <1>1. Shapes'
    BY DEF Ends, Others, Typed, Shapes, Shaped
  <1>2. PhrasesGiven'
    BY DEF Ends, Others, Typed, PhrasesGiven
  <1>3. QED BY <1>1, <1>2 DEF Ends, TasksTyped

LEMMA BeginsTyped ==
    ASSUME Typed, NEW t \in Tasks, NEW k, NEW pc, Begins(t, k, pc), Shaped(k, pc),
           k = "setup" => task'[t].phrase \in Phrases
    PROVE  TasksTyped'
  <1>1. Shapes'
    BY DEF Begins, Others, Typed, Shapes
  <1>2. PhrasesGiven'
    BY DEF Begins, Others, Typed, PhrasesGiven
  <1>3. QED BY <1>1, <1>2 DEF Begins, TasksTyped

(* Every step of a running task moves it on or ends it.                     *)
LEMMA CeremonyMoves ==
    ASSUME Typed, NEW t \in Tasks, CeremonyStep(t) \/ SyncStep(t)
    PROVE  \/ Ends(t)
           \/ \E pc \in Places, ok \in BOOLEAN :
                 /\ Becomes(t, task[t].kind, pc, ok) /\ Shaped(task[t].kind, pc)
           \/ task[t].kind = "recover" /\ Becomes(t, "sync", "push", task[t].ok)
  <1>1. Shaped(task[t].kind, task[t].pc) /\ task[t].ok \in BOOLEAN
    BY DEF Typed, Shapes, TypeOK, Ceremony
  <1>2. CASE Retire(t)
    BY <1>2, RetireEnds
  <1>3. CASE task' = [task EXCEPT ![t] = [@ EXCEPT !.kind = "sync", !.pc = "push"]]
             /\ task[t].kind = "recover"
    BY <1>3, SyncBecomes
  <1>4. ASSUME NEW pc \in Places, Goto(t, pc), Shaped(task[t].kind, pc)
        PROVE  \E p \in Places, ok \in BOOLEAN :
                 /\ Becomes(t, task[t].kind, p, ok) /\ Shaped(task[t].kind, p)
    BY <1>1, <1>4, GotoBecomes
  <1>5. ASSUME NEW pc \in Places, Shaped(task[t].kind, pc),
               task' = [task EXCEPT ![t] = [@ EXCEPT !.pc = pc, !.ok = FALSE]]
        PROVE  \E p \in Places, ok \in BOOLEAN :
                 /\ Becomes(t, task[t].kind, p, ok) /\ Shaped(task[t].kind, p)
    BY <1>5, FailBecomes
  <1>6. CASE RecoverKeyFileFail(t) \/ RekeyFail(t) \/ SwapFail(t) \/ InstallFail(t)
             \/ SyncClear(t) \/ SyncFail(t)
    BY <1>2, <1>6 DEF RecoverKeyFileFail, RekeyFail, SwapFail, InstallFail, SyncClear, SyncFail
  <1>7. CASE Rewrap(t) \/ SyncManifest(t)
    BY <1>1, <1>2, <1>4, <1>7 DEF Rewrap, SyncManifest, At, Shaped, Places
  <1>8. CASE RekeyDb(t)
    BY <1>1, <1>4, <1>8 DEF RekeyDb, At, Shaped, Places
  <1>9. CASE SwapSession(t)
    BY <1>1, <1>4, <1>9 DEF SwapSession, At, Shaped, Places
  <1>10. CASE StageHeader(t) \/ SyncHeader(t) \/ SetFlag(t) \/ SetFlagFail(t) \/ InstallSession(t)
    BY <1>1, <1>4, <1>10 DEF StageHeader, SyncHeader, SetFlag, SetFlagFail, InstallSession, At,
           Shaped, Places
  <1>11. CASE UploadHeader(t) \/ UploadManifest(t)
    BY <1>1, <1>4, <1>11 DEF UploadHeader, UploadManifest, At, Shaped, Places
  <1>12. CASE StageHeaderFail(t) \/ UploadHeaderFail(t)
    BY <1>1, <1>2, <1>5, <1>12 DEF StageHeaderFail, UploadHeaderFail, At, Shaped, Places
  <1>13. CASE UploadManifestFail(t)
    <2> DEFINE pc == IF task[t].kind = "change" THEN "write" ELSE "flag"
    <2>1. pc \in Places /\ Shaped(task[t].kind, pc)
      BY <1>1, <1>13 DEF UploadManifestFail, At, Shaped, Places
    <2>2. task' = [task EXCEPT ![t] = [@ EXCEPT !.pc = pc, !.ok = FALSE]]
      BY <1>13 DEF UploadManifestFail
    <2> HIDE DEF pc
    <2>3. QED BY <1>5, <2>1, <2>2
  <1>14. CASE WriteLocal(t) \/ WriteLocalFail(t)
    BY <1>2, <1>3, <1>14 DEF WriteLocal, WriteLocalFail, Finish
  <1>15. QED BY <1>6, <1>7, <1>8, <1>9, <1>10, <1>11, <1>12, <1>13, <1>14
             DEF CeremonyStep, SyncStep

LEMMA TypedInit == Init => Typed
  <1> SUFFICES ASSUME Init PROVE Typed OBVIOUS
  <1>1. 0 \in Gens /\ 1 \in Gens /\ NoHeader \in Header /\ Idle \in Ceremony
    BY BoundsFacts, IdleTask DEF Gens
  <1>2. [key |-> 1, slots |-> <<>>] \in Header
    BY <1>1 DEF Header
  <1>3. TypeOK
    <2>1. localHdr \in Header /\ pending \in Header /\ cloudHdr \in Header /\ cloudMan \in Gens
      BY <1>1, <1>2 DEF Init
    <2>2. phrases \in 0 .. MaxPhrases /\ shown \subseteq Phrases
      BY BoundsFacts DEF Init
    <2>3. task \in [Tasks -> Ceremony] /\ upKek \in [Files -> Gens] /\ wrapped \in [Files -> Gens]
      BY <1>1 DEF Init
    <2>4. QED BY <1>1, <2>1, <2>2, <2>3 DEF Init, TypeOK
  <1>4. Shapes /\ PhrasesGiven
    BY IdleTask DEF Init, Shapes, Shaped, PhrasesGiven
  <1>5. QED BY <1>3, <1>4 DEF Typed

LEMMA TypedNext == Typed /\ [Next]_vars => Typed'
  <1> SUFFICES ASSUME Typed, [Next]_vars PROVE Typed' OBVIOUS
  <1> USE DEF vault, disk, cloud, user
  <1>1. ASSUME NEW t \in Tasks, Begin(t) PROVE Typed'
    <2>1. ASSUME NEW q \in PhraseField, ChangeBegin(t, q) PROVE Typed'
      <3>1. TasksTyped' /\ gens' \in Gens
        BY <2>1, ChangeBegins, BeginsTyped DEF Shaped
      <3>2. QED BY <2>1, <3>1 DEF ChangeBegin, Typed, TypeOK, TasksTyped
    <2>2. ASSUME NEW q \in shown, RecoverBegin(t, q) PROVE Typed'
      <3>1. TasksTyped' /\ gens' \in Gens
        BY <2>2, RecoverBegins, BeginsTyped DEF Shaped
      <3>2. QED BY <2>2, <3>1 DEF RecoverBegin, Typed, TypeOK, TasksTyped
    <2>3. CASE SetupBegin(t)
      <3>1. TasksTyped' /\ phrases' \in Phrases
        BY <2>3, SetupBegins, BeginsTyped DEF Shaped
      <3>2. phrases' \in 0 .. MaxPhrases
        BY <3>1, BoundsFacts DEF Phrases
      <3>3. QED BY <2>3, <3>1, <3>2 DEF SetupBegin, Typed, TypeOK, TasksTyped
    <2>4. CASE SyncBegin(t)
      <3>1. TasksTyped'
        BY <2>4, SyncBegins, BeginsTyped DEF Shaped
      <3>2. QED BY <2>4, <3>1 DEF SyncBegin, Typed, TypeOK, TasksTyped
    <2>5. QED BY <1>1, <2>1, <2>2, <2>3, <2>4 DEF Begin
  <1>2. ASSUME NEW t \in Tasks, CeremonyStep(t) \/ SyncStep(t) PROVE Typed'
    <2>1. TasksTyped'
      BY <1>2, CeremonyMoves, BecomesTyped, EndsTyped DEF Shaped
    <2>2. /\ task[t].hdr \in Header /\ task[t].new \in Gens /\ 0 \in Gens /\ NoHeader \in Header
      BY BoundsFacts, IdleTask DEF Typed, TypeOK, Ceremony, Gens
    <2>3. shown' \subseteq Phrases
      <3>1. CASE Finish(t)
        BY <3>1 DEF Finish, ShownWith, Typed, TypeOK, PhrasesGiven
      <3>2. CASE UNCHANGED shown
        BY <3>2 DEF Typed, TypeOK
      <3>3. QED BY <1>2, <3>1, <3>2 DEF CeremonyStep, RecoverKeyFileFail, Rewrap, RekeyDb,
                   RekeyFail, SwapSession, SwapFail, StageHeader, StageHeaderFail, UploadHeader,
                   UploadHeaderFail, UploadManifest, UploadManifestFail, SetFlag, SetFlagFail,
                   InstallSession, InstallFail, WriteLocal, WriteLocalFail, SyncStep,
                   SyncManifest, SyncHeader, SyncClear, SyncFail
    <2>4. UNCHANGED <<gens, phrases, upKek, calm, configured>>
      BY <1>2 DEF CeremonyStep, RecoverKeyFileFail, Rewrap, RekeyDb,
             RekeyFail, SwapSession, SwapFail, StageHeader, StageHeaderFail, UploadHeader,
             UploadHeaderFail, UploadManifest, UploadManifestFail, SetFlag, SetFlagFail,
             InstallSession, InstallFail, WriteLocal, WriteLocalFail, SyncStep,
             SyncManifest, SyncHeader, SyncClear, SyncFail
    <2>5. dbKey' \in Gens /\ ident' \in Gens /\ session' \in Gens /\ cloudMan' \in Gens
          /\ repair' \in BOOLEAN
      BY <1>2, <2>2 DEF Typed, TypeOK, CeremonyStep, RecoverKeyFileFail, Rewrap, RekeyDb,
             RekeyFail, SwapSession, SwapFail, StageHeader, StageHeaderFail, UploadHeader,
             UploadHeaderFail, UploadManifest, UploadManifestFail, SetFlag, SetFlagFail,
             InstallSession, InstallKeys, InstallFail, WriteLocal, WriteLocalFail, SyncStep,
             SyncManifest, SyncHeader, SyncClear, SyncFail
    <2>6. localHdr' \in Header /\ pending' \in Header /\ cloudHdr' \in Header
      BY <1>2, <2>2 DEF Typed, TypeOK, CeremonyStep, RecoverKeyFileFail, Rewrap, RekeyDb,
             RekeyFail, SwapSession, SwapFail, StageHeader, StageHeaderFail, UploadHeader,
             UploadHeaderFail, UploadManifest, UploadManifestFail, SetFlag, SetFlagFail,
             InstallSession, InstallFail, WriteLocal, WriteLocalFail, Finish, SyncStep,
             SyncManifest, SyncHeader, SyncClear, SyncFail
    <2>7. wrapped' \in [Files -> Gens]
      <3>1. CASE Rewrap(t)
        BY <2>2, <3>1 DEF Rewrap, Typed, TypeOK
      <3>2. CASE RecoverKeyFileFail(t)
        BY <2>2, <3>2 DEF RecoverKeyFileFail
      <3>3. CASE UNCHANGED wrapped
        BY <3>3 DEF Typed, TypeOK
      <3>4. QED BY <1>2, <3>1, <3>2, <3>3 DEF CeremonyStep, RekeyDb,
                   RekeyFail, SwapSession, SwapFail, StageHeader, StageHeaderFail, UploadHeader,
                   UploadHeaderFail, UploadManifest, UploadManifestFail, SetFlag, SetFlagFail,
                   InstallSession, InstallFail, WriteLocal, WriteLocalFail, SyncStep,
                   SyncManifest, SyncHeader, SyncClear, SyncFail
    <2>8. QED BY <2>1, <2>3, <2>4, <2>5, <2>6, <2>7 DEF Typed, TypeOK, TasksTyped
  <1>3. CASE UNCHANGED task
    <2>1. Shapes' /\ PhrasesGiven'
      BY <1>3 DEF Typed, Shapes, PhrasesGiven
    <2>2. CASE \E f \in Files : FileRead(f) \/ FileInsert(f)
      <3>1. 0 \in Gens
        BY BoundsFacts DEF Gens
      <3>2. QED BY <2>1, <2>2, <3>1 DEF FileRead, FileInsert, Typed, TypeOK
    <2>3. CASE Unlock \/ Lock
      <3>1. 0 \in Gens /\ localHdr.key \in Gens
        BY BoundsFacts DEF Gens, Typed, TypeOK, Header
      <3>2. QED BY <2>1, <2>3, <3>1 DEF Unlock, Lock, InstallKeys, KeyOf, Typed, TypeOK
    <2>4. CASE UNCHANGED vars
      BY <2>1, <2>4 DEF vars, Typed, TypeOK
    <2>5. CASE Crash
      <3>1. 0 \in Gens
        BY BoundsFacts DEF Gens
      <3>2. QED BY <2>1, <2>5, <1>3, <3>1 DEF Crash, Typed, TypeOK
    <2>6. QED BY <1>1, <1>2, <2>2, <2>3, <2>4, <2>5 DEF Next
  <1>4. CASE Crash
    <2>1. Shapes' /\ PhrasesGiven' /\ task' \in [Tasks -> Ceremony] /\ 0 \in Gens
      BY <1>4, IdleTask, BoundsFacts DEF Crash, Shapes, Shaped, PhrasesGiven, Gens
    <2>2. QED BY <1>4, <2>1 DEF Crash, Typed, TypeOK
  <1>5. QED BY <1>1, <1>2, <1>3, <1>4 DEF Next, FileRead, FileInsert, Unlock, Lock, vars

(* Every reachable state is well typed, whatever overlaps, fails and        *)
(* crashes (auth/ceremonies).                                               *)
THEOREM TypeCorrect == Spec => []TypeOK
  <1>1. Typed => TypeOK
    BY DEF Typed
  <1>2. QED BY <1>1, TypedInit, TypedNext, PTL DEF Spec

-----------------------------------------------------------------------------
(* The order of keys.  A change and a setup run with a session that Lock    *)
(* leaves alone, a recovery until its end without one: a recovery never     *)
(* runs beside another ceremony before its database is re-keyed, so the     *)
(* database it may remove is nobody else's.                                 *)
Guarded ==
    /\ \A t \in Tasks : task[t].kind \in {"change", "setup"} => session # 0
    /\ \A t \in Tasks : task[t].kind = "recover" /\ task[t].pc # "write" => session = 0
    /\ \A t, u \in Tasks : task[t].kind = "recover" /\ task[u].kind = "recover" => t = u

(* Without a database nothing that needs one goes on.                       *)
NoDatabase ==
    dbKey = 0 => /\ session = 0
                 /\ \A t \in Tasks : task[t].kind \notin {"change", "setup", "recover"}

(* Between its COMMIT and its re-keying a ceremony is the only one that got *)
(* past the identity row; after it, the database is under its key or a      *)
(* later one.                                                               *)
TaskOrdered(t) ==
    /\ task[t].kind \in {"change", "recover"} =>
          0 < task[t].new /\ task[t].new <= gens /\ task[t].hdr.key = task[t].new
    /\ task[t].kind = "change" /\ task[t].pc = "rewrap" => task[t].old < task[t].new
    /\ task[t].kind = "recover" /\ task[t].pc = "rewrap" => dbKey < task[t].new
    /\ task[t].pc = "rekey" => task[t].new = ident /\ dbKey < ident
    /\ task[t].pc \notin {"idle", "rewrap", "rekey"} /\ dbKey # 0 =>
          /\ task[t].hdr.key <= dbKey
          /\ task[t].kind # "setup" => task[t].new <= dbKey

TasksOrdered ==
    /\ \A t \in Tasks : TaskOrdered(t)
    /\ \A t, u \in Tasks : task[t].pc = "rekey" /\ task[u].pc = "rekey" => t = u

RowsAhead == dbKey <= ident /\ ident <= gens

Published ==
    dbKey # 0 =>
    /\ localHdr.key <= dbKey /\ pending.key <= dbKey /\ cloudHdr.key <= dbKey
    /\ cloudMan <= dbKey /\ session <= dbKey

OrderInv == Typed /\ Guarded /\ NoDatabase /\ TasksOrdered /\ RowsAhead /\ Published

LEMMA KeysNat ==
    ASSUME Typed
    PROVE  /\ dbKey \in Nat /\ ident \in Nat /\ gens \in Nat /\ session \in Nat
           /\ cloudMan \in Nat /\ localHdr.key \in Nat /\ pending.key \in Nat
           /\ cloudHdr.key \in Nat /\ NoHeader.key = 0
           /\ \A t \in Tasks : /\ task[t].hdr.key \in Nat /\ task[t].old \in Nat
                               /\ task[t].new \in Nat
  <1>1. Gens \subseteq Nat
    BY BoundsFacts DEF Gens
  <1>2. \A h \in Header : h.key \in Nat
    BY <1>1 DEF Header
  <1>3. \A t \in Tasks : task[t] \in Ceremony
    BY DEF Typed, TypeOK
  <1>4. \A t \in Tasks : task[t].hdr \in Header /\ task[t].old \in Nat /\ task[t].new \in Nat
    BY <1>1, <1>3 DEF Ceremony
  <1>5. NoHeader.key = 0
    BY DEF NoHeader
  <1>6. QED BY <1>1, <1>2, <1>4, <1>5 DEF Typed, TypeOK

LEMMA OrderInit == Init => OrderInv
  <1> SUFFICES ASSUME Init PROVE OrderInv OBVIOUS
  <1>1. \A t \in Tasks : task[t].kind = "none" /\ task[t].pc = "idle"
    BY IdleTask DEF Init
  <1>2. /\ dbKey = 1 /\ ident = 1 /\ gens = 1 /\ session = 1 /\ localHdr.key = 1
        /\ pending.key = 0 /\ cloudHdr.key \in {0, 1} /\ cloudMan \in {0, 1}
    BY DEF Init, NoHeader
  <1>3. QED BY <1>1, <1>2, TypedInit DEF OrderInv, Guarded, NoDatabase, TasksOrdered, TaskOrdered,
               RowsAhead, Published

(* Steps that leave the keys of the vault and of the session alone, and     *)
(* move a task on or end it.                                                *)
Moves(t, k, pc, ok) ==
    /\ Becomes(t, k, pc, ok)
    /\ task[t].pc \notin {"idle", "rewrap", "rekey"} /\ pc \notin {"idle", "rewrap", "rekey"}
    /\ \/ k = task[t].kind /\ task[t].pc # "write"
       \/ k = "sync" /\ task[t].kind # "setup"

LEMMA OrderEnds ==
    ASSUME OrderInv, NEW t \in Tasks, Ends(t), UNCHANGED <<dbKey, ident, gens, session>>
    PROVE  Guarded' /\ NoDatabase' /\ TasksOrdered' /\ RowsAhead'
  <1> USE DEF OrderInv, Ends, Others
  <1>1. Guarded' /\ NoDatabase'
    BY DEF Guarded, NoDatabase
  <1>2. \A u \in Tasks : TaskOrdered(u)'
    BY DEF TasksOrdered, TaskOrdered
  <1>3. QED BY <1>1, <1>2 DEF TasksOrdered, RowsAhead

LEMMA OrderMoves ==
    ASSUME OrderInv, NEW t \in Tasks, NEW k, NEW pc, NEW ok, Moves(t, k, pc, ok),
           UNCHANGED <<dbKey, ident, gens, session>>
    PROVE  Guarded' /\ NoDatabase' /\ TasksOrdered' /\ RowsAhead'
  <1> USE DEF OrderInv, Moves, Becomes, Others
  <1>1. Guarded' /\ NoDatabase'
    BY DEF Guarded, NoDatabase
  <1>2. \A u \in Tasks : TaskOrdered(u)'
    BY DEF TasksOrdered, TaskOrdered
  <1>3. QED BY <1>1, <1>2 DEF TasksOrdered, RowsAhead

(* The beginnings.                                                          *)
LEMMA OrderBegin ==
    ASSUME OrderInv, Typed', NEW t \in Tasks, Begin(t)
    PROVE  OrderInv'
  <1> USE DEF OrderInv, vault, disk, cloud, user
  <1>1. Typed
    OBVIOUS
  <1> HIDE DEF Typed
  <1>2. task[t].pc = "idle" => task[t].kind = "none"
    BY DEF Typed, Shapes, Shaped
  <1> USE DEF At
  <1>3. ASSUME NEW q \in PhraseField, ChangeBegin(t, q) PROVE OrderInv'
    <2>1. /\ Begins(t, "change", "rewrap") /\ task'[t].old = localHdr.key
          /\ task'[t].new = gens + 1 /\ task'[t].hdr.key = gens + 1 /\ gens' = gens + 1
      BY <1>3, ChangeBegins
    <2>2. /\ session # 0 /\ dbKey # 0 /\ task[t].pc = "idle"
          /\ UNCHANGED <<dbKey, ident, session, localHdr, pending, cloudHdr, cloudMan>>
      BY <1>3 DEF ChangeBegin, NoDatabase
    <2>3. Guarded' /\ NoDatabase' /\ RowsAhead' /\ Published'
      BY <2>1, <2>2, <1>2, KeysNat
         DEF Begins, Others, Guarded, NoDatabase, RowsAhead, Published
    <2>4. \A u \in Tasks : u # t => TaskOrdered(u)'
      BY <2>1, <2>2, KeysNat DEF Begins, Others, TasksOrdered, TaskOrdered
    <2>5. TaskOrdered(t)'
      BY <2>1, <2>2, KeysNat DEF Begins, TaskOrdered, RowsAhead, Published
    <2>6. TasksOrdered'
      BY <2>1, <2>4, <2>5 DEF Begins, Others, TasksOrdered
    <2>7. QED BY <2>3, <2>6
  <1>4. ASSUME NEW q \in shown, RecoverBegin(t, q) PROVE OrderInv'
    <2>1. /\ Begins(t, "recover", "rewrap")
          /\ task'[t].new = gens + 1 /\ task'[t].hdr.key = gens + 1 /\ gens' = gens + 1
      BY <1>4, RecoverBegins
    <2>2. /\ session = 0 /\ dbKey # 0 /\ task[t].pc = "idle"
          /\ \A u \in Tasks : task[u].kind # "recover"
          /\ UNCHANGED <<dbKey, ident, session, localHdr, pending, cloudHdr, cloudMan>>
      BY <1>4 DEF RecoverBegin, Running
    <2>3. Guarded' /\ NoDatabase' /\ RowsAhead' /\ Published'
      BY <2>1, <2>2, <1>2, KeysNat
         DEF Begins, Others, Guarded, NoDatabase, RowsAhead, Published
    <2>4. \A u \in Tasks : u # t => TaskOrdered(u)'
      BY <2>1, <2>2, KeysNat DEF Begins, Others, TasksOrdered, TaskOrdered
    <2>5. TaskOrdered(t)'
      BY <2>1, <2>2, KeysNat DEF Begins, TaskOrdered, RowsAhead, Published
    <2>6. TasksOrdered'
      BY <2>1, <2>4, <2>5 DEF Begins, Others, TasksOrdered
    <2>7. QED BY <2>3, <2>6
  <1>5. CASE SetupBegin(t)
    <2>1. Begins(t, "setup", "stage") /\ task'[t].hdr.key = localHdr.key
      BY <1>5, SetupBegins
    <2>2. /\ session # 0 /\ dbKey # 0 /\ task[t].pc = "idle"
          /\ UNCHANGED <<dbKey, ident, session, gens, localHdr, pending, cloudHdr, cloudMan>>
      BY <1>5 DEF SetupBegin, NoDatabase
    <2>3. Guarded' /\ NoDatabase' /\ RowsAhead' /\ Published'
      BY <2>1, <2>2, <1>2
         DEF Begins, Others, Guarded, NoDatabase, RowsAhead, Published
    <2>4. \A u \in Tasks : u # t => TaskOrdered(u)'
      BY <2>1, <2>2 DEF Begins, Others, TasksOrdered, TaskOrdered
    <2>5. TaskOrdered(t)'
      BY <2>1, <2>2, KeysNat DEF Begins, TaskOrdered, RowsAhead, Published
    <2>6. TasksOrdered'
      BY <2>1, <2>4, <2>5 DEF Begins, Others, TasksOrdered
    <2>7. QED BY <2>3, <2>6
  <1>6. CASE SyncBegin(t)
    <2>1. Begins(t, "sync", "push") /\ task'[t].hdr.key = localHdr.key /\ task'[t].new = session
      BY <1>6, SyncBegins
    <2>2. /\ session # 0 /\ dbKey # 0 /\ task[t].pc = "idle"
          /\ UNCHANGED <<dbKey, ident, session, gens, localHdr, pending, cloudHdr, cloudMan>>
      BY <1>6 DEF SyncBegin, NoDatabase
    <2>3. Guarded' /\ NoDatabase' /\ RowsAhead' /\ Published'
      BY <2>1, <2>2, <1>2
         DEF Begins, Others, Guarded, NoDatabase, RowsAhead, Published
    <2>4. \A u \in Tasks : u # t => TaskOrdered(u)'
      BY <2>1, <2>2 DEF Begins, Others, TasksOrdered, TaskOrdered
    <2>5. TaskOrdered(t)'
      BY <2>1, <2>2, KeysNat DEF Begins, TaskOrdered, RowsAhead, Published
    <2>6. TasksOrdered'
      BY <2>1, <2>4, <2>5 DEF Begins, Others, TasksOrdered
    <2>7. QED BY <2>3, <2>6
  <1>7. QED BY <1>3, <1>4, <1>5, <1>6 DEF Begin

(* rekey_vault_db: at most one ceremony is between its two halves.          *)
LEMMA OrderRekey ==
    ASSUME OrderInv, Typed', NEW t \in Tasks, Rewrap(t) \/ RekeyDb(t) \/ RecoverKeyFileFail(t)
    PROVE  OrderInv'
  <1> USE DEF OrderInv, vault, disk, cloud, user, At
  <1>1. Typed
    OBVIOUS
  <1> HIDE DEF Typed
  <1>2. Shaped(task[t].kind, task[t].pc)
    BY DEF Typed, Shapes
  <1>3. UNCHANGED <<session, gens, localHdr, pending, cloudHdr, cloudMan>>
    BY DEF Rewrap, RekeyDb, RecoverKeyFileFail
  <1>4. CASE Rewrap(t) /\ Retire(t) /\ UNCHANGED <<ident, wrapped>>
    <2>1. UNCHANGED <<dbKey, ident>> /\ Ends(t)
      BY <1>4, RetireEnds DEF Rewrap
    <2>2. QED BY <1>3, <2>1, OrderEnds DEF Published
  <1>5. CASE Rewrap(t) /\ ~(Retire(t) /\ UNCHANGED <<ident, wrapped>>)
    <2>1. /\ dbKey = task[t].old /\ ident = task[t].old /\ ident' = task[t].new
          /\ UNCHANGED dbKey /\ Goto(t, "rekey") /\ task[t].pc = "rewrap"
      BY <1>5 DEF Rewrap, VerifyCredentials, OpensDb
    <2>2. Becomes(t, task[t].kind, "rekey", task[t].ok)
      BY <2>1, GotoBecomes DEF Places
    <2>3. \A u \in Tasks : task[u].pc # "rekey"
      BY <2>1, KeysNat DEF TasksOrdered, TaskOrdered
    <2>4. /\ task[t].kind \in {"change", "recover"} /\ dbKey < task[t].new
          /\ task[t].new <= gens /\ task[t].hdr.key = task[t].new
      BY <1>2, <2>1 DEF TasksOrdered, TaskOrdered, Shaped
    <2>5. Guarded' /\ NoDatabase' /\ RowsAhead' /\ Published'
      BY <1>3, <2>1, <2>2, <2>4, KeysNat
         DEF Becomes, Others, Guarded, NoDatabase, RowsAhead, Published
    <2>6. \A u \in Tasks : u # t => TaskOrdered(u)'
      BY <1>3, <2>1, <2>2, <2>3 DEF Becomes, Others, TasksOrdered, TaskOrdered
    <2>7. TaskOrdered(t)'
      BY <1>3, <2>1, <2>2, <2>4, KeysNat DEF Becomes, TaskOrdered
    <2>8. TasksOrdered'
      BY <2>2, <2>3, <2>6, <2>7 DEF Becomes, Others, TasksOrdered
    <2>9. QED BY <2>5, <2>8
  <1>6. CASE RekeyDb(t)
    <2> DEFINE pc == IF task[t].kind = "change" THEN "swap" ELSE "stage"
    <2>1. /\ task[t].pc = "rekey" /\ dbKey' = task[t].new /\ UNCHANGED ident
          /\ Goto(t, pc)
      BY <1>6 DEF RekeyDb
    <2>2. Becomes(t, task[t].kind, pc, task[t].ok) /\ pc \in {"swap", "stage"}
      BY <2>1, GotoBecomes DEF Places
    <2> HIDE DEF pc
    <2>3. /\ task[t].kind \in {"change", "recover"} /\ task[t].new = ident /\ dbKey < ident
          /\ 0 < task[t].new /\ task[t].hdr.key = task[t].new
          /\ \A u \in Tasks : u # t => task[u].pc # "rekey"
      BY <1>2, <2>1 DEF TasksOrdered, TaskOrdered, Shaped
    <2>4. \A u \in Tasks : u # t => ~(task[u].kind = "recover" /\ task[u].pc = "rewrap")
      BY <2>1, <2>3 DEF Guarded
    <2>5. dbKey # 0
      BY <2>3 DEF NoDatabase
    <2>6. Guarded' /\ NoDatabase' /\ RowsAhead' /\ Published'
      BY <1>3, <2>1, <2>2, <2>3, <2>5, KeysNat
         DEF Becomes, Others, Guarded, NoDatabase, RowsAhead, Published
    <2>7. \A u \in Tasks : u # t => TaskOrdered(u)'
      BY <1>3, <2>1, <2>2, <2>3, <2>4, <2>5, KeysNat DEF Becomes, Others, TasksOrdered, TaskOrdered
    <2>8. TaskOrdered(t)'
      BY <1>3, <2>1, <2>2, <2>3, KeysNat DEF Becomes, TasksOrdered, TaskOrdered
    <2>9. TasksOrdered'
      BY <2>2, <2>3, <2>7, <2>8 DEF Becomes, Others, TasksOrdered
    <2>10. QED BY <2>6, <2>9
  <1>7. CASE RecoverKeyFileFail(t)
    <2>1. /\ dbKey' = 0 /\ ident' = 0 /\ Ends(t) /\ task[t].kind = "recover"
          /\ task[t].pc = "rewrap"
      BY <1>7, RetireEnds DEF RecoverKeyFileFail
    <2>2. session = 0 /\ \A u \in Tasks : task[u].kind \notin {"change", "setup"}
      BY <2>1 DEF Guarded
    <2>3. \A u \in Tasks : u # t => task[u].kind # "recover"
      BY <2>1 DEF Guarded
    <2>4. Guarded' /\ NoDatabase' /\ RowsAhead' /\ Published'
      BY <1>3, <2>1, <2>2, <2>3, KeysNat
         DEF Ends, Others, Guarded, NoDatabase, RowsAhead, Published
    <2>5. \A u \in Tasks : task'[u].pc \notin {"rewrap", "rekey"}
                           /\ task'[u].kind \notin {"change", "recover"}
      BY <2>1, <2>2, <2>3 DEF Ends, Others, Typed, Shapes, Shaped
    <2>6. TasksOrdered'
      BY <2>1, <2>5 DEF TasksOrdered, TaskOrdered
    <2>7. QED BY <2>4, <2>6
  <1>8. QED BY <1>4, <1>5, <1>6, <1>7

(* A session is installed for a key the database is under.                  *)
LEMMA OrderInstall ==
    ASSUME OrderInv, Typed', NEW t \in Tasks, SwapSession(t) \/ InstallSession(t)
    PROVE  OrderInv'
  <1> USE DEF OrderInv, vault, disk, cloud, user, At
  <1>1. Typed
    OBVIOUS
  <1> HIDE DEF Typed
  <1>2. /\ task[t].pc \in {"swap", "install"} /\ session' = task[t].new
        /\ task[t].pc = "install" => session = 0
        /\ UNCHANGED <<dbKey, ident, gens, localHdr, pending, cloudHdr, cloudMan>>
    BY DEF SwapSession, InstallSession, InstallKeys
  <1>3. task[t].kind \in {"change", "recover"} /\ (task[t].kind = "change" <=> task[t].pc = "swap")
    BY <1>2 DEF Typed, Shapes, Shaped
  <1>4. /\ dbKey # 0 /\ 0 < task[t].new /\ task[t].new <= dbKey /\ task[t].hdr.key <= dbKey
        /\ task[t].new <= gens /\ task[t].hdr.key = task[t].new
    BY <1>2, <1>3 DEF TasksOrdered, TaskOrdered, NoDatabase
  <1>5. PICK pc : /\ Becomes(t, task[t].kind, pc, task[t].ok)
                  /\ pc \in {"stage", "write"} /\ (task[t].pc = "install" => pc = "write")
    <2>1. CASE SwapSession(t)
      BY <2>1, <1>2, GotoBecomes DEF SwapSession, Places
    <2>2. CASE InstallSession(t)
      BY <2>2, GotoBecomes DEF InstallSession, Places
    <2>3. QED BY <2>1, <2>2
  <1>6. \A u \in Tasks : task[u].kind = "recover" /\ u # t => task[u].pc = "write"
    BY <1>2, <1>3 DEF Guarded
  <1>7. Guarded' /\ NoDatabase' /\ RowsAhead' /\ Published'
    BY <1>2, <1>3, <1>4, <1>5, <1>6, KeysNat
       DEF Becomes, Others, Guarded, NoDatabase, RowsAhead, Published
  <1>8. \A u \in Tasks : u # t => TaskOrdered(u)'
    BY <1>2, <1>5 DEF Becomes, Others, TasksOrdered, TaskOrdered
  <1>9. TaskOrdered(t)'
    BY <1>2, <1>4, <1>5 DEF Becomes, TasksOrdered, TaskOrdered
  <1>10. TasksOrdered'
    BY <1>5, <1>8, <1>9 DEF Becomes, Others, TasksOrdered
  <1>11. QED BY <1>7, <1>10

(* Every other step of a ceremony or a push moves it on with the keys it    *)
(* has, and writes no key but those.                                        *)
LEMMA OrderPublish ==
    ASSUME OrderInv, Typed', NEW t \in Tasks, CeremonyStep(t) \/ SyncStep(t),
           ~Rewrap(t), ~RekeyDb(t), ~RecoverKeyFileFail(t), ~SwapSession(t), ~InstallSession(t)
    PROVE  OrderInv'
  <1> USE DEF OrderInv, vault, disk, cloud, user, At
  <1>1. Typed
    OBVIOUS
  <1> HIDE DEF Typed
  <1> DEFINE
      Quiet == RekeyFail(t) \/ SwapFail(t) \/ InstallFail(t) \/ SetFlag(t) \/ SetFlagFail(t)
               \/ SyncClear(t)
      Writes == StageHeader(t) \/ StageHeaderFail(t) \/ WriteLocal(t) \/ WriteLocalFail(t)
      Sends == UploadHeader(t) \/ UploadHeaderFail(t) \/ UploadManifest(t)
               \/ UploadManifestFail(t) \/ SyncManifest(t) \/ SyncHeader(t) \/ SyncFail(t)
  <1>2. Quiet \/ Writes \/ Sends
    BY DEF CeremonyStep, SyncStep
  <1>3. UNCHANGED <<dbKey, ident, gens, session>>
    <2>1. CASE Quiet
      BY <2>1 DEF RekeyFail, SwapFail, InstallFail, SetFlag, SetFlagFail, SyncClear
    <2>2. CASE Writes
      BY <2>2 DEF StageHeader, StageHeaderFail, WriteLocal, WriteLocalFail
    <2>3. CASE Sends
      BY <2>3 DEF UploadHeader, UploadHeaderFail, UploadManifest, UploadManifestFail,
                  SyncManifest, SyncHeader, SyncFail
    <2>4. QED BY <1>2, <2>1, <2>2, <2>3
  <1>4. Ends(t) \/ \E k, pc, ok : Moves(t, k, pc, ok)
    <2>1. Shaped(task[t].kind, task[t].pc)
      BY DEF Typed, Shapes
    <2>2. CASE Retire(t)
      BY <2>2, RetireEnds
    <2>3. CASE Quiet
      <3>1. CASE SetFlag(t) \/ SetFlagFail(t)
        BY <2>1, <3>1, GotoBecomes DEF SetFlag, SetFlagFail, Moves, Places, Shaped
      <3>2. QED BY <2>2, <2>3, <3>1 DEF RekeyFail, SwapFail, InstallFail, SyncClear
    <2>4. CASE Writes
      <3>1. CASE StageHeader(t)
        BY <2>1, <3>1, GotoBecomes DEF StageHeader, Moves, Places, Shaped
      <3>2. CASE StageHeaderFail(t)
        <4>1. CASE task[t].kind = "recover"
          <5>1. task' = [task EXCEPT ![t] = [@ EXCEPT !.pc = "manifest", !.ok = FALSE]]
                /\ task[t].pc = "stage"
            BY <3>2, <4>1 DEF StageHeaderFail
          <5>2. Becomes(t, task[t].kind, "manifest", FALSE)
            BY <5>1, FailBecomes DEF Places
          <5>3. Moves(t, task[t].kind, "manifest", FALSE)
            BY <5>1, <5>2 DEF Moves
          <5>4. QED BY <5>3
        <4>2. QED BY <2>2, <3>2, <4>1 DEF StageHeaderFail
      <3>3. CASE WriteLocal(t) \/ WriteLocalFail(t)
        <4>1. CASE task[t].kind = "recover" /\ repair /\ configured
          <5>1. task' = [task EXCEPT ![t] = [@ EXCEPT !.kind = "sync", !.pc = "push"]]
                /\ task[t].pc = "write"
            BY <3>3, <4>1 DEF WriteLocal, WriteLocalFail, Finish
          <5>2. Becomes(t, "sync", "push", task[t].ok)
            BY <5>1, SyncBecomes
          <5>3. Moves(t, "sync", "push", task[t].ok)
            BY <4>1, <5>1, <5>2 DEF Moves
          <5>4. QED BY <5>3
        <4>2. QED BY <2>2, <3>3, <4>1 DEF WriteLocal, WriteLocalFail, Finish
      <3>4. QED BY <2>4, <3>1, <3>2, <3>3
    <2>5. CASE Sends
      <3>1. CASE UploadHeader(t) \/ UploadManifest(t)
        BY <2>1, <3>1, GotoBecomes DEF UploadHeader, UploadManifest, Moves, Places, Shaped
      <3>2. CASE UploadHeaderFail(t)
        <4>1. CASE task[t].kind = "recover"
          <5>1. task' = [task EXCEPT ![t] = [@ EXCEPT !.pc = "manifest", !.ok = FALSE]]
                /\ task[t].pc = "upload"
            BY <3>2, <4>1 DEF UploadHeaderFail
          <5>2. Becomes(t, task[t].kind, "manifest", FALSE)
            BY <5>1, FailBecomes DEF Places
          <5>3. Moves(t, task[t].kind, "manifest", FALSE)
            BY <5>1, <5>2 DEF Moves
          <5>4. QED BY <5>3
        <4>2. QED BY <2>2, <3>2, <4>1 DEF UploadHeaderFail
      <3>3. CASE UploadManifestFail(t)
        <4> DEFINE pc == IF task[t].kind = "change" THEN "write" ELSE "flag"
        <4>1. pc \in Places /\ pc \notin {"idle", "rewrap", "rekey"}
          BY DEF Places
        <4>2. task' = [task EXCEPT ![t] = [@ EXCEPT !.pc = pc, !.ok = FALSE]]
          BY <3>3 DEF UploadManifestFail
        <4> HIDE DEF pc
        <4>3. QED BY <3>3, <4>1, <4>2, FailBecomes DEF UploadManifestFail, Moves
      <3>4. CASE SyncManifest(t) \/ SyncHeader(t)
        BY <2>1, <2>2, <3>4, GotoBecomes DEF SyncManifest, SyncHeader, Moves, Places, Shaped
      <3>5. QED BY <2>2, <2>5, <3>1, <3>2, <3>3, <3>4 DEF SyncFail
    <2>6. QED BY <1>2, <2>3, <2>4, <2>5
  <1>5. Guarded' /\ NoDatabase' /\ TasksOrdered' /\ RowsAhead'
    BY <1>3, <1>4, OrderEnds, OrderMoves
  <1>6. Published'
    <2>1. TaskOrdered(t) /\ Shaped(task[t].kind, task[t].pc)
      BY DEF TasksOrdered, Typed, Shapes
    <2>2. CASE Quiet
      BY <2>2 DEF Published, RekeyFail, SwapFail, InstallFail, SetFlag, SetFlagFail, SyncClear
    <2>3. CASE Writes
      BY <1>3, <2>1, <2>3, KeysNat DEF Published, StageHeader, StageHeaderFail, WriteLocal,
           WriteLocalFail, Finish, TaskOrdered
    <2>4. CASE UploadHeader(t) \/ UploadHeaderFail(t) \/ SyncHeader(t)
      BY <1>3, <2>1, <2>4, KeysNat DEF Published, UploadHeader, UploadHeaderFail, SyncHeader,
           TaskOrdered
    <2>5. CASE UploadManifest(t) \/ UploadManifestFail(t) \/ SyncManifest(t) \/ SyncFail(t)
      BY <1>3, <2>1, <2>5, KeysNat DEF Published, UploadManifest, UploadManifestFail,
           SyncManifest, SyncFail, TaskOrdered, Shaped
    <2>6. QED BY <1>2, <2>2, <2>3, <2>4, <2>5
  <1>7. QED BY <1>5, <1>6

LEMMA OrderNext == OrderInv /\ [Next]_vars => OrderInv'
  <1> SUFFICES ASSUME OrderInv, [Next]_vars PROVE OrderInv' OBVIOUS
  <1>1. Typed'
    BY TypedNext DEF OrderInv
  <1>2. ASSUME NEW t \in Tasks, Begin(t) PROVE OrderInv'
    BY <1>1, <1>2, OrderBegin
  <1>3. ASSUME NEW t \in Tasks, CeremonyStep(t) \/ SyncStep(t) PROVE OrderInv'
    BY <1>1, <1>3, OrderRekey, OrderInstall, OrderPublish
  <1> USE DEF OrderInv, vault, disk, cloud, user
  <1>4. CASE (\E f \in Files : FileRead(f) \/ FileInsert(f)) \/ UNCHANGED vars
    <2>1. UNCHANGED <<dbKey, ident, gens, session, localHdr, pending, cloudHdr, cloudMan, task>>
      BY <1>4 DEF FileRead, FileInsert, vars
    <2>2. QED BY <1>1, <2>1 DEF Guarded, NoDatabase, TasksOrdered, TaskOrdered, RowsAhead, Published
  <1>5. CASE Unlock
    <2>1. /\ session = 0 /\ session' = dbKey
          /\ \A t \in Tasks : task[t].kind # "recover"
          /\ UNCHANGED <<dbKey, ident, gens, localHdr, pending, cloudHdr, cloudMan, task>>
      BY <1>5 DEF Unlock, OpensDb, InstallKeys, KeyOf, Running
    <2>2. Guarded' /\ NoDatabase'
      BY <2>1 DEF Guarded, NoDatabase
    <2>3. TasksOrdered' /\ RowsAhead' /\ Published'
      BY <2>1, KeysNat DEF TasksOrdered, TaskOrdered, RowsAhead, Published
    <2>4. QED BY <1>1, <2>2, <2>3
  <1>6. CASE Lock
    <2>1. /\ session' = 0
          /\ \A t \in Tasks : task[t].kind \notin {"change", "setup"}
          /\ UNCHANGED <<dbKey, ident, gens, localHdr, pending, cloudHdr, cloudMan, task>>
      BY <1>6 DEF Lock, Running
    <2>2. Guarded' /\ NoDatabase'
      BY <2>1 DEF Guarded, NoDatabase
    <2>3. TasksOrdered' /\ RowsAhead' /\ Published'
      BY <2>1, KeysNat DEF TasksOrdered, TaskOrdered, RowsAhead, Published
    <2>4. QED BY <1>1, <2>2, <2>3
  <1>7. CASE Crash
    <2>1. /\ session' = 0
          /\ \A t \in Tasks : task'[t].kind = "none" /\ task'[t].pc = "idle"
          /\ UNCHANGED <<dbKey, ident, gens, localHdr, pending, cloudHdr, cloudMan>>
      BY <1>7, IdleTask DEF Crash
    <2>2. Guarded' /\ NoDatabase'
      BY <2>1 DEF Guarded, NoDatabase
    <2>3. TasksOrdered' /\ RowsAhead' /\ Published'
      BY <2>1, KeysNat DEF TasksOrdered, TaskOrdered, RowsAhead, Published
    <2>4. QED BY <1>1, <2>2, <2>3
  <1>8. QED BY <1>2, <1>3, <1>4, <1>5, <1>6, <1>7 DEF Next

(* Whatever fails, crashes or overlaps, for any number of concurrent        *)
(* ceremonies: a header, a manifest or a session is never of a key the      *)
(* database is not yet under (rekey_vault_db returns before any of them is  *)
(* written).                                                                *)
THEOREM KeysAreOrdered == Spec => []KeysOrdered
  <1>1. OrderInv => KeysOrdered
    BY DEF OrderInv, Published, RowsAhead, KeysOrdered
  <1>2. QED BY <1>1, OrderInit, OrderNext, PTL DEF Spec

-----------------------------------------------------------------------------
(* Calm behaviours, as the runs take them: ceremonies other than changes    *)
(* run alone, and nothing fails but pushes, and what a ceremony without a   *)
(* transport uploads.                                                       *)
Calmly == CalmOverlap \subseteq {"change"} /\ CalmFaults \subseteq {"push"}

CalmAlone ==
    /\ \A t, u \in Tasks : task[t].kind # "none" /\ task[u].kind # "none" /\ t # u =>
          task[t].kind = "change" /\ task[u].kind = "change"
    /\ \A f \in Files, t \in Tasks : upKek[f] # 0 => task[t].kind = "none"

(* A ceremony whose transaction is committed: the vault is between keys.    *)
Past(t) == task[t].kind \in {"change", "recover"} /\ task[t].pc # "rewrap"

OnePast == \A t, u \in Tasks : Past(t) /\ Past(u) => t = u

(* Nobody is between keys: the four places agree.                           *)
AtRest ==
    (\A t \in Tasks : ~Past(t)) =>
        dbKey = localHdr.key /\ ident = localHdr.key /\ session \in {0, localHdr.key}

(* Where a ceremony has got to tells which places have its new key.         *)
UnderWay(t) ==
    /\ localHdr.key < task[t].new /\ ident = task[t].new /\ task[t].hdr.key = task[t].new
    /\ dbKey = IF task[t].pc = "rekey" THEN localHdr.key ELSE task[t].new
    /\ session \in {0, IF task[t].pc \in {"rekey", "swap"} THEN localHdr.key ELSE task[t].new}
    /\ task[t].kind = "change" /\ task[t].pc \in {"stage", "upload", "manifest"} => configured

(* The keys the waiting ceremonies and the pushes took.                     *)
TakenKeys(t) ==
    /\ task[t].kind = "change" /\ task[t].pc = "rewrap" => task[t].old <= localHdr.key
    /\ task[t].kind = "setup" => task[t].hdr.key = localHdr.key
    /\ task[t].kind = "sync" =>
          task[t].hdr.key = localHdr.key /\ task[t].new = localHdr.key /\ configured

FilesWrapped == \A f \in Files : wrapped[f] \in {0, ident}

CalmKeys ==
    /\ CalmAlone /\ OnePast /\ AtRest /\ FilesWrapped
    /\ \A t \in Tasks : (Past(t) => UnderWay(t)) /\ TakenKeys(t)

CalmInv == OrderInv /\ (calm => CalmKeys)

(* What the cloud has.                                                      *)
CloudHas(k) == cloudHdr.key = k /\ cloudMan = k

CloudAtRest == (\A t \in Tasks : ~Past(t)) => repair \/ CloudHas(localHdr.key)

CloudOf(t) ==
    /\ task[t].kind = "change" /\ task[t].pc = "manifest" => cloudHdr.key = task[t].new
    /\ task[t].kind = "change" /\ task[t].pc = "write" => CloudHas(task[t].new)
    /\ task[t].kind = "recover" /\ task[t].pc = "manifest" /\ task[t].ok =>
          cloudHdr.key = task[t].new
    /\ task[t].kind = "recover" /\ task[t].pc = "flag" /\ task[t].ok => CloudHas(task[t].new)
    /\ task[t].kind = "recover" /\ task[t].pc \in {"install", "write"} =>
          repair \/ CloudHas(task[t].new)
    /\ task[t].pc = "pushHeader" => cloudMan = task[t].new
    /\ task[t].pc = "clear" => CloudHas(task[t].new)

CloudInv == CalmInv /\ (calm /\ configured => CloudAtRest /\ \A t \in Tasks : CloudOf(t))

(* One phrase: it is in the first slot, which follows the key.              *)
FirstSlot(h) == h.slots = <<>> \/ h.slots[1].key = h.key

SlotsOf(t) ==
    /\ task[t].kind \in {"change", "setup", "recover"} => FirstSlot(task[t].hdr)
    /\ task[t].kind \in {"setup", "recover"} => task[t].hdr.slots # <<>>

SlotInv ==
    /\ CalmInv
    /\ calm => /\ FirstSlot(localHdr) /\ (shown # {} => localHdr.slots # <<>>)
               /\ \A t \in Tasks : SlotsOf(t)

LEMMA CalmInit == Init => CalmInv
  <1> SUFFICES ASSUME Init PROVE CalmInv OBVIOUS
  <1>1. OrderInv
    BY OrderInit
  <1>2. \A t \in Tasks : task[t].kind = "none" /\ task[t].pc = "idle"
    BY IdleTask DEF Init
  <1>3. \A t \in Tasks : ~Past(t) /\ TakenKeys(t)
    BY <1>2 DEF Past, TakenKeys
  <1>4. CalmAlone /\ OnePast /\ AtRest /\ FilesWrapped
    BY <1>2, <1>3 DEF Init, CalmAlone, OnePast, AtRest, FilesWrapped
  <1>5. QED BY <1>1, <1>3, <1>4 DEF CalmInv, CalmKeys

(* What calm leaves out.                                                    *)
LEMMA CalmFacts ==
    ASSUME Calmly, calm
    PROVE  /\ \A k : Fault(k) => k = "push"
           /\ \A k : MayBegin(k) =>
                /\ \A f \in Files : upKek[f] = 0
                /\ \A t \in Tasks : task[t].kind # "none" => k = "change" /\ task[t].kind = "change"
  <1>1. \A k : Fault(k) => k = "push"
    BY DEF Calmly, Fault
  <1>2. MayOverlap \subseteq {"change"}
    BY DEF Calmly, MayOverlap
  <1>3. ASSUME NEW k, MayBegin(k), NEW t \in Tasks, task[t].kind # "none"
        PROVE  k = "change" /\ task[t].kind = "change"
    BY <1>2, <1>3 DEF MayBegin
  <1>4. ASSUME NEW k, MayBegin(k), NEW f \in Files, upKek[f] # 0 PROVE FALSE
    BY <1>2, <1>4 DEF MayBegin
  <1>5. QED BY <1>1, <1>3, <1>4

(* A task moves on without any key changing place.                          *)
LEMMA CalmMoves ==
    ASSUME CalmKeys, NEW t \in Tasks, NEW pc, NEW ok, Becomes(t, task[t].kind, pc, ok),
           {task[t].pc, pc} \cap {"idle", "rewrap", "rekey", "swap"} = {},
           task[t].pc \in {"stage", "upload", "manifest"} \/ pc \notin {"stage", "upload", "manifest"},
           UNCHANGED <<dbKey, ident, wrapped, session, localHdr, upKek, configured>>
    PROVE  CalmKeys'
  <1> USE DEF CalmKeys, Becomes, Others
  <1>1. \A u \in Tasks : Past(u)' <=> Past(u)
    BY DEF Past
  <1>2. CalmAlone' /\ OnePast' /\ AtRest' /\ FilesWrapped'
    BY <1>1 DEF CalmAlone, OnePast, AtRest, FilesWrapped
  <1>3. \A u \in Tasks : u # t => (Past(u) => UnderWay(u))' /\ TakenKeys(u)'
    BY <1>1 DEF UnderWay, TakenKeys
  <1>4. (Past(t) => UnderWay(t))' /\ TakenKeys(t)'
    BY <1>1 DEF UnderWay, TakenKeys
  <1>5. QED BY <1>2, <1>3, <1>4

(* A task ends, or a sync begins, with no ceremony past its COMMIT.         *)
LEMMA CalmEnds ==
    ASSUME CalmKeys, NEW t \in Tasks, Ends(t), ~Past(t),
           UNCHANGED <<dbKey, ident, wrapped, session, localHdr, upKek, configured>>
    PROVE  CalmKeys'
  <1> USE DEF CalmKeys, Ends, Others
  <1>1. \A u \in Tasks : Past(u)' <=> Past(u)
    BY DEF Past
  <1>2. CalmAlone' /\ OnePast' /\ AtRest' /\ FilesWrapped'
    BY <1>1 DEF CalmAlone, OnePast, AtRest, FilesWrapped
  <1>3. \A u \in Tasks : u # t => (Past(u) => UnderWay(u))' /\ TakenKeys(u)'
    BY <1>1 DEF UnderWay, TakenKeys
  <1>4. (Past(t) => UnderWay(t))' /\ TakenKeys(t)'
    BY <1>1 DEF TakenKeys
  <1>5. QED BY <1>2, <1>3, <1>4

LEMMA CalmBegin ==
    ASSUME Calmly, calm, OrderInv, CalmKeys, NEW t \in Tasks, Begin(t)
    PROVE  CalmKeys'
  <1> USE DEF CalmKeys, OrderInv, vault, disk, cloud, user, At
  <1>1. task[t].pc = "idle" /\ task[t].kind = "none" /\ ~Past(t)
    BY DEF Begin, ChangeBegin, RecoverBegin, SetupBegin, SyncBegin, Typed, Shapes, Shaped, Past
  <1>2. UNCHANGED <<dbKey, ident, wrapped, session, localHdr, upKek, configured>>
    BY DEF Begin, ChangeBegin, RecoverBegin, SetupBegin, SyncBegin
  <1>3. PICK k, pc :
          /\ Begins(t, k, pc) /\ MayBegin(k)
          /\ k \in {"change", "recover"} => pc = "rewrap"
          /\ k \in {"change", "setup", "recover", "sync"}
          /\ k = "change" => task'[t].old = localHdr.key
          /\ k \in {"setup", "sync"} => task'[t].hdr.key = localHdr.key
          /\ k = "sync" => task'[t].new = session /\ session # 0 /\ configured
    <2>1. ASSUME NEW q \in PhraseField, ChangeBegin(t, q)
          PROVE  Begins(t, "change", "rewrap") /\ MayBegin("change") /\ task'[t].old = localHdr.key
      BY <2>1, ChangeBegins DEF ChangeBegin
    <2>2. ASSUME NEW q \in shown, RecoverBegin(t, q)
          PROVE  Begins(t, "recover", "rewrap") /\ MayBegin("recover")
      BY <2>2, RecoverBegins DEF RecoverBegin
    <2>3. ASSUME SetupBegin(t)
          PROVE  Begins(t, "setup", "stage") /\ MayBegin("setup") /\ task'[t].hdr.key = localHdr.key
      BY <2>3, SetupBegins DEF SetupBegin
    <2>4. ASSUME SyncBegin(t)
          PROVE  /\ Begins(t, "sync", "push") /\ MayBegin("sync") /\ task'[t].hdr.key = localHdr.key
                 /\ task'[t].new = session /\ session # 0 /\ configured
      BY <2>4, SyncBegins DEF SyncBegin
    <2>5. QED BY <2>1, <2>2, <2>3, <2>4 DEF Begin
  <1> USE DEF Begins, Others
  <1>4. /\ \A f \in Files : upKek[f] = 0
        /\ \A u \in Tasks : task[u].kind # "none" => k = "change" /\ task[u].kind = "change"
    BY <1>3, CalmFacts
  <1>5. \A u \in Tasks : Past(u)' <=> Past(u)
    BY <1>1, <1>3 DEF Past
  <1>6. CalmAlone'
    BY <1>2, <1>3, <1>4 DEF CalmAlone
  <1>7. OnePast' /\ AtRest' /\ FilesWrapped'
    BY <1>2, <1>5 DEF OnePast, AtRest, FilesWrapped
  <1>8. \A u \in Tasks : u # t => (Past(u) => UnderWay(u))' /\ TakenKeys(u)'
    BY <1>2, <1>3, <1>5 DEF UnderWay, TakenKeys
  <1>9. k = "sync" => session = localHdr.key
    BY <1>3, <1>4 DEF AtRest, Past
  <1>10. TakenKeys(t)'
    BY <1>2, <1>3, <1>9, KeysNat DEF TakenKeys
  <1>11. QED BY <1>1, <1>5, <1>6, <1>7, <1>8, <1>10

LEMMA CalmRekey ==
    ASSUME Calmly, calm, OrderInv, CalmKeys, NEW t \in Tasks, Rewrap(t) \/ RekeyDb(t)
    PROVE  CalmKeys'
  <1> USE DEF CalmKeys, OrderInv, vault, disk, cloud, user, At
  <1>1. Typed
    OBVIOUS
  <1> HIDE DEF Typed
  <1>2. UNCHANGED <<session, localHdr, upKek, configured>>
    BY DEF Rewrap, RekeyDb
  <1>3. Shaped(task[t].kind, task[t].pc)
    BY DEF Typed, Shapes
  <1>4. CASE Rewrap(t) /\ Retire(t) /\ UNCHANGED <<ident, wrapped>>
    BY <1>2, <1>4, RetireEnds, CalmEnds DEF Rewrap, Past
  <1>5. CASE Rewrap(t) /\ ~(Retire(t) /\ UNCHANGED <<ident, wrapped>>)
    <2>1. /\ dbKey = task[t].old /\ ident = task[t].old /\ ident' = task[t].new
          /\ UNCHANGED dbKey /\ Goto(t, "rekey") /\ task[t].pc = "rewrap"
          /\ wrapped' = [f \in Files |-> IF wrapped[f] = task[t].old THEN task[t].new ELSE wrapped[f]]
      BY <1>5 DEF Rewrap, VerifyCredentials, OpensDb
    <2>2. Becomes(t, task[t].kind, "rekey", task[t].ok)
      BY <2>1, GotoBecomes DEF Places
    <2>3. /\ task[t].kind \in {"change", "recover"} /\ dbKey < task[t].new
          /\ task[t].hdr.key = task[t].new
      BY <1>3, <2>1 DEF TasksOrdered, TaskOrdered, Shaped
    <2>4. \A u \in Tasks : ~Past(u)
      <3>1. SUFFICES ASSUME NEW u \in Tasks, Past(u) PROVE FALSE
        OBVIOUS
      <3>2. u # t /\ task[u].kind # "none"
        BY <2>1, <3>1 DEF Past
      <3>3. task[t].kind = "change"
        BY <2>3, <3>2 DEF CalmAlone
      <3>4. task[t].old <= localHdr.key /\ localHdr.key < task[u].new /\ ident = task[u].new
        BY <2>1, <3>1, <3>3 DEF TakenKeys, UnderWay
      <3>5. QED BY <2>1, <3>4, KeysNat
    <2>5. dbKey = localHdr.key /\ session \in {0, localHdr.key}
      BY <2>4 DEF AtRest
    <2>6. \A u \in Tasks : Past(u)' <=> u = t
      BY <2>2, <2>3, <2>4 DEF Becomes, Others, Past
    <2>7. CalmAlone'
      BY <1>2, <2>2 DEF Becomes, Others, CalmAlone
    <2>8. FilesWrapped'
      BY <2>1 DEF FilesWrapped
    <2>9. UnderWay(t)'
      BY <1>2, <2>1, <2>2, <2>3, <2>5 DEF Becomes, UnderWay
    <2>10. TakenKeys(t)'
      BY <2>2, <2>3 DEF Becomes, TakenKeys
    <2>11. \A u \in Tasks : u # t => TakenKeys(u)'
      BY <1>2, <2>2 DEF Becomes, Others, TakenKeys
    <2>12. OnePast' /\ AtRest'
      BY <2>6 DEF OnePast, AtRest
    <2>13. QED BY <2>6, <2>7, <2>8, <2>9, <2>10, <2>11, <2>12
  <1>6. CASE RekeyDb(t)
    <2> DEFINE pc == IF task[t].kind = "change" THEN "swap" ELSE "stage"
    <2>1. /\ task[t].pc = "rekey" /\ dbKey' = task[t].new /\ UNCHANGED <<ident, wrapped>>
          /\ Goto(t, pc)
      BY <1>6 DEF RekeyDb
    <2>2. /\ Becomes(t, task[t].kind, pc, task[t].ok)
          /\ pc \in {"swap", "stage"} /\ (pc = "stage" => task[t].kind # "change")
      BY <2>1, GotoBecomes DEF Places
    <2> HIDE DEF pc
    <2>3. task[t].kind \in {"change", "recover"} /\ Past(t)
      BY <1>3, <2>1 DEF Shaped, Past
    <2>4. session \in {0, localHdr.key}
      BY <2>1, <2>3 DEF UnderWay
    <2>5. pc = "stage" => session = 0
      BY <2>1, <2>2, <2>3 DEF Guarded
    <2>6. \A u \in Tasks : Past(u)' <=> Past(u)
      BY <2>1, <2>2 DEF Becomes, Others, Past
    <2>7. UnderWay(t)'
      BY <1>2, <2>1, <2>2, <2>3, <2>4, <2>5 DEF Becomes, UnderWay
    <2>8. \A u \in Tasks : Past(u) => u = t
      BY <2>3 DEF OnePast
    <2>9. TakenKeys(t)'
      BY <2>2, <2>3 DEF Becomes, TakenKeys
    <2>10. \A u \in Tasks : u # t => TakenKeys(u)'
      BY <1>2, <2>2 DEF Becomes, Others, TakenKeys
    <2>11. CalmAlone' /\ FilesWrapped'
      BY <1>2, <2>1, <2>2 DEF Becomes, Others, CalmAlone, FilesWrapped
    <2>12. OnePast' /\ AtRest'
      BY <2>3, <2>6, <2>8 DEF OnePast, AtRest
    <2>13. QED BY <2>6, <2>7, <2>8, <2>9, <2>10, <2>11, <2>12
  <1>7. QED BY <1>4, <1>5, <1>6

LEMMA CalmInstall ==
    ASSUME Calmly, calm, OrderInv, CalmKeys, NEW t \in Tasks, SwapSession(t) \/ InstallSession(t)
    PROVE  CalmKeys'
  <1> USE DEF CalmKeys, OrderInv, vault, disk, cloud, user, At
  <1>1. Typed
    OBVIOUS
  <1> HIDE DEF Typed
  <1>2. /\ task[t].pc \in {"swap", "install"} /\ session' = task[t].new
        /\ UNCHANGED <<dbKey, ident, wrapped, localHdr, upKek, configured>>
    BY DEF SwapSession, InstallSession, InstallKeys
  <1>3. task[t].kind \in {"change", "recover"} /\ Past(t)
    BY <1>2 DEF Typed, Shapes, Shaped, Past
  <1>4. PICK pc : /\ Becomes(t, task[t].kind, pc, task[t].ok)
                  /\ pc = "write" \/ (pc = "stage" /\ configured)
    <2>1. Goto(t, "write") \/ (Goto(t, "stage") /\ configured)
      <3>1. CASE SwapSession(t) /\ configured
        BY <3>1 DEF SwapSession
      <3>2. CASE SwapSession(t) /\ ~configured
        BY <3>2 DEF SwapSession
      <3>3. CASE InstallSession(t)
        BY <3>3 DEF InstallSession
      <3>4. QED BY <3>1, <3>2, <3>3
    <2>2. CASE Goto(t, "write")
      BY <2>2, <1>1, GotoBecomes DEF Places
    <2>3. CASE Goto(t, "stage") /\ configured
      BY <2>3, <1>1, GotoBecomes DEF Places
    <2>4. QED BY <2>1, <2>2, <2>3
  <1>5. \A u \in Tasks : (Past(u)' <=> Past(u)) /\ (Past(u) => u = t)
    BY <1>2, <1>3, <1>4 DEF Becomes, Others, Past, OnePast
  <1>6. UnderWay(t)'
    BY <1>2, <1>3, <1>4 DEF Becomes, UnderWay
  <1>7. TakenKeys(t)'
    BY <1>3, <1>4 DEF Becomes, TakenKeys
  <1>8. \A u \in Tasks : u # t => TakenKeys(u)'
    BY <1>2, <1>4 DEF Becomes, Others, TakenKeys
  <1>9. CalmAlone' /\ FilesWrapped'
    BY <1>2, <1>4 DEF Becomes, Others, CalmAlone, FilesWrapped
  <1>10. OnePast' /\ AtRest'
    BY <1>3, <1>5 DEF OnePast, AtRest
  <1>11. QED BY <1>5, <1>6, <1>7, <1>8, <1>9, <1>10

(* The header on disk is written last: the vault is at rest again.          *)
LEMMA CalmWrite ==
    ASSUME Calmly, calm, OrderInv, CalmKeys, NEW t \in Tasks, WriteLocal(t)
    PROVE  CalmKeys'
  <1> USE DEF CalmKeys, OrderInv, vault, disk, cloud, user, At
  <1>1. Typed
    OBVIOUS
  <1> HIDE DEF Typed
  <1>2. /\ task[t].pc = "write" /\ localHdr' = task[t].hdr
        /\ UNCHANGED <<dbKey, ident, wrapped, session, upKek, configured>>
    BY DEF WriteLocal
  <1>3. task[t].kind \in {"change", "setup", "recover"} /\ (Past(t) <=> task[t].kind # "setup")
    BY <1>2 DEF Typed, Shapes, Shaped, Past
  <1>4. \/ Ends(t)
        \/ task[t].kind = "recover" /\ configured /\ Becomes(t, "sync", "push", task[t].ok)
    BY RetireEnds, SyncBecomes DEF WriteLocal, Finish
  <1> USE DEF Ends, Becomes, Others
  <1>5. \A u \in Tasks : u # t => ~Past(u)
    BY <1>3 DEF OnePast, CalmAlone, Past
  <1>6. \A u \in Tasks : ~Past(u)'
    BY <1>4, <1>5 DEF Past
  <1>7. /\ dbKey = task[t].hdr.key /\ ident = task[t].hdr.key
        /\ session \in {0, task[t].hdr.key} /\ localHdr.key <= task[t].hdr.key
    <2>1. CASE Past(t)
      BY <1>2, <2>1, KeysNat DEF UnderWay
    <2>2. CASE ~Past(t)
      BY <1>3, <1>5, <2>2, KeysNat DEF AtRest, TakenKeys
    <2>3. QED BY <2>1, <2>2
  <1>8. \A u \in Tasks : u # t => TakenKeys(u)'
    <2>1. SUFFICES ASSUME NEW u \in Tasks, u # t PROVE TakenKeys(u)'
      OBVIOUS
    <2>2. task[u].kind \in {"none", "change"} /\ task'[u] = task[u]
      BY <1>3, <1>4, <2>1 DEF CalmAlone
    <2>3. QED BY <1>2, <1>7, <2>2, KeysNat DEF TakenKeys
  <1>9. TakenKeys(t)'
    BY <1>2, <1>3, <1>4 DEF TakenKeys, UnderWay
  <1>10. CalmAlone'
    BY <1>2, <1>3, <1>4 DEF CalmAlone
  <1>11. OnePast' /\ AtRest' /\ FilesWrapped'
    BY <1>2, <1>6, <1>7 DEF OnePast, AtRest, FilesWrapped
  <1>12. QED BY <1>6, <1>8, <1>9, <1>10, <1>11

(* The steps of a ceremony or a push that change no key of the vault.       *)
LEMMA CalmSends ==
    ASSUME Calmly, calm, OrderInv, CalmKeys, NEW t \in Tasks,
           \/ StageHeader(t) \/ UploadHeader(t) \/ UploadHeaderFail(t)
           \/ UploadManifest(t) \/ UploadManifestFail(t) \/ SetFlag(t) \/ SyncStep(t)
    PROVE  CalmKeys'
  <1> USE DEF CalmKeys, OrderInv, vault, disk, cloud, user, At
  <1>1. Typed
    OBVIOUS
  <1> HIDE DEF Typed
  <1>2. UNCHANGED <<dbKey, ident, wrapped, session, localHdr, upKek, configured>>
    BY DEF StageHeader, UploadHeader, UploadHeaderFail, UploadManifest, UploadManifestFail,
           SetFlag, SyncStep, SyncManifest, SyncHeader, SyncClear, SyncFail
  <1>3. Shaped(task[t].kind, task[t].pc) /\ (Past(t) => UnderWay(t))
    BY DEF Typed, Shapes
  <1>4. CASE StageHeader(t)
    BY <1>2, <1>4, GotoBecomes, CalmMoves DEF StageHeader, Places
  <1>5. CASE UploadHeader(t)
    <2>1. Becomes(t, task[t].kind, "write", task[t].ok)
          \/ Becomes(t, task[t].kind, "manifest", task[t].ok)
      BY <1>5, GotoBecomes DEF UploadHeader, Places
    <2>2. task[t].pc = "upload"
      BY <1>5 DEF UploadHeader
    <2>3. QED BY <1>2, <2>1, <2>2, CalmMoves
  <1>6. CASE UploadHeaderFail(t)
    <2>1. task[t].pc = "upload" /\ (~configured \/ task[t].kind = "recover")
      BY <1>6, CalmFacts DEF UploadHeaderFail, MayFail
    <2>2. CASE task[t].kind = "recover"
      <3>1. task' = [task EXCEPT ![t] = [@ EXCEPT !.pc = "manifest", !.ok = FALSE]]
        BY <1>6, <2>2 DEF UploadHeaderFail
      <3>2. Becomes(t, task[t].kind, "manifest", FALSE)
        BY <3>1, FailBecomes DEF Places
      <3>3. QED BY <1>2, <2>1, <3>2, CalmMoves
    <2>3. CASE task[t].kind # "recover"
      <3>1. Ends(t)
        BY <1>6, <2>3, RetireEnds DEF UploadHeaderFail
      <3>2. ~Past(t)
        BY <1>3, <2>1, <2>3 DEF Past, UnderWay
      <3>3. QED BY <1>2, <3>1, <3>2, CalmEnds
    <2>4. QED BY <2>2, <2>3
  <1>7. CASE UploadManifest(t)
    <2>1. Becomes(t, task[t].kind, "write", task[t].ok)
          \/ Becomes(t, task[t].kind, "flag", task[t].ok)
      BY <1>7, GotoBecomes DEF UploadManifest, Places
    <2>2. task[t].pc = "manifest"
      BY <1>7 DEF UploadManifest
    <2>3. QED BY <1>2, <2>1, <2>2, CalmMoves
  <1>8. CASE UploadManifestFail(t)
    <2> DEFINE pc == IF task[t].kind = "change" THEN "write" ELSE "flag"
    <2>1. pc \in {"write", "flag"} /\ task[t].pc = "manifest"
      BY <1>8 DEF UploadManifestFail
    <2>2. task' = [task EXCEPT ![t] = [@ EXCEPT !.pc = pc, !.ok = FALSE]]
      BY <1>8 DEF UploadManifestFail
    <2> HIDE DEF pc
    <2>3. Becomes(t, task[t].kind, pc, FALSE)
      BY <2>1, <2>2, FailBecomes DEF Places
    <2>4. QED BY <1>2, <2>1, <2>3, CalmMoves
  <1>9. CASE SetFlag(t)
    BY <1>2, <1>9, GotoBecomes, CalmMoves DEF SetFlag, Places
  <1>10. CASE SyncStep(t)
    <2>1. task[t].pc \in {"push", "pushHeader", "clear"} /\ ~Past(t)
      BY <1>3, <1>10 DEF SyncStep, SyncManifest, SyncHeader, SyncClear, SyncFail, Past, Shaped
    <2>2. \/ Ends(t) \/ Becomes(t, task[t].kind, "pushHeader", task[t].ok)
          \/ Becomes(t, task[t].kind, "clear", task[t].ok)
      BY <1>10, RetireEnds, GotoBecomes
         DEF SyncStep, SyncManifest, SyncHeader, SyncClear, SyncFail, Places
    <2>3. QED BY <1>2, <2>1, <2>2, CalmEnds, CalmMoves
  <1>11. QED BY <1>4, <1>5, <1>6, <1>7, <1>8, <1>9, <1>10

(* Whether a behaviour is a calm one never changes.                         *)
LEMMA CalmStays ==
    ASSUME [Next]_vars PROVE calm' = calm
  <1>1. ASSUME NEW t \in Tasks, Begin(t) PROVE calm' = calm
    BY <1>1 DEF Begin, ChangeBegin, RecoverBegin, SetupBegin, SyncBegin
  <1>2. ASSUME NEW t \in Tasks, SyncStep(t) PROVE calm' = calm
    BY <1>2 DEF SyncStep, SyncManifest, SyncHeader, SyncClear, SyncFail
  <1>3. ASSUME NEW t \in Tasks, CeremonyStep(t) PROVE calm' = calm
    BY <1>3 DEF CeremonyStep, RecoverKeyFileFail, Rewrap, RekeyDb, RekeyFail, SwapSession, SwapFail,
         StageHeader, StageHeaderFail, UploadHeader, UploadHeaderFail, UploadManifest,
         UploadManifestFail, SetFlag, SetFlagFail, InstallSession, InstallFail, WriteLocal,
         WriteLocalFail
  <1>4. QED BY <1>1, <1>2, <1>3 DEF Next, FileRead, FileInsert, Unlock, Lock, Crash, vars

LEMMA CalmNext == Calmly /\ CalmInv /\ [Next]_vars => CalmInv'
  <1> SUFFICES ASSUME Calmly, CalmInv, [Next]_vars PROVE CalmInv' OBVIOUS
  <1>1. OrderInv'
    BY OrderNext DEF CalmInv
  <1> USE DEF CalmInv, vault, disk, cloud, user
  <1>2. SUFFICES ASSUME calm' PROVE CalmKeys'
    BY <1>1
  <1>3. calm /\ CalmKeys
    BY <1>2, CalmStays
  <1>4. ASSUME NEW t \in Tasks, Begin(t) PROVE CalmKeys'
    BY <1>3, <1>4, CalmBegin
  <1>5. ASSUME NEW t \in Tasks, CeremonyStep(t) \/ SyncStep(t) PROVE CalmKeys'
    <2>1. ~RecoverKeyFileFail(t) /\ ~RekeyFail(t) /\ ~SwapFail(t) /\ ~StageHeaderFail(t)
          /\ ~SetFlagFail(t) /\ ~InstallFail(t) /\ ~WriteLocalFail(t)
      BY <1>3, CalmFacts DEF RecoverKeyFileFail, RekeyFail, SwapFail, StageHeaderFail, SetFlagFail,
           InstallFail, WriteLocalFail
    <2>2. QED BY <1>3, <1>5, <2>1, CalmRekey, CalmInstall, CalmWrite, CalmSends DEF CeremonyStep
  <1> USE DEF CalmKeys
  <1>6. ASSUME NEW f \in Files, FileRead(f) PROVE CalmKeys'
    <2>1. \A t \in Tasks : task[t].kind = "none"
      BY <1>3, <1>6, CalmFacts DEF FileRead
    <2>2. /\ UNCHANGED <<dbKey, ident, wrapped, session, localHdr, configured, task>>
          /\ upKek' = [upKek EXCEPT ![f] = session]
      BY <1>6 DEF FileRead
    <2>3. CalmAlone'
      BY <2>1, <2>2 DEF CalmAlone
    <2>4. QED BY <1>3, <2>2, <2>3 DEF OnePast, AtRest, FilesWrapped, Past, UnderWay, TakenKeys
  <1>7. ASSUME NEW f \in Files, FileInsert(f) PROVE CalmKeys'
    <2>1. /\ UNCHANGED <<dbKey, ident, session, localHdr, configured, task>>
          /\ wrapped' = [wrapped EXCEPT ![f] = IF OpensDb(upKek[f]) THEN upKek[f] ELSE 0]
          /\ upKek' = [upKek EXCEPT ![f] = 0] /\ upKek[f] # 0
      BY <1>7 DEF FileInsert
    <2>2. wrapped \in [Files -> Gens] /\ upKek \in [Files -> Gens]
      BY DEF OrderInv, Typed, TypeOK
    <2>3. \A t \in Tasks : task[t].kind = "none"
      BY <1>3, <2>1 DEF CalmAlone
    <2>4. ident = dbKey
      BY <1>3, <2>3 DEF AtRest, Past
    <2>5. FilesWrapped'
      BY <1>3, <2>1, <2>2, <2>4 DEF FilesWrapped, OpensDb
    <2>6. CalmAlone'
      BY <2>1, <2>3 DEF CalmAlone
    <2>7. QED BY <1>3, <2>1, <2>5, <2>6 DEF OnePast, AtRest, Past, UnderWay, TakenKeys
  <1>8. CASE Unlock \/ Lock
    <2>1. /\ UNCHANGED <<dbKey, ident, wrapped, localHdr, configured, task, upKek>>
          /\ session' = 0 \/ (session' = localHdr.key /\ session' = dbKey)
      <3>1. CASE Unlock
        BY <3>1 DEF Unlock, OpensDb, InstallKeys, KeyOf
      <3>2. CASE Lock
        BY <3>2 DEF Lock
      <3>3. QED BY <1>8, <3>1, <3>2
    <2>2. \A t \in Tasks : Past(t)' <=> Past(t)
      BY <2>1 DEF Past
    <2>3. \A t \in Tasks : Past(t) => UnderWay(t)'
      <3>1. SUFFICES ASSUME NEW t \in Tasks, Past(t) PROVE UnderWay(t)'
        OBVIOUS
      <3>2. UnderWay(t)
        BY <1>3, <3>1
      <3>3. session' # 0 => task[t].pc = "rekey"
        BY <2>1, <3>2, KeysNat DEF UnderWay, OrderInv
      <3>4. QED BY <2>1, <3>2, <3>3 DEF UnderWay
    <2>4. AtRest' /\ OnePast' /\ CalmAlone' /\ FilesWrapped'
      BY <1>3, <2>1, <2>2 DEF AtRest, OnePast, CalmAlone, FilesWrapped
    <2>5. QED BY <1>3, <2>1, <2>2, <2>3, <2>4 DEF TakenKeys
  <1>9. ~Crash
    BY <1>3, CalmFacts DEF Crash
  <1>10. CASE UNCHANGED vars
    BY <1>3, <1>10 DEF vars, CalmAlone, OnePast, AtRest, FilesWrapped, Past, UnderWay, TakenKeys
  <1>11. QED BY <1>4, <1>5, <1>6, <1>7, <1>8, <1>9, <1>10 DEF Next

(* Between ceremonies nobody is locked out: the header on disk, the         *)
(* database, its identity row and the session agree on one master key, for  *)
(* any number of changes at a time (change_password, rotate_key_file,       *)
(* setup_recovery, recover_with_phrase).                                    *)
THEOREM VaultStaysOpenable == Calmly => (Spec => []Openable)
  <1> SUFFICES ASSUME Calmly PROVE Spec => []Openable
    OBVIOUS
  <1>1. CalmInv /\ [Next]_vars => CalmInv'
    BY CalmNext
  <1>2. CalmInv => Openable
    BY DEF CalmInv, CalmKeys, AtRest, Past, Openable, Settled, Running
  <1>3. QED BY <1>1, <1>2, CalmInit, PTL DEF Spec

(* Between ceremonies every file key is wrapped under the key the database  *)
(* is under, files uploaded between and packed files included               *)
(* (rekey_vault_db).                                                        *)
THEOREM FileKeysStayCurrent == Calmly => (Spec => []FileKeysCurrent)
  <1> SUFFICES ASSUME Calmly PROVE Spec => []FileKeysCurrent
    OBVIOUS
  <1>1. CalmInv /\ [Next]_vars => CalmInv'
    BY CalmNext
  <1>2. CalmInv => FileKeysCurrent
    BY DEF CalmInv, CalmKeys, AtRest, FilesWrapped, Past, FileKeysCurrent, Settled, Running
  <1>3. QED BY <1>1, <1>2, CalmInit, PTL DEF Spec

-----------------------------------------------------------------------------
(* The cloud.                                                               *)
CloudState == CloudAtRest /\ \A t \in Tasks : CloudOf(t)

(* While one task writes, the others wait before their transactions.        *)
LEMMA OthersWait ==
    ASSUME Typed, CalmKeys, NEW t \in Tasks, task[t].kind # "none", task[t].pc # "rewrap",
           NEW u \in Tasks, u # t
    PROVE  task[u].pc \in {"idle", "rewrap"} /\ ~Past(u)
  <1>1. Shaped(task[t].kind, task[t].pc) /\ Shaped(task[u].kind, task[u].pc)
    BY DEF Typed, Shapes
  <1>2. CASE task[t].kind = "change"
    <2>1. Past(t) /\ ~Past(u)
      BY <1>2 DEF Past, CalmKeys, OnePast
    <2>2. task[u].kind \in {"none", "change"}
      BY <1>2 DEF CalmKeys, CalmAlone
    <2>3. QED BY <1>1, <2>1, <2>2 DEF Past, Shaped
  <1>3. CASE task[t].kind # "change"
    BY <1>1, <1>3 DEF CalmKeys, CalmAlone, Past, Shaped
  <1>4. QED BY <1>2, <1>3

LEMMA CloudInit == Init => CloudInv
  <1> SUFFICES ASSUME Init PROVE CloudInv OBVIOUS
  <1>1. \A t \in Tasks : task[t].kind = "none" /\ task[t].pc = "idle"
    BY IdleTask DEF Init
  <1>2. \A t \in Tasks : CloudOf(t)
    BY <1>1 DEF CloudOf
  <1>3. configured => CloudHas(localHdr.key)
    BY DEF Init, CloudHas
  <1>4. QED BY <1>2, <1>3, CalmInit DEF CloudInv, CloudAtRest

(* Steps that leave cloud, flag and header on disk alone, and no task past  *)
(* its COMMIT that was.                                                     *)
LEMMA CloudQuiet ==
    ASSUME CloudState, NEW t \in Tasks, Others(t),
           UNCHANGED <<cloudHdr, cloudMan, repair, localHdr>>,
           task'[t].pc \in {"idle", "rewrap", "rekey", "swap", "stage", "upload", "push"},
           Past(t) => Past(t)'
    PROVE  CloudState'
  <1>1. \A u \in Tasks : u # t => CloudOf(u)' /\ (Past(u)' <=> Past(u))
    BY DEF CloudState, CloudOf, CloudHas, Others, Past
  <1>2. CloudOf(t)'
    BY DEF CloudOf
  <1>3. CloudAtRest'
    BY <1>1 DEF CloudState, CloudAtRest, CloudHas
  <1>4. QED BY <1>1, <1>2, <1>3 DEF CloudState

LEMMA CloudCeremony ==
    ASSUME Calmly, calm, configured, CalmInv, CloudState, NEW t \in Tasks, CeremonyStep(t)
    PROVE  CloudState'
  <1> USE DEF vault, disk, cloud, user, At
  <1>1. Typed /\ CalmKeys /\ OrderInv
    BY DEF CalmInv, OrderInv
  <1>2. /\ ~RecoverKeyFileFail(t) /\ ~RekeyFail(t) /\ ~SwapFail(t) /\ ~StageHeaderFail(t)
        /\ ~SetFlagFail(t) /\ ~InstallFail(t) /\ ~WriteLocalFail(t)
    BY CalmFacts DEF RecoverKeyFileFail, RekeyFail, SwapFail, StageHeaderFail, SetFlagFail,
         InstallFail, WriteLocalFail
  <1>3. Shaped(task[t].kind, task[t].pc)
    BY <1>1 DEF Typed, Shapes
  <1>4. CASE Rewrap(t)
    <2>1. Ends(t) \/ Becomes(t, task[t].kind, "rekey", task[t].ok)
      BY <1>1, <1>4, RetireEnds, GotoBecomes DEF Rewrap, Places
    <2>2. UNCHANGED <<cloudHdr, cloudMan, repair, localHdr>> /\ ~Past(t)
      BY <1>4 DEF Rewrap, Past
    <2>3. QED BY <2>1, <2>2, CloudQuiet DEF Ends, Becomes
  <1>5. CASE RekeyDb(t) \/ SwapSession(t) \/ StageHeader(t)
    <2>1. PICK pc \in {"swap", "stage", "upload"} : Becomes(t, task[t].kind, pc, task[t].ok)
      <3>1. \E pc \in {"swap", "stage", "upload"} : Goto(t, pc)
        <4>1. CASE RekeyDb(t)
          BY <4>1 DEF RekeyDb
        <4>2. CASE SwapSession(t)
          BY <4>2 DEF SwapSession
        <4>3. CASE StageHeader(t)
          BY <4>3 DEF StageHeader
        <4>4. QED BY <1>5, <4>1, <4>2, <4>3
      <3>2. QED BY <1>1, <3>1, GotoBecomes DEF Places
    <2>2. UNCHANGED <<cloudHdr, cloudMan, repair, localHdr>>
      BY <1>5 DEF RekeyDb, SwapSession, StageHeader
    <2>3. Past(t) => Past(t)'
      BY <2>1 DEF Becomes, Past
    <2>4. QED BY <2>1, <2>2, <2>3, CloudQuiet DEF Becomes
  <1>6. CASE ~Rewrap(t) /\ ~RekeyDb(t) /\ ~SwapSession(t) /\ ~StageHeader(t)
    <2>1. \/ UploadHeader(t) \/ UploadHeaderFail(t) \/ UploadManifest(t) \/ UploadManifestFail(t)
          \/ SetFlag(t) \/ InstallSession(t) \/ WriteLocal(t)
      BY <1>2, <1>6 DEF CeremonyStep
    <2>2. task[t].pc \in {"upload", "manifest", "flag", "install", "write"}
      BY <2>1 DEF UploadHeader, UploadHeaderFail, UploadManifest, UploadManifestFail, SetFlag,
           InstallSession, WriteLocal
    <2>3. task[t].kind \in {"change", "setup", "recover"} /\ (Past(t) <=> task[t].kind # "setup")
      BY <1>3, <2>2 DEF Shaped, Past
    <2>4. \A u \in Tasks : u # t => task[u].pc \in {"idle", "rewrap"} /\ ~Past(u)
      BY <1>1, <2>2, <2>3, OthersWait
    <2>5. ASSUME Others(t), CloudOf(t)',
                 \/ Past(t)'
                 \/ repair' \/ CloudHas(localHdr.key)'
          PROVE  CloudState'
      <3>1. \A u \in Tasks : u # t => CloudOf(u)' /\ ~Past(u)'
        BY <2>4, <2>5 DEF Others, CloudOf, Past
      <3>2. QED BY <2>5, <3>1 DEF CloudState, CloudAtRest
    <2>6. CloudOf(t) /\ (Past(t) => UnderWay(t)) /\ TakenKeys(t)
      BY <1>1 DEF CloudState, CalmKeys
    <2>7. ~Past(t) => repair \/ CloudHas(localHdr.key)
      BY <2>4 DEF CloudState, CloudAtRest
    <2>8. CASE UploadHeader(t)
      <3>1. Becomes(t, task[t].kind, IF task[t].kind = "setup" THEN "write" ELSE "manifest", task[t].ok)
        <4>1. CASE task[t].kind = "setup"
          BY <1>1, <2>8, <4>1, GotoBecomes DEF UploadHeader, Places
        <4>2. CASE task[t].kind # "setup"
          BY <1>1, <2>8, <4>2, GotoBecomes DEF UploadHeader, Places
        <4>3. QED BY <4>1, <4>2
      <3>2. cloudHdr' = task[t].hdr /\ UNCHANGED <<cloudMan, repair, localHdr>>
        BY <2>8 DEF UploadHeader
      <3>3. Past(t)' <=> Past(t)
        BY <2>3, <3>1 DEF Becomes, Past
      <3>4. CloudOf(t)'
        BY <2>3, <2>6, <3>1, <3>2 DEF Becomes, CloudOf, UnderWay
      <3>5. ~Past(t) => repair' \/ CloudHas(localHdr.key)'
        BY <2>3, <2>6, <2>7, <3>2 DEF TakenKeys, CloudHas
      <3>6. QED BY <2>5, <3>1, <3>3, <3>4, <3>5 DEF Becomes
    <2>9. CASE UploadHeaderFail(t)
      <3>1. task[t].kind = "recover"
        BY <2>9, CalmFacts DEF UploadHeaderFail, MayFail
      <3>2. task' = [task EXCEPT ![t] = [@ EXCEPT !.pc = "manifest", !.ok = FALSE]]
        BY <2>9, <3>1 DEF UploadHeaderFail
      <3>3. Becomes(t, "recover", "manifest", FALSE)
        BY <1>1, <3>1, <3>2, FailBecomes DEF Places
      <3>4. CloudOf(t)' /\ Past(t)'
        BY <3>3 DEF Becomes, CloudOf, Past
      <3>5. QED BY <2>5, <3>3, <3>4 DEF Becomes
    <2>10. CASE UploadManifest(t)
      <3>1. task[t].pc = "manifest" /\ task[t].kind # "setup"
        BY <1>3, <2>10 DEF UploadManifest, Shaped
      <3>2. Becomes(t, task[t].kind, IF task[t].kind = "change" THEN "write" ELSE "flag", task[t].ok)
        <4>1. CASE task[t].kind = "change"
          BY <1>1, <2>10, <4>1, GotoBecomes DEF UploadManifest, Places
        <4>2. CASE task[t].kind # "change"
          BY <1>1, <2>10, <4>2, GotoBecomes DEF UploadManifest, Places
        <4>3. QED BY <4>1, <4>2
      <3>3. cloudMan' = task[t].new /\ UNCHANGED <<cloudHdr, repair, localHdr>>
        BY <2>10 DEF UploadManifest
      <3>4. CloudOf(t)' /\ Past(t)'
        BY <2>3, <2>6, <3>1, <3>2, <3>3 DEF Becomes, CloudOf, CloudHas, Past
      <3>5. QED BY <2>5, <3>2, <3>4 DEF Becomes
    <2>11. CASE UploadManifestFail(t)
      <3>1. task[t].kind = "recover"
        BY <2>11, CalmFacts DEF UploadManifestFail, MayFail
      <3>2. task' = [task EXCEPT ![t] = [@ EXCEPT !.pc = "flag", !.ok = FALSE]]
        BY <2>11, <3>1 DEF UploadManifestFail
      <3>3. Becomes(t, "recover", "flag", FALSE)
        BY <1>1, <3>1, <3>2, FailBecomes DEF Places
      <3>4. CloudOf(t)' /\ Past(t)'
        BY <3>3 DEF Becomes, CloudOf, Past
      <3>5. QED BY <2>5, <3>3, <3>4 DEF Becomes
    <2>12. CASE SetFlag(t) \/ InstallSession(t)
      <3>1. \/ /\ task[t].pc = "flag" /\ repair' = ~task[t].ok /\ Goto(t, "install")
            \/ /\ task[t].pc = "install" /\ repair' = repair /\ Goto(t, "write")
        BY <2>12 DEF SetFlag, InstallSession
      <3>2. UNCHANGED <<cloudHdr, cloudMan, localHdr>> /\ task[t].kind = "recover"
        BY <1>3, <2>12, <3>1 DEF SetFlag, InstallSession, Shaped
      <3>3. PICK pc \in {"install", "write"} : Becomes(t, "recover", pc, task[t].ok)
        BY <1>1, <3>1, <3>2, GotoBecomes DEF Places
      <3>4. task[t].ok \in BOOLEAN /\ repair \in BOOLEAN
        BY <1>1 DEF Typed, TypeOK, Ceremony
      <3>5. repair' \/ CloudHas(task[t].new)
        BY <2>6, <3>1, <3>2, <3>4 DEF CloudOf
      <3>6. CloudOf(t)' /\ Past(t)'
        BY <3>2, <3>3, <3>5 DEF Becomes, CloudOf, CloudHas, Past
      <3>7. QED BY <2>5, <3>3, <3>6 DEF Becomes
    <2>13. CASE WriteLocal(t)
      <3>1. \/ Ends(t)
            \/ Becomes(t, "sync", "push", task[t].ok)
        BY <1>1, <2>13, RetireEnds, SyncBecomes DEF WriteLocal, Finish
      <3>2. task[t].pc = "write" /\ localHdr' = task[t].hdr /\ UNCHANGED <<cloudHdr, cloudMan, repair>>
        BY <2>13 DEF WriteLocal
      <3>3. repair \/ CloudHas(task[t].hdr.key)
        <4>1. CASE task[t].kind = "setup"
          BY <2>3, <2>6, <2>7, <4>1 DEF TakenKeys
        <4>2. CASE task[t].kind # "setup"
          BY <2>3, <2>6, <3>2, <4>2 DEF CloudOf, UnderWay
        <4>3. QED BY <4>1, <4>2
      <3>4. repair' \/ CloudHas(localHdr.key)'
        BY <3>2, <3>3 DEF CloudHas
      <3>5. CloudOf(t)'
        BY <3>1 DEF Ends, Becomes, CloudOf
      <3>6. QED BY <2>5, <3>1, <3>4, <3>5 DEF Ends, Becomes
    <2>14. QED BY <2>1, <2>8, <2>9, <2>10, <2>11, <2>12, <2>13
  <1>7. QED BY <1>4, <1>5, <1>6

LEMMA CloudPush ==
    ASSUME Calmly, calm, configured, CalmInv, CloudState, NEW t \in Tasks, SyncStep(t)
    PROVE  CloudState'
  <1> USE DEF vault, disk, cloud, user, At
  <1>1. Typed /\ CalmKeys
    BY DEF CalmInv, OrderInv
  <1>2. task[t].pc \in {"push", "pushHeader", "clear"} /\ UNCHANGED localHdr
    BY DEF SyncStep, SyncManifest, SyncHeader, SyncClear, SyncFail
  <1>3. task[t].kind = "sync" /\ ~Past(t)
    BY <1>1, <1>2 DEF Typed, Shapes, Shaped, Past
  <1>4. /\ task[t].hdr.key = localHdr.key /\ task[t].new = localHdr.key
        /\ CloudOf(t) /\ \A u \in Tasks : u # t => task[u].pc \in {"idle", "rewrap"} /\ ~Past(u)
    BY <1>1, <1>2, <1>3, OthersWait DEF CalmKeys, TakenKeys, CloudState
  <1>5. repair \/ CloudHas(localHdr.key)
    BY <1>3, <1>4 DEF CloudState, CloudAtRest
  <1>6. ASSUME Others(t), CloudOf(t)', repair' \/ CloudHas(localHdr.key)'
        PROVE  CloudState'
    <2>1. \A u \in Tasks : u # t => CloudOf(u)'
      BY <1>4, <1>6 DEF Others, CloudOf
    <2>2. QED BY <1>6, <2>1 DEF CloudState, CloudAtRest
  <1>7. CASE SyncManifest(t)
    <2>1. CASE Goto(t, "pushHeader") /\ cloudMan' = task[t].new
      <3>1. Becomes(t, task[t].kind, "pushHeader", task[t].ok)
        BY <1>1, <2>1, GotoBecomes DEF Places
      <3>2. UNCHANGED <<cloudHdr, repair>>
        BY <1>7 DEF SyncManifest
      <3>3. CloudOf(t)' /\ (repair' \/ CloudHas(localHdr.key)')
        BY <1>2, <1>3, <1>4, <1>5, <2>1, <3>1, <3>2 DEF Becomes, CloudOf, CloudHas
      <3>4. QED BY <1>6, <3>1, <3>3 DEF Becomes
    <2>2. CASE Retire(t) /\ UNCHANGED cloudMan
      <3>1. Ends(t)
        BY <1>1, <2>2, RetireEnds
      <3>2. UNCHANGED <<cloudHdr, repair>>
        BY <1>7 DEF SyncManifest
      <3>3. CloudOf(t)' /\ (repair' \/ CloudHas(localHdr.key)')
        BY <1>2, <1>5, <2>2, <3>1, <3>2 DEF Ends, CloudOf, CloudHas
      <3>4. QED BY <1>6, <3>1, <3>3 DEF Ends
    <2>3. QED BY <1>7, <2>1, <2>2 DEF SyncManifest
  <1>8. CASE SyncHeader(t)
    <2>1. Becomes(t, task[t].kind, "clear", task[t].ok)
      BY <1>1, <1>8, GotoBecomes DEF SyncHeader, Places
    <2>2. /\ cloudHdr' = task[t].hdr /\ UNCHANGED <<cloudMan, repair>>
          /\ task[t].pc = "pushHeader"
      BY <1>8 DEF SyncHeader
    <2>3. CloudOf(t)' /\ CloudHas(localHdr.key)'
      BY <1>2, <1>3, <1>4, <2>1, <2>2 DEF Becomes, CloudOf, CloudHas
    <2>4. QED BY <1>6, <2>1, <2>3 DEF Becomes
  <1>9. CASE SyncClear(t)
    <2>1. Ends(t) /\ task[t].pc = "clear" /\ UNCHANGED <<cloudHdr, cloudMan>>
      BY <1>1, <1>9, RetireEnds DEF SyncClear
    <2>2. CloudOf(t)' /\ CloudHas(localHdr.key)'
      BY <1>2, <1>4, <2>1 DEF Ends, CloudOf, CloudHas
    <2>3. QED BY <1>6, <2>1, <2>2 DEF Ends
  <1>10. CASE SyncFail(t)
    <2>1. Ends(t) /\ UNCHANGED repair
      BY <1>1, <1>10, RetireEnds DEF SyncFail
    <2>2. \/ UNCHANGED <<cloudHdr, cloudMan>>
          \/ cloudMan' = task[t].new /\ UNCHANGED cloudHdr
          \/ cloudHdr' = task[t].hdr /\ UNCHANGED cloudMan
      BY <1>10 DEF SyncFail
    <2>3. CloudOf(t)'
      BY <2>1 DEF Ends, CloudOf
    <2>4. repair' \/ CloudHas(localHdr.key)'
      BY <1>2, <1>4, <1>5, <2>1, <2>2 DEF CloudHas
    <2>5. QED BY <1>6, <2>1, <2>3, <2>4 DEF Ends
  <1>11. QED BY <1>7, <1>8, <1>9, <1>10 DEF SyncStep

LEMMA CloudNext == Calmly /\ CloudInv /\ [Next]_vars => CloudInv'
  <1> SUFFICES ASSUME Calmly, CloudInv, [Next]_vars PROVE CloudInv' OBVIOUS
  <1>1. CalmInv /\ CalmInv' /\ calm' = calm
    BY CalmNext, CalmStays DEF CloudInv
  <1> USE DEF vault, disk, cloud, user
  <1>2. configured' = configured
    <2>1. ASSUME NEW t \in Tasks, Begin(t) PROVE configured' = configured
      BY <2>1 DEF Begin, ChangeBegin, RecoverBegin, SetupBegin, SyncBegin
    <2>2. ASSUME NEW t \in Tasks, SyncStep(t) PROVE configured' = configured
      BY <2>2 DEF SyncStep, SyncManifest, SyncHeader, SyncClear, SyncFail
    <2>3. ASSUME NEW t \in Tasks, CeremonyStep(t) PROVE configured' = configured
      BY <2>3 DEF CeremonyStep, RecoverKeyFileFail, Rewrap, RekeyDb, RekeyFail, SwapSession,
           SwapFail, StageHeader, StageHeaderFail, UploadHeader, UploadHeaderFail, UploadManifest,
           UploadManifestFail, SetFlag, SetFlagFail, InstallSession, InstallFail, WriteLocal,
           WriteLocalFail
    <2>4. QED BY <2>1, <2>2, <2>3 DEF Next, FileRead, FileInsert, Unlock, Lock, Crash, vars
  <1>3. SUFFICES ASSUME calm, configured, CloudState PROVE CloudState'
    BY <1>1, <1>2 DEF CloudInv, CloudState
  <1>4. ASSUME NEW t \in Tasks, Begin(t) PROVE CloudState'
    <2>1. UNCHANGED <<cloudHdr, cloudMan, repair, localHdr>> /\ ~Past(t)
      BY <1>1, <1>4 DEF Begin, ChangeBegin, RecoverBegin, SetupBegin, SyncBegin, At, Past, CalmInv,
           OrderInv, Typed, Shapes, Shaped
    <2>2. Typed
      BY <1>1 DEF CalmInv, OrderInv
    <2>3. Others(t) /\ task'[t].pc \in {"rewrap", "stage", "push"}
      BY <1>4, <2>2, ChangeBegins, RecoverBegins, SetupBegins, SyncBegins DEF Begin, Begins
    <2>4. QED BY <1>3, <2>1, <2>3, CloudQuiet
  <1>5. ASSUME NEW t \in Tasks, CeremonyStep(t) \/ SyncStep(t) PROVE CloudState'
    BY <1>1, <1>3, <1>5, CloudCeremony, CloudPush
  <1>6. ~Crash
    BY <1>3, CalmFacts DEF Crash
  <1>7. CASE (\E f \in Files : FileRead(f) \/ FileInsert(f)) \/ Unlock \/ Lock \/ UNCHANGED vars
    <2>1. UNCHANGED <<cloudHdr, cloudMan, repair, localHdr, task>>
      BY <1>7 DEF FileRead, FileInsert, Unlock, Lock, vars
    <2>2. QED BY <1>3, <2>1 DEF CloudState, CloudAtRest, CloudOf, CloudHas, Past
  <1>8. QED BY <1>4, <1>5, <1>6, <1>7 DEF Next

(* However the uploads of a recovery and the pushes fail, a cloud that is   *)
(* not under the current key is flagged for repair                          *)
(* (pending_post_recovery_push, push_active_vault).                         *)
THEOREM StaleCloudIsFlagged == Calmly => (Spec => []StaleCloudFlagged)
  <1> SUFFICES ASSUME Calmly PROVE Spec => []StaleCloudFlagged
    OBVIOUS
  <1>1. CloudInv /\ [Next]_vars => CloudInv'
    BY CloudNext
  <1>2. CloudInv => StaleCloudFlagged
    BY DEF CloudInv, CalmInv, CalmKeys, AtRest, CloudAtRest, CloudHas, Past, StaleCloudFlagged,
           Settled, Running
  <1>3. QED BY <1>1, <1>2, CloudInit, PTL DEF Spec

-----------------------------------------------------------------------------
(* The recovery phrase.                                                     *)
SlotState ==
    /\ FirstSlot(localHdr) /\ (shown # {} => localHdr.slots # <<>>)
    /\ \A t \in Tasks : SlotsOf(t)

LEMMA SlotInit == Init => SlotInv
  <1> SUFFICES ASSUME Init PROVE SlotInv OBVIOUS
  <1>1. \A t \in Tasks : task[t].kind = "none"
    BY IdleTask DEF Init
  <1>2. localHdr.slots = <<>> /\ shown = {}
    BY DEF Init
  <1>3. QED BY <1>1, <1>2, CalmInit DEF SlotInv, FirstSlot, SlotsOf

LEMMA SlotNext == Calmly /\ SlotInv /\ [Next]_vars => SlotInv'
  <1> SUFFICES ASSUME Calmly, SlotInv, [Next]_vars PROVE SlotInv' OBVIOUS
  <1>1. CalmInv /\ CalmInv' /\ calm' = calm
    BY CalmNext, CalmStays DEF SlotInv
  <1>2. SUFFICES ASSUME calm, SlotState PROVE SlotState'
    BY <1>1 DEF SlotInv, SlotState
  <1>3. Typed
    BY <1>1 DEF CalmInv, OrderInv
  <1> USE DEF vault, disk, cloud, user
  <1>4. ASSUME NEW t \in Tasks, Begin(t) PROVE SlotState'
    <2>1. UNCHANGED <<localHdr, shown>>
      BY <1>4 DEF Begin, ChangeBegin, RecoverBegin, SetupBegin, SyncBegin
    <2>2. SlotsOf(t)' /\ Others(t)
      <3>1. ASSUME NEW q \in PhraseField, ChangeBegin(t, q) PROVE SlotsOf(t)' /\ Others(t)
        BY <1>3, <3>1, ChangeBegins DEF Begins, SlotsOf, FirstSlot
      <3>2. ASSUME NEW q \in shown, RecoverBegin(t, q) PROVE SlotsOf(t)' /\ Others(t)
        BY <1>3, <3>2, RecoverBegins DEF Begins, SlotsOf, FirstSlot
      <3>3. ASSUME SetupBegin(t) PROVE SlotsOf(t)' /\ Others(t)
        BY <1>2, <1>3, <3>3, SetupBegins DEF Begins, SlotsOf, FirstSlot, SlotState
      <3>4. ASSUME SyncBegin(t) PROVE SlotsOf(t)' /\ Others(t)
        BY <1>3, <3>4, SyncBegins DEF Begins, SlotsOf
      <3>5. QED BY <1>4, <3>1, <3>2, <3>3, <3>4 DEF Begin
    <2>3. \A u \in Tasks : u # t => SlotsOf(u)'
      BY <1>2, <2>2 DEF Others, SlotState, SlotsOf, FirstSlot
    <2>4. QED BY <1>2, <2>1, <2>2, <2>3 DEF SlotState, FirstSlot
  <1>5. ASSUME NEW t \in Tasks, CeremonyStep(t) \/ SyncStep(t) PROVE SlotState'
    <2>1. \A u \in Tasks : SlotsOf(u)'
      <3>1. Others(t) /\ (Ends(t) \/ \E k, pc, ok : Becomes(t, k, pc, ok) /\ k \in {task[t].kind, "sync"})
        BY <1>3, <1>5, CeremonyMoves DEF Ends, Becomes
      <3>2. SlotsOf(t)'
        BY <1>2, <3>1 DEF Ends, Becomes, SlotState, SlotsOf, FirstSlot
      <3>3. QED BY <1>2, <3>1, <3>2 DEF Others, SlotState, SlotsOf, FirstSlot
    <2>2. CASE WriteLocal(t)
      <3>1. /\ localHdr' = task[t].hdr /\ task[t].pc = "write"
            /\ shown' = CASE task[t].kind = "setup" -> ShownWith(task[t].phrase)
                          [] task[t].kind = "change" /\ task[t].hdr.slots = <<>> -> {}
                          [] OTHER -> shown
        BY <2>2 DEF WriteLocal, Finish, At
      <3>2. task[t].kind \in {"change", "setup", "recover"} /\ SlotsOf(t)
        BY <1>2, <1>3, <3>1 DEF Typed, Shapes, Shaped, SlotState
      <3>3. FirstSlot(localHdr)' /\ (shown' # {} => localHdr'.slots # <<>>)
        BY <3>1, <3>2 DEF SlotsOf, FirstSlot
      <3>4. QED BY <2>1, <3>3 DEF SlotState
    <2>3. CASE ~WriteLocal(t)
      <3>1. ~WriteLocalFail(t)
        BY <1>2, CalmFacts DEF WriteLocalFail
      <3>2. UNCHANGED <<localHdr, shown>>
        BY <1>5, <2>3, <3>1 DEF CeremonyStep, RecoverKeyFileFail, Rewrap, RekeyDb, RekeyFail,
           SwapSession, SwapFail, StageHeader, StageHeaderFail, UploadHeader, UploadHeaderFail,
           UploadManifest, UploadManifestFail, SetFlag, SetFlagFail, InstallSession, InstallFail,
           SyncStep, SyncManifest, SyncHeader, SyncClear, SyncFail
      <3>3. QED BY <1>2, <2>1, <3>2 DEF SlotState, FirstSlot
    <2>4. QED BY <2>2, <2>3
  <1>6. ~Crash
    BY <1>2, CalmFacts DEF Crash
  <1>7. CASE (\E f \in Files : FileRead(f) \/ FileInsert(f)) \/ Unlock \/ Lock \/ UNCHANGED vars
    <2>1. UNCHANGED <<localHdr, shown, task>>
      BY <1>7 DEF FileRead, FileInsert, Unlock, Lock, vars
    <2>2. QED BY <1>2, <2>1 DEF SlotState, FirstSlot, SlotsOf
  <1>8. QED BY <1>4, <1>5, <1>6, <1>7 DEF Next

(* A vault with one recovery phrase: as long as the user has not given it   *)
(* up, it opens the vault after any ceremonies (resolve_recovery_slot_action, *)
(* the re-wrapping of the first slot).                                       *)
THEOREM PhraseStaysValid == Calmly /\ MaxPhrases <= 1 => (Spec => []PhrasesOpen)
  <1> SUFFICES ASSUME Calmly, MaxPhrases <= 1 PROVE Spec => []PhrasesOpen
    OBVIOUS
  <1>1. SlotInv /\ [Next]_vars => SlotInv'
    BY SlotNext
  <1>2. SlotInv => PhrasesOpen
    <2>1. SUFFICES ASSUME SlotInv, calm, Settled, NEW q \in shown PROVE CanRecover(q)
      BY DEF PhrasesOpen
    <2>2. localHdr.key = dbKey
      BY <2>1 DEF SlotInv, CalmInv, CalmKeys, AtRest, Past, Settled, Running
    <2>3. localHdr.slots # <<>> /\ localHdr.slots[1].key = dbKey
      BY <2>1, <2>2 DEF SlotInv, FirstSlot
    <2>4. localHdr.slots \in Seq(Slot) /\ q \in Phrases
      BY <2>1 DEF SlotInv, CalmInv, OrderInv, Typed, TypeOK, Header
    <2>5. 1 \in 1 .. Len(localHdr.slots) /\ localHdr.slots[1] \in Slot
      BY <2>3, <2>4
    <2>6. \A x \in Phrases : x = 1
      BY BoundsFacts DEF Phrases
    <2>7. Opens(q, localHdr.slots[1])
      BY <2>4, <2>5, <2>6 DEF Opens, Slot
    <2>8. QED BY <2>3, <2>5, <2>7 DEF CanRecover
  <1>3. QED BY <1>1, <1>2, SlotInit, PTL DEF Spec

=============================================================================

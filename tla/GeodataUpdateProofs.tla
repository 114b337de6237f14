------------------------- MODULE GeodataUpdateProofs -------------------------
(* Proofs about GeodataUpdate for every set of kinds and every bound on        *)
(* updates, failures and crashes: types, that a pair without a journal is        *)
(* intact, that a journal can be rolled back, and that success is not undone.    *)
EXTENDS GeodataUpdate, TLAPS

\* A pair of one update, or no pair, no older than the update last reported.
Intact(pair, ins) == pair.data = pair.version /\ pair.data # Torn /\ pair.data >= ins

\* The journal says which backups were made, and they are an intact pair.
Backed(j, b, ins) ==
    /\ Intact(b, ins)
    /\ j.data = (b.data # Absent)
    /\ j.version = j.data

\* The files of a kind by what its journal file says, whatever its thread does.
OnDisk(l, b, j, ins) ==
    /\ j = NoJournal \/ j.phase \in Phases
    /\ j = NoJournal => Intact(l, ins)
    /\ j.phase \in {"Activating", "RollingBack"} => Backed(j, b, ins)
    /\ j.phase = "FilesActivated" => Intact(l, ins)

\* The pair the update under way installs.
Written(l, u) == l.data = u /\ l.version = u

\* Writing the journal: what each phase has done to the files before.
Writing(l, b, j, m, p, u, ins) ==
    /\ m.phase \in Phases
    /\ Backed(m, b, ins)
    /\ p = "publish_sync" => j = m
    /\ m.phase = "Activating" =>
         /\ u \in Updates
         /\ j = NoJournal \/ (p \in {"unnext", "publish_sync"} /\ j = m)
    /\ m.phase = "FilesActivated" =>
         /\ u \in Updates
         /\ Written(l, u)
         /\ j.phase \in {"Activating", "FilesActivated"}
    /\ m.phase = "RollingBack" => j # NoJournal

\* The files of a kind by where its thread is.
AtLabel(l, b, j, m, p, o, u, ins) ==
    /\ p # "idle" /\ o = "update" => u \in Updates
    /\ p \in {"download", "versions", "backup"} => j = NoJournal /\ u \in Updates
    /\ p \in {"create", "publish", "publish_sync", "unnext"} => Writing(l, b, j, m, p, u, ins)
    /\ p \in Activates => j = m /\ m.phase = "Activating" /\ u \in Updates
    /\ p = "rename_version" => l.data = u
    /\ p = "rename_sync" => Written(l, u)
    /\ p \in Completes => j = m /\ m.phase = "FilesActivated"
    /\ p = "bump" => u \in Updates /\ Written(l, u) /\ Backed(m, b, ins)
    /\ p \in Restores => j = m /\ m.phase = "RollingBack"
    /\ p \in {"restore_version", "copy_version"} => l.data = b.data
    /\ p = "restore_sync" => l.data = b.data /\ l.version = b.version
    /\ p = "remove_journal" => j # NoJournal /\ Intact(l, ins)
    /\ p = "remove_next" => j = NoJournal

KindInv(l, b, j, m, p, o, u, ins) ==
    /\ l \in Pairs /\ b \in Pairs /\ j \in Journals /\ m \in Journals
    /\ p \in Labels /\ o \in Origins
    /\ u \in Updates \union {0} /\ ins \in Updates \union {0}
    /\ ins <= u
    /\ OnDisk(l, b, j, ins)
    /\ AtLabel(l, b, j, m, p, o, u, ins)

Kind(k) == KindInv(live[k], backup[k], journal[k], memory[k], pc[k], origin[k], update[k], installed[k])

\* What the kinds share.
Shared ==
    /\ next \subseteq Kinds
    /\ geodata \in Nat
    /\ server \in {"up", "down", "starting"}
    /\ unrecovered \subseteq Kinds
    /\ required \in [Kinds -> Updates \union {0}]
    /\ faults \in 0 .. MaxFaults
    /\ crashes \in 0 .. MaxCrashes

\* The generations the runtime is built from hold no half-copied file.
Loaded ==
    /\ runtime \in [running : BOOLEAN, seen : Nat, loaded : [Kinds -> Contents \ {Torn}]]
    /\ reload \in [stage : {"none", "planned", "loaded"}, seen : Nat, loaded : [Kinds -> Contents \ {Torn}]]

Functions ==
    /\ live \in [Kinds -> Pairs]
    /\ backup \in [Kinds -> Pairs]
    /\ journal \in [Kinds -> Journals]
    /\ memory \in [Kinds -> Journals]
    /\ pc \in [Kinds -> Labels]
    /\ origin \in [Kinds -> Origins]
    /\ update \in [Kinds -> Updates \union {0}]
    /\ installed \in [Kinds -> Updates \union {0}]

IInv == Functions /\ Shared /\ Loaded /\ \A k \in Kinds : Kind(k)

\* The thread of kind k moves, and leaves its kind with these values.
Becomes(k, l, b, j, m, p, o, u, ins) ==
    /\ live' = [live EXCEPT ![k] = l]
    /\ backup' = [backup EXCEPT ![k] = b]
    /\ journal' = [journal EXCEPT ![k] = j]
    /\ memory' = [memory EXCEPT ![k] = m]
    /\ pc' = [pc EXCEPT ![k] = p]
    /\ origin' = [origin EXCEPT ![k] = o]
    /\ update' = [update EXCEPT ![k] = u]
    /\ installed' = [installed EXCEPT ![k] = ins]

-----------------------------------------------------------------------------
(* Types. *)

\* A journal of another phase is the journal otherwise.
LEMMA PhaseUpdate ==
    ASSUME NEW j \in Journals, NEW phase \in Phases
    PROVE  /\ [j EXCEPT !.phase = phase] \in Journals
           /\ [j EXCEPT !.phase = phase].phase = phase
           /\ [j EXCEPT !.phase = phase].data = j.data
           /\ [j EXCEPT !.phase = phase].version = j.version
BY DEF Journals

\* At first there are no files, no journals, and nothing is loaded.
LEMMA Initially == Init => IInv
<1> SUFFICES ASSUME Init PROVE IInv OBVIOUS
<1> USE BoundsAssumption DEF Init
<1>1. NoPair \in Pairs /\ NoPair.data = 0 /\ NoPair.version = 0 /\ Torn # 0
  BY DEF NoPair, Pairs, Contents, Absent, Torn
<1>2. NoJournal \in Journals /\ NoJournal.phase = "none"
  BY DEF NoJournal, Journals, NotRead, Befores
<1>3. Functions
  BY <1>1, <1>2 DEF Functions, Labels, Origins
<1>4. Shared
  BY DEF Shared
<1>5. Loaded
  BY DEF Loaded, NotRunning, NoReload, Contents, Absent, Torn, Updates
<1>6. ASSUME NEW k \in Kinds PROVE Kind(k)
  BY <1>1, <1>2 DEF Kind, KindInv, OnDisk, AtLabel, Intact, Labels, Origins, Phases, Activates, Completes, Restores
<1> QED BY <1>3, <1>4, <1>5, <1>6 DEF IInv

-----------------------------------------------------------------------------
(* One kind, as values: what each step of its thread makes of them.  l, b, j, m, *)
(* p, o, u and i stand for its live pair, backup, journal file, journal in       *)
(* memory, label, origin, update and last update installed.                      *)

\* A thread may end anywhere, and the process may die anywhere: the files on disk need
\* nothing of the thread.
LEMMA GivesUp ==
    ASSUME NEW l, NEW b, NEW j, NEW m, NEW p, NEW o, NEW u, NEW i, NEW n \in Journals,
           KindInv(l, b, j, m, p, o, u, i)
    PROVE  KindInv(l, b, j, n, "idle", o, u, i)
BY DEF KindInv, AtLabel, Labels, Activates, Completes, Restores

\* An update or the recovery of a start begins.
LEMMA Begins ==
    ASSUME NEW l, NEW b, NEW j, NEW m, NEW o, NEW u, NEW i, KindInv(l, b, j, m, "idle", o, u, i)
    PROVE  /\ u + 1 \in Updates => KindInv(l, b, j, m, "recover", "update", u + 1, i)
           /\ KindInv(l, b, j, m, "recover", "start", u, i)
BY BoundsAssumption DEF KindInv, AtLabel, Labels, Activates, Completes, Restores, Updates, Origins

\* No pair at all is intact, and what is absent is not torn.
LEMMA NoPairIntact == NoPair \in Pairs /\ NoPair.data = 0 /\ NoPair.version = 0 /\ Torn # 0
BY BoundsAssumption DEF NoPair, Pairs, Contents, Absent, Torn

\* No journal is in none of the phases.
LEMMA NoJournalType == NoJournal \in Journals /\ NoJournal.phase = "none"
BY DEF NoJournal, Journals, NotRead, Befores

\* Without a journal the leftovers go.
LEMMA Cleans ==
    ASSUME NEW l, NEW b, NEW j, NEW m, NEW p \in {"recover", "remove_next"}, NEW o, NEW u, NEW i,
           KindInv(l, b, j, m, p, o, u, i), j = NoJournal
    PROVE  KindInv(l, NoPair, j, m, IF o = "update" THEN "download" ELSE "idle", o, u, i)
BY NoPairIntact, NoJournalType
DEF KindInv, OnDisk, AtLabel, Labels, Activates, Completes, Restores

\* Recovery takes the journal from the file.
LEMMA Recovers ==
    ASSUME NEW l, NEW b, NEW j, NEW m, NEW o, NEW u, NEW i,
           KindInv(l, b, j, m, "recover", o, u, i), j # NoJournal
    PROVE  /\ j.phase \in Phases
           /\ j.phase = "Activating" =>
                KindInv(l, b, j, [j EXCEPT !.phase = "RollingBack"], "create", o, u, i)
           /\ j.phase = "RollingBack" => KindInv(l, b, j, j, "restore_data", o, u, i)
           /\ j.phase = "FilesActivated" => KindInv(l, b, j, j, "finalize", o, u, i)
<1> DEFINE r == [j EXCEPT !.phase = "RollingBack"]
<1>1. r \in Journals /\ r.phase = "RollingBack" /\ r.data = j.data /\ r.version = j.version
  BY PhaseUpdate DEF KindInv, Phases
<1> HIDE DEF r
<1>2. j.phase \in Phases
  BY DEF KindInv, OnDisk
<1>3. ASSUME j.phase = "Activating" PROVE KindInv(l, b, j, r, "create", o, u, i)
  <2>1. Backed(r, b, i)
    BY <1>1, <1>3 DEF KindInv, OnDisk, Backed
  <2>2. Writing(l, b, j, r, "create", u, i)
    BY <1>1, <2>1 DEF Writing, Phases
  <2> QED BY <1>1, <2>2 DEF KindInv, AtLabel, Labels, Activates, Completes, Restores
<1>4. ASSUME j.phase = "RollingBack" PROVE KindInv(l, b, j, j, "restore_data", o, u, i)
  BY <1>4 DEF KindInv, AtLabel, Labels, Activates, Completes, Restores
<1>5. ASSUME j.phase = "FilesActivated" PROVE KindInv(l, b, j, j, "finalize", o, u, i)
  BY <1>5 DEF KindInv, AtLabel, Labels, Activates, Completes, Restores
<1> QED BY <1>2, <1>3, <1>4, <1>5 DEF r

\* Before the backup there is no journal.
LEMMA Prepares ==
    ASSUME NEW l, NEW b, NEW j, NEW m, NEW o, NEW u, NEW i
    PROVE  /\ KindInv(l, b, j, m, "download", o, u, i) => KindInv(l, b, j, m, "versions", o, u, i)
           /\ \A n \in Journals :
                KindInv(l, b, j, m, "versions", o, u, i) => KindInv(l, b, j, n, "backup", o, u, i)
BY DEF KindInv, AtLabel, Labels, Activates, Completes, Restores

\* The backups are the live pair, which no journal guards yet.
LEMMA BacksUp ==
    ASSUME NEW l, NEW b, NEW j, NEW m, NEW o, NEW u, NEW i, NEW n \in Journals,
           KindInv(l, b, j, m, "backup", o, u, i),
           n.phase = "Activating", n.data = (l.data # Absent), n.version = (l.version # Absent)
    PROVE  KindInv(l, l, j, n, "create", o, u, i)
BY NoJournalType
DEF KindInv, OnDisk, AtLabel, Writing, Backed, Intact, Labels, Phases, Activates, Completes, Restores

\* write_json_journal, up to the rename and after it.
LEMMA Writes ==
    ASSUME NEW l, NEW b, NEW j, NEW m, NEW o, NEW u, NEW i
    PROVE  /\ KindInv(l, b, j, m, "create", o, u, i) => KindInv(l, b, j, m, "publish", o, u, i)
           /\ \A p \in {"create", "publish", "publish_sync"} :
                KindInv(l, b, j, m, p, o, u, i) => KindInv(l, b, j, m, "unnext", o, u, i)
BY DEF KindInv, AtLabel, Writing, Labels, Activates, Completes, Restores

\* The rename of the journal: from now on it speaks for the files.
LEMMA Publishes ==
    ASSUME NEW l, NEW b, NEW j, NEW m, NEW o, NEW u, NEW i, KindInv(l, b, j, m, "publish", o, u, i)
    PROVE  KindInv(l, b, m, m, "publish_sync", o, u, i)
<1>1. Writing(l, b, j, m, "publish", u, i)
  BY DEF KindInv, AtLabel
<1>2. Writing(l, b, m, m, "publish_sync", u, i)
  BY <1>1, NoJournalType DEF Writing, Phases
<1>3. OnDisk(l, b, m, i)
  <2>1. m.phase = "FilesActivated" => Intact(l, i)
    BY <1>1, BoundsAssumption DEF KindInv, Writing, Written, Intact, Updates, Torn
  <2> QED BY <1>1, <2>1, NoJournalType DEF OnDisk, Writing, Phases
<1> QED BY <1>2, <1>3 DEF KindInv, AtLabel, Labels, Activates, Completes, Restores

\* Where an update goes once a phase of its journal is on disk.
LEMMA Published ==
    ASSUME NEW l, NEW b, NEW j, NEW m, NEW o, NEW u, NEW i, KindInv(l, b, j, m, "publish_sync", o, u, i)
    PROVE  KindInv(l, b, j, m, AfterPublish(m.phase), o, u, i)
<1>1. Writing(l, b, j, m, "publish_sync", u, i)
  BY DEF KindInv, AtLabel
<1>2. CASE m.phase = "Activating"
  <2>1. AfterPublish(m.phase) = "rename_data"
    BY <1>2 DEF AfterPublish
  <2> QED BY <1>1, <1>2, <2>1 DEF KindInv, AtLabel, Writing, Labels, Activates, Completes, Restores
<1>3. CASE m.phase = "FilesActivated"
  <2>1. AfterPublish(m.phase) = "bump"
    BY <1>3 DEF AfterPublish
  <2> QED BY <1>1, <1>3, <2>1 DEF KindInv, AtLabel, Writing, Labels, Activates, Completes, Restores
<1>4. CASE m.phase = "RollingBack"
  <2>1. AfterPublish(m.phase) = "restore_data"
    BY <1>4 DEF AfterPublish
  <2> QED BY <1>1, <1>4, <2>1 DEF KindInv, AtLabel, Writing, Labels, Activates, Completes, Restores
<1> QED BY <1>1, <1>2, <1>3, <1>4 DEF Writing, Phases

\* A failure of the activation, of its last journal or of the bump is rolled back.
LEMMA RollsBack ==
    ASSUME NEW l, NEW b, NEW j, NEW m, NEW p, NEW o, NEW u, NEW i, KindInv(l, b, j, m, p, o, u, i),
           p \in Activates \union {"bump"} \/ (p = "unnext" /\ m.phase = "FilesActivated")
    PROVE  KindInv(l, b, j, [m EXCEPT !.phase = "RollingBack"], "create", "undo", u, i)
<1> DEFINE r == [m EXCEPT !.phase = "RollingBack"]
<1>1. r \in Journals /\ r.phase = "RollingBack" /\ r.data = m.data /\ r.version = m.version
  BY PhaseUpdate DEF KindInv, Phases
<1> HIDE DEF r
<1>2. Backed(m, b, i) /\ j # NoJournal
  <2>1. CASE p \in Activates
    BY <2>1, NoJournalType DEF KindInv, AtLabel, OnDisk
  <2>2. CASE p = "bump"
    BY <2>2, NoJournalType DEF KindInv, AtLabel, Completes
  <2>3. CASE p = "unnext" /\ m.phase = "FilesActivated"
    BY <2>3, NoJournalType DEF KindInv, AtLabel, Writing
  <2> QED BY <2>1, <2>2, <2>3
<1>3. Writing(l, b, j, r, "create", u, i)
  BY <1>1, <1>2 DEF Writing, Phases, Backed
<1>4. KindInv(l, b, j, r, "create", "undo", u, i)
  BY <1>1, <1>3 DEF KindInv, AtLabel, Labels, Origins, Activates, Completes, Restores
<1> QED BY <1>4 DEF r

\* The files are renamed one after the other.
LEMMA Renames ==
    ASSUME NEW l, NEW b, NEW j, NEW m, NEW o, NEW u, NEW i
    PROVE  /\ KindInv(l, b, j, m, "rename_data", o, u, i) =>
                KindInv([l EXCEPT !.data = u], b, j, m, "rename_version", o, u, i)
           /\ KindInv(l, b, j, m, "rename_version", o, u, i) =>
                KindInv([l EXCEPT !.version = u], b, j, m, "rename_sync", o, u, i)
<1> USE DEF KindInv, OnDisk, AtLabel, Written, Labels, Activates, Completes, Restores
<1>1. ASSUME KindInv(l, b, j, m, "rename_data", o, u, i)
      PROVE  KindInv([l EXCEPT !.data = u], b, j, m, "rename_version", o, u, i)
  BY <1>1, NoJournalType DEF Pairs, Contents
<1>2. ASSUME KindInv(l, b, j, m, "rename_version", o, u, i)
      PROVE  KindInv([l EXCEPT !.version = u], b, j, m, "rename_sync", o, u, i)
  BY <1>2, NoJournalType DEF Pairs, Contents
<1> QED BY <1>1, <1>2

\* Both in place, the journal says so.
LEMMA Activated ==
    ASSUME NEW l, NEW b, NEW j, NEW m, NEW o, NEW u, NEW i, KindInv(l, b, j, m, "rename_sync", o, u, i)
    PROVE  KindInv(l, b, j, [m EXCEPT !.phase = "FilesActivated"], "create", o, u, i)
<1> DEFINE r == [m EXCEPT !.phase = "FilesActivated"]
<1>1. r \in Journals /\ r.phase = "FilesActivated" /\ r.data = m.data /\ r.version = m.version
  BY PhaseUpdate DEF KindInv, Phases
<1> HIDE DEF r
<1>2. /\ Backed(m, b, i) /\ j.phase = "Activating"
      /\ Written(l, u) /\ u \in Updates
  BY DEF KindInv, AtLabel, OnDisk, Activates
<1>3. Writing(l, b, j, r, "create", u, i)
  BY <1>1, <1>2 DEF Writing, Phases, Backed
<1>4. KindInv(l, b, j, r, "create", o, u, i)
  BY <1>1, <1>3 DEF KindInv, AtLabel, Labels, Activates, Completes, Restores
<1> QED BY <1>4 DEF r

\* The update is installed, and its journal goes.
LEMMA Commits ==
    ASSUME NEW l, NEW b, NEW j, NEW m, NEW o, NEW u, NEW i
    PROVE  /\ KindInv(l, b, j, m, "bump", o, u, i) => KindInv(l, b, j, m, "finalize", "commit", u, u)
           /\ KindInv(l, b, j, m, "finalize", o, u, i) => KindInv(l, b, j, m, "remove_journal", o, u, i)
<1> USE DEF KindInv, OnDisk, AtLabel, Labels, Activates, Completes, Restores
<1>1. ASSUME KindInv(l, b, j, m, "bump", o, u, i)
      PROVE  KindInv(l, b, j, m, "finalize", "commit", u, u)
  BY <1>1, NoJournalType, BoundsAssumption DEF Origins, Written, Intact, Updates, Torn
<1>2. ASSUME KindInv(l, b, j, m, "finalize", o, u, i)
      PROVE  KindInv(l, b, j, m, "remove_journal", o, u, i)
  BY <1>2, NoJournalType
<1> QED BY <1>1, <1>2

\* A file is truncated, copied, or removed if there was none.
LEMMA RestoresData ==
    ASSUME NEW l, NEW b, NEW j, NEW m, NEW o, NEW u, NEW i
    PROVE  /\ KindInv(l, b, j, m, "restore_data", o, u, i) =>
                /\ KindInv([l EXCEPT !.data = Torn], b, j, m, "copy_data", o, u, i)
                /\ ~m.data => KindInv([l EXCEPT !.data = Absent], b, j, m, "restore_version", o, u, i)
           /\ KindInv(l, b, j, m, "copy_data", o, u, i) =>
                KindInv([l EXCEPT !.data = b.data], b, j, m, "restore_version", o, u, i)
<1> USE NoJournalType DEF KindInv, OnDisk, AtLabel, Labels, Activates, Completes, Restores, Pairs, Contents
<1>1. ASSUME KindInv(l, b, j, m, "restore_data", o, u, i)
      PROVE  KindInv([l EXCEPT !.data = Torn], b, j, m, "copy_data", o, u, i)
  BY <1>1
<1>2. ASSUME KindInv(l, b, j, m, "restore_data", o, u, i), ~m.data
      PROVE  KindInv([l EXCEPT !.data = Absent], b, j, m, "restore_version", o, u, i)
  BY <1>2 DEF Backed
<1>3. ASSUME KindInv(l, b, j, m, "copy_data", o, u, i)
      PROVE  KindInv([l EXCEPT !.data = b.data], b, j, m, "restore_version", o, u, i)
  BY <1>3
<1> QED BY <1>1, <1>2, <1>3

\* The version file of the backup comes back, through a torn one.
LEMMA RestoresVersion ==
    ASSUME NEW l, NEW b, NEW j, NEW m, NEW o, NEW u, NEW i
    PROVE  /\ KindInv(l, b, j, m, "restore_version", o, u, i) =>
                /\ KindInv([l EXCEPT !.version = Torn], b, j, m, "copy_version", o, u, i)
                /\ ~m.version => KindInv([l EXCEPT !.version = Absent], b, j, m, "restore_sync", o, u, i)
           /\ KindInv(l, b, j, m, "copy_version", o, u, i) =>
                KindInv([l EXCEPT !.version = b.version], b, j, m, "restore_sync", o, u, i)
<1> USE NoJournalType DEF KindInv, OnDisk, AtLabel, Labels, Activates, Completes, Restores, Pairs, Contents
<1>1. ASSUME KindInv(l, b, j, m, "restore_version", o, u, i)
      PROVE  KindInv([l EXCEPT !.version = Torn], b, j, m, "copy_version", o, u, i)
  BY <1>1
<1>2. ASSUME KindInv(l, b, j, m, "restore_version", o, u, i), ~m.version
      PROVE  KindInv([l EXCEPT !.version = Absent], b, j, m, "restore_sync", o, u, i)
  BY <1>2 DEF Backed, Intact
<1>3. ASSUME KindInv(l, b, j, m, "copy_version", o, u, i)
      PROVE  KindInv([l EXCEPT !.version = b.version], b, j, m, "restore_sync", o, u, i)
  BY <1>3
<1> QED BY <1>1, <1>2, <1>3

\* Restored, the files need the journal no more.
LEMMA Ends ==
    ASSUME NEW l, NEW b, NEW j, NEW m, NEW o, NEW u, NEW i
    PROVE  /\ KindInv(l, b, j, m, "restore_sync", o, u, i) => KindInv(l, b, j, m, "remove_journal", o, u, i)
           /\ KindInv(l, b, j, m, "remove_journal", o, u, i) =>
                KindInv(l, b, NoJournal, m, "remove_next", o, u, i)
BY NoJournalType
DEF KindInv, OnDisk, AtLabel, Backed, Intact, Labels, Phases, Activates, Completes, Restores

-----------------------------------------------------------------------------
(* The kinds together. *)

KindsInv == Functions /\ \A k \in Kinds : Kind(k)

\* The step of one thread leaves the other kinds alone.
LEMMA OneKind ==
    ASSUME KindsInv, NEW k \in Kinds,
           NEW l, NEW b, NEW j, NEW m, NEW p, NEW o, NEW u, NEW i,
           Becomes(k, l, b, j, m, p, o, u, i), KindInv(l, b, j, m, p, o, u, i)
    PROVE  KindsInv'
<1>1. Functions'
  BY DEF KindsInv, Functions, Becomes, KindInv
<1>2. ASSUME NEW c \in Kinds PROVE Kind(c)'
  BY DEF KindsInv, Functions, Becomes, Kind
<1> QED BY <1>1, <1>2 DEF KindsInv

\* What a step that only ends the thread does.
LEMMA Stops ==
    ASSUME KindsInv, NEW k \in Kinds, UNCHANGED <<live, backup, journal, memory, origin, update, installed>>,
           GoTo(k, "idle")
    PROVE  KindsInv'
<1>1. Becomes(k, live[k], backup[k], journal[k], memory[k], "idle", origin[k], update[k], installed[k])
  BY DEF KindsInv, Functions, Becomes, GoTo
<1> QED BY <1>1, OneKind, GivesUp DEF KindsInv, Kind, Functions

\* The steps of a thread keep the invariant of the kinds.
LEMMA ThreadKeeps == ASSUME KindsInv, geodata \in Nat, NEW k \in Kinds, ThreadStep(k) PROVE KindsInv'
<1> DEFINE K(l, b, j, m, p, o) == Becomes(k, l, b, j, m, p, o, update[k], installed[k])
           L == live[k]
           B == backup[k]
           J == journal[k]
           M == memory[k]
           O == origin[k]
<1>0. /\ live = [live EXCEPT ![k] = live[k]] /\ backup = [backup EXCEPT ![k] = backup[k]]
      /\ journal = [journal EXCEPT ![k] = journal[k]] /\ memory = [memory EXCEPT ![k] = memory[k]]
      /\ origin = [origin EXCEPT ![k] = origin[k]] /\ update = [update EXCEPT ![k] = update[k]]
      /\ installed = [installed EXCEPT ![k] = installed[k]]
  BY DEF KindsInv, Functions
<1> DEFINE At(p) == KindInv(live[k], backup[k], journal[k], memory[k], p, origin[k], update[k], installed[k])
<1>k. At(pc[k])
  BY DEF KindsInv, Kind
<1> USE DEF GoTo, Done, Fail, disk, history
<1>1. CASE RecoverNothing(k)
  <2>0. At("recover")
    BY <1>k, <1>1 DEF RecoverNothing
  <2>1. CASE Fail(k) /\ UNCHANGED backup
    BY <1>1, <2>1, Stops DEF RecoverNothing
  <2>2. CASE backup' = [backup EXCEPT ![k] = NoPair] /\ Done(k)
    <3>1. K(L, NoPair, J, M, IF O = "update" THEN "download" ELSE "idle", O)
      BY <1>0, <1>1, <2>2 DEF RecoverNothing, Becomes
    <3>2. KindInv(L, NoPair, J, M, IF O = "update" THEN "download" ELSE "idle", O, update[k], installed[k])
      BY <1>1, <2>0, Cleans DEF RecoverNothing
    <3> QED BY <3>1, <3>2, OneKind
  <2> QED BY <1>1, <2>1, <2>2 DEF RecoverNothing
<1>2. CASE RecoverJournal(k)
  <2>0. At("recover")
    BY <1>k, <1>2 DEF RecoverJournal
  <2>1. J.phase \in Phases
    BY <1>2, <2>0, Recovers DEF RecoverJournal
  <2>2. CASE J.phase = "Activating"
    <3>1. K(L, B, J, [J EXCEPT !.phase = "RollingBack"], "create", O)
      BY <1>0, <1>2, <2>2 DEF RecoverJournal, Becomes
    <3>2. KindInv(L, B, J, [J EXCEPT !.phase = "RollingBack"], "create", O, update[k], installed[k])
      BY <1>2, <2>0, <2>2, Recovers DEF RecoverJournal
    <3> QED BY <3>1, <3>2, OneKind
  <2>3. CASE J.phase = "RollingBack"
    <3>1. K(L, B, J, J, "restore_data", O)
      BY <1>0, <1>2, <2>3 DEF RecoverJournal, Becomes
    <3>2. KindInv(L, B, J, J, "restore_data", O, update[k], installed[k])
      BY <1>2, <2>0, <2>3, Recovers DEF RecoverJournal
    <3> QED BY <3>1, <3>2, OneKind
  <2>4. CASE J.phase = "FilesActivated"
    <3>1. K(L, B, J, J, "finalize", O)
      BY <1>0, <1>2, <2>4 DEF RecoverJournal, Becomes
    <3>2. KindInv(L, B, J, J, "finalize", O, update[k], installed[k])
      BY <1>2, <2>0, <2>4, Recovers DEF RecoverJournal
    <3> QED BY <3>1, <3>2, OneKind
  <2> QED BY <2>1, <2>2, <2>3, <2>4 DEF Phases
<1>3. CASE Download(k)
  <2>0. At("download")
    BY <1>k, <1>3 DEF Download
  <2>1. CASE GoTo(k, "idle")
    BY <1>3, <2>1, Stops DEF Download
  <2>2. CASE GoTo(k, "versions")
    <3>1. K(L, B, J, M, "versions", O)
      BY <1>0, <1>3, <2>2 DEF Download, Becomes
    <3> QED BY <2>0, <3>1, OneKind, Prepares
  <2> QED BY <1>3, <2>1, <2>2 DEF Download
<1>4. CASE ReadVersions(k)
  <2>0. At("versions")
    BY <1>k, <1>4 DEF ReadVersions
  <2>1. CASE GoTo(k, "idle") /\ UNCHANGED memory
    BY <1>4, <2>1, Stops DEF ReadVersions
  <2>2. CASE ~(GoTo(k, "idle") /\ UNCHANGED memory)
    <3> DEFINE n == memory'[k]
    <3>1. K(L, B, J, n, "backup", O)
      BY <1>0, <1>4, <2>2 DEF ReadVersions, Becomes
    <3>2. n \in Journals
      <4> DEFINE v == IF runtime.running THEN [read |-> TRUE, version |-> geodata] ELSE NotRead
      <4>1. v \in Befores
        BY DEF NotRead, Befores
      <4>2. n = [NoJournal EXCEPT !.before = v]
        BY <1>4, <2>2 DEF ReadVersions, KindsInv, Functions
      <4> HIDE DEF v, n
      <4> QED BY <4>1, <4>2, NoJournalType DEF Journals
    <3> QED BY <2>0, <3>1, <3>2, OneKind, Prepares
  <2> QED BY <2>1, <2>2
<1>5. CASE BackUpLiveFiles(k)
  <2>0. At("backup")
    BY <1>k, <1>5 DEF BackUpLiveFiles
  <2>1. CASE GoTo(k, "idle") /\ UNCHANGED <<backup, memory>>
    BY <1>5, <2>1, Stops DEF BackUpLiveFiles
  <2>2. CASE ~(GoTo(k, "idle") /\ UNCHANGED <<backup, memory>>)
    <3> DEFINE n == [phase |-> "Activating", data |-> L.data # Absent,
                     version |-> L.version # Absent, before |-> M.before]
    <3>1. K(L, L, J, n, "create", O)
      BY <1>0, <1>5, <2>2 DEF BackUpLiveFiles, Becomes
    <3>2. n \in Journals
      <4>1. M \in Journals
        BY <2>0 DEF KindInv
      <4> QED BY <4>1 DEF Journals, Phases
    <3>3. KindInv(L, L, J, n, "create", O, update[k], installed[k])
      BY <1>5, <2>0, <3>2, BacksUp DEF BackUpLiveFiles
    <3> QED BY <3>1, <3>3, OneKind
  <2> QED BY <2>1, <2>2
<1>6. CASE CreateNext(k)
  <2>0. At("create")
    BY <1>k, <1>6 DEF CreateNext
  <2>1. K(L, B, J, M, "publish", O) \/ K(L, B, J, M, "unnext", O)
    BY <1>0, <1>6 DEF CreateNext, Becomes
  <2> QED BY <2>0, <2>1, OneKind, Writes
<1>7. CASE PublishJournal(k)
  <2>0. At("publish")
    BY <1>k, <1>7 DEF PublishJournal
  <2>1. K(L, B, M, M, "publish_sync", O) \/ K(L, B, J, M, "unnext", O)
    BY <1>0, <1>7 DEF PublishJournal, Becomes
  <2> QED BY <2>0, <2>1, OneKind, Writes, Publishes
<1>8. CASE SyncPublished(k)
  <2>0. At("publish_sync")
    BY <1>k, <1>8 DEF SyncPublished
  <2>1. K(L, B, J, M, AfterPublish(M.phase), O) \/ K(L, B, J, M, "unnext", O)
    BY <1>0, <1>8 DEF SyncPublished, Becomes
  <2> QED BY <2>0, <2>1, OneKind, Writes, Published
<1>9. CASE WriteJournalFails(k)
  <2>0. At("unnext")
    BY <1>k, <1>9 DEF WriteJournalFails
  <2>1. CASE M.phase = "FilesActivated"
    <3>1. K(L, B, J, [M EXCEPT !.phase = "RollingBack"], "create", "undo")
      BY <1>0, <1>9, <2>1 DEF WriteJournalFails, RollBack, WriteJournal, Becomes
    <3> QED BY <2>0, <2>1, <3>1, OneKind, RollsBack
  <2>2. CASE M.phase # "FilesActivated"
    BY <1>9, <2>2, Stops DEF WriteJournalFails
  <2> QED BY <2>1, <2>2
<1>10. CASE RenameData(k)
  <2>0. At("rename_data")
    BY <1>k, <1>10 DEF RenameData, ActivationStep
  <2>1. \/ K([L EXCEPT !.data = update[k]], B, J, M, "rename_version", O)
        \/ K(L, B, J, [M EXCEPT !.phase = "RollingBack"], "create", "undo")
    BY <1>0, <1>10 DEF RenameData, ActivationStep, Renamed, RollBack, WriteJournal, Becomes
  <2>2. KindInv([L EXCEPT !.data = update[k]], B, J, M, "rename_version", O, update[k], installed[k])
    BY <2>0, Renames
  <2>3. KindInv(L, B, J, [M EXCEPT !.phase = "RollingBack"], "create", "undo", update[k], installed[k])
    BY <2>0, RollsBack DEF Activates
  <2> QED BY <2>1, <2>2, <2>3, OneKind
<1>11. CASE RenameVersion(k)
  <2>0. At("rename_version")
    BY <1>k, <1>11 DEF RenameVersion, ActivationStep
  <2>1. \/ K([L EXCEPT !.version = update[k]], B, J, M, "rename_sync", O)
        \/ K(L, B, J, [M EXCEPT !.phase = "RollingBack"], "create", "undo")
    BY <1>0, <1>11 DEF RenameVersion, ActivationStep, Renamed, RollBack, WriteJournal, Becomes
  <2>2. KindInv([L EXCEPT !.version = update[k]], B, J, M, "rename_sync", O, update[k], installed[k])
    BY <2>0, Renames
  <2>3. KindInv(L, B, J, [M EXCEPT !.phase = "RollingBack"], "create", "undo", update[k], installed[k])
    BY <2>0, RollsBack DEF Activates
  <2> QED BY <2>1, <2>2, <2>3, OneKind
<1>12. CASE SyncActivated(k)
  <2>0. At("rename_sync")
    BY <1>k, <1>12 DEF SyncActivated
  <2>1. \/ K(L, B, J, [M EXCEPT !.phase = "FilesActivated"], "create", O)
        \/ K(L, B, J, [M EXCEPT !.phase = "RollingBack"], "create", "undo")
    BY <1>0, <1>12 DEF SyncActivated, RollBack, WriteJournal, Becomes
  <2> QED BY <2>0, <2>1, OneKind, Activated, RollsBack DEF Activates
<1>13. CASE Bump(k)
  <2>0. At("bump")
    BY <1>k, <1>13 DEF Bump
  <2>1. \/ Becomes(k, L, B, J, M, "finalize", "commit", update[k], update[k])
        \/ K(L, B, J, [M EXCEPT !.phase = "RollingBack"], "create", "undo")
    BY <1>0, <1>13 DEF Bump, RollBack, WriteJournal, Becomes
  <2> QED BY <2>0, <2>1, OneKind, Commits, RollsBack
<1>14. CASE Finalize(k)
  <2>0. At("finalize")
    BY <1>k, <1>14 DEF Finalize
  <2>1. CASE Fail(k)
    BY <1>14, <2>1, Stops DEF Finalize
  <2>2. CASE GoTo(k, "remove_journal")
    <3>1. K(L, B, J, M, "remove_journal", O)
      BY <1>0, <1>14, <2>2 DEF Finalize, Becomes
    <3> QED BY <2>0, <3>1, OneKind, Commits
  <2> QED BY <1>14, <2>1, <2>2 DEF Finalize
<1>15. CASE RestoreData(k)
  <2>0. At("restore_data")
    BY <1>k, <1>15 DEF RestoreData, Truncate
  <2>1. CASE Fail(k) /\ UNCHANGED live
    BY <1>15, <2>1, Stops DEF RestoreData, Truncate
  <2>2. CASE ~(Fail(k) /\ UNCHANGED live)
    <3>1. \/ K([L EXCEPT !.data = Torn], B, J, M, "copy_data", O)
          \/ K([L EXCEPT !.data = Absent], B, J, M, "restore_version", O) /\ ~M.data
      BY <1>0, <1>15, <2>2 DEF RestoreData, Truncate, Becomes
    <3>2. KindInv([L EXCEPT !.data = Torn], B, J, M, "copy_data", O, update[k], installed[k])
      BY <2>0, RestoresData
    <3>3. ~M.data => KindInv([L EXCEPT !.data = Absent], B, J, M, "restore_version", O, update[k], installed[k])
      BY <2>0, RestoresData
    <3> QED BY <3>1, <3>2, <3>3, OneKind
  <2> QED BY <2>1, <2>2
<1>16. CASE CopyData(k)
  <2>0. At("copy_data")
    BY <1>k, <1>16 DEF CopyData, Copy
  <2>1. CASE Fail(k) /\ UNCHANGED live
    BY <1>16, <2>1, Stops DEF CopyData, Copy
  <2>2. CASE ~(Fail(k) /\ UNCHANGED live)
    <3>1. K([L EXCEPT !.data = B.data], B, J, M, "restore_version", O)
      BY <1>0, <1>16, <2>2 DEF CopyData, Copy, Becomes
    <3>2. KindInv([L EXCEPT !.data = B.data], B, J, M, "restore_version", O, update[k], installed[k])
      BY <2>0, RestoresData
    <3> QED BY <3>1, <3>2, OneKind
  <2> QED BY <2>1, <2>2
<1>17. CASE RestoreVersion(k)
  <2>0. At("restore_version")
    BY <1>k, <1>17 DEF RestoreVersion, Truncate
  <2>1. CASE Fail(k) /\ UNCHANGED live
    BY <1>17, <2>1, Stops DEF RestoreVersion, Truncate
  <2>2. CASE ~(Fail(k) /\ UNCHANGED live)
    <3>1. \/ K([L EXCEPT !.version = Torn], B, J, M, "copy_version", O)
          \/ K([L EXCEPT !.version = Absent], B, J, M, "restore_sync", O) /\ ~M.version
      BY <1>0, <1>17, <2>2 DEF RestoreVersion, Truncate, Becomes
    <3>2. KindInv([L EXCEPT !.version = Torn], B, J, M, "copy_version", O, update[k], installed[k])
      BY <2>0, RestoresVersion
    <3>3. ~M.version => KindInv([L EXCEPT !.version = Absent], B, J, M, "restore_sync", O, update[k], installed[k])
      BY <2>0, RestoresVersion
    <3> QED BY <3>1, <3>2, <3>3, OneKind
  <2> QED BY <2>1, <2>2
<1>18. CASE CopyVersion(k)
  <2>0. At("copy_version")
    BY <1>k, <1>18 DEF CopyVersion, Copy
  <2>1. CASE Fail(k) /\ UNCHANGED live
    BY <1>18, <2>1, Stops DEF CopyVersion, Copy
  <2>2. CASE ~(Fail(k) /\ UNCHANGED live)
    <3>1. K([L EXCEPT !.version = B.version], B, J, M, "restore_sync", O)
      BY <1>0, <1>18, <2>2 DEF CopyVersion, Copy, Becomes
    <3>2. KindInv([L EXCEPT !.version = B.version], B, J, M, "restore_sync", O, update[k], installed[k])
      BY <2>0, RestoresVersion
    <3> QED BY <3>1, <3>2, OneKind
  <2> QED BY <2>1, <2>2
<1>19. CASE SyncRestored(k)
  <2>0. At("restore_sync")
    BY <1>k, <1>19 DEF SyncRestored
  <2>1. CASE Fail(k)
    BY <1>19, <2>1, Stops DEF SyncRestored
  <2>2. CASE GoTo(k, "remove_journal")
    <3>1. K(L, B, J, M, "remove_journal", O)
      BY <1>0, <1>19, <2>2 DEF SyncRestored, Becomes
    <3> QED BY <2>0, <3>1, OneKind, Ends
  <2> QED BY <1>19, <2>1, <2>2 DEF SyncRestored
<1>20. CASE RemoveJournal(k)
  <2>0. At("remove_journal")
    BY <1>k, <1>20 DEF RemoveJournal
  <2>1. CASE Fail(k) /\ UNCHANGED journal
    BY <1>20, <2>1, Stops DEF RemoveJournal
  <2>2. CASE ~(Fail(k) /\ UNCHANGED journal)
    <3>1. K(L, B, NoJournal, M, "remove_next", O) \/ K(L, B, NoJournal, M, "idle", O)
      BY <1>0, <1>20, <2>2 DEF RemoveJournal, Becomes
    <3>2. KindInv(L, B, NoJournal, M, "remove_next", O, update[k], installed[k])
      BY <1>20, <2>0, Ends DEF RemoveJournal
    <3>3. KindInv(L, B, NoJournal, M, "idle", O, update[k], installed[k])
      BY <3>2, GivesUp DEF KindInv
    <3> QED BY <3>1, <3>2, <3>3, OneKind
  <2> QED BY <2>1, <2>2
<1>21. CASE RemoveNext(k)
  <2>0. At("remove_next")
    BY <1>k, <1>21 DEF RemoveNext
  <2>3. J = NoJournal
    BY <2>0 DEF KindInv, AtLabel
  <2>1. CASE Fail(k) /\ UNCHANGED backup
    BY <1>21, <2>1, Stops DEF RemoveNext
  <2>2. CASE backup' = [backup EXCEPT ![k] = NoPair] /\ Done(k)
    <3>1. K(L, NoPair, J, M, IF O = "update" THEN "download" ELSE "idle", O)
      BY <1>0, <1>21, <2>2 DEF RemoveNext, Becomes
    <3>2. KindInv(L, NoPair, J, M, IF O = "update" THEN "download" ELSE "idle", O, update[k], installed[k])
      BY <2>0, <2>3, Cleans
    <3> QED BY <3>1, <3>2, OneKind
  <2> QED BY <1>21, <2>1, <2>2 DEF RemoveNext
<1> QED BY <1>1, <1>2, <1>3, <1>4, <1>5, <1>6, <1>7, <1>8, <1>9, <1>10, <1>11, <1>12, <1>13, <1>14,
           <1>15, <1>16, <1>17, <1>18, <1>19, <1>20, <1>21 DEF ThreadStep

\* So do all the others.
LEMMA KindsStep == ASSUME KindsInv, Shared, [Next]_vars PROVE KindsInv'
<1>1. ASSUME NEW k \in Kinds, BeginUpdate(k) PROVE KindsInv'
  <2>1. Becomes(k, live[k], backup[k], journal[k], memory[k], "recover", "update", update[k] + 1, installed[k])
    BY <1>1 DEF BeginUpdate, KindsInv, Functions, Becomes, GoTo, disk, history
  <2>2. KindInv(live[k], backup[k], journal[k], memory[k], "idle", origin[k], update[k], installed[k])
    BY <1>1 DEF BeginUpdate, KindsInv, Kind
  <2>3. KindInv(live[k], backup[k], journal[k], memory[k], "recover", "update", update[k] + 1, installed[k])
    BY <1>1, <2>2, Begins DEF BeginUpdate
  <2> QED BY <2>1, <2>3, OneKind
<1>2. ASSUME NEW k \in Kinds, RecoverAtStart(k) PROVE KindsInv'
  <2>1. Becomes(k, live[k], backup[k], journal[k], memory[k], "recover", "start", update[k], installed[k])
    BY <1>2 DEF RecoverAtStart, KindsInv, Functions, Becomes, GoTo, disk, history
  <2>2. KindInv(live[k], backup[k], journal[k], memory[k], "idle", origin[k], update[k], installed[k])
    BY <1>2 DEF RecoverAtStart, KindsInv, Kind
  <2>3. KindInv(live[k], backup[k], journal[k], memory[k], "recover", "start", update[k], installed[k])
    BY <2>2, Begins
  <2> QED BY <2>1, <2>3, OneKind
<1>3. ASSUME NEW k \in Kinds, ThreadStep(k) PROVE KindsInv'
  BY <1>3, ThreadKeeps DEF Shared
<1>4. CASE Crash
  <2>1. Functions'
    BY <1>4, NoJournalType DEF Crash, KindsInv, Functions, disk, history, Labels
  <2>2. ASSUME NEW k \in Kinds PROVE Kind(k)'
    <3>1. KindInv(live[k], backup[k], journal[k], NoJournal, "idle", origin[k], update[k], installed[k])
      BY GivesUp, NoJournalType DEF KindsInv, Kind
    <3> QED BY <1>4, <3>1 DEF Crash, Kind, disk, history
  <2> QED BY <2>1, <2>2 DEF KindsInv
<1>5. CASE UNCHANGED <<live, backup, journal, memory, pc, origin, update, installed>>
  BY <1>5 DEF KindsInv, Functions, Kind
<1>6. CASE PlanReload \/ LoadGeodata \/ FinishReload \/ Start \/ Started \/ UNCHANGED vars
  BY <1>5, <1>6 DEF PlanReload, LoadGeodata, FinishReload, Start, Started, vars, disk, threads, history
<1> QED BY <1>1, <1>2, <1>3, <1>4, <1>6 DEF Next

\* What the kinds share keeps its type.
LEMMA SharedStep == ASSUME KindsInv, Shared, [Next]_vars PROVE Shared'
<1> USE BoundsAssumption DEF Shared, Fault, NoFault, Done, Fail, disk, threads, serverVars, runtimeVars, history
<1>0. update \in [Kinds -> Updates \union {0}] /\ memory \in [Kinds -> Journals]
  BY DEF KindsInv, Functions
<1>1. ASSUME NEW k \in Kinds, BeginUpdate(k) \/ RecoverAtStart(k) PROVE Shared'
  BY <1>1 DEF BeginUpdate, RecoverAtStart
<1>2. ASSUME NEW k \in Kinds, ThreadStep(k) PROVE Shared'
  <2>1. CASE RecoverNothing(k) \/ RecoverJournal(k) \/ Download(k) \/ ReadVersions(k) \/ BackUpLiveFiles(k)
    BY <2>1 DEF RecoverNothing, RecoverJournal, Download, ReadVersions, BackUpLiveFiles
  <2>2. CASE CreateNext(k) \/ PublishJournal(k) \/ SyncPublished(k) \/ WriteJournalFails(k)
    BY <2>2 DEF CreateNext, PublishJournal, SyncPublished, WriteJournalFails
  <2>3. CASE RenameData(k) \/ RenameVersion(k) \/ SyncActivated(k)
    BY <2>3 DEF RenameData, RenameVersion, ActivationStep, SyncActivated
  <2>4. CASE Bump(k) \/ Finalize(k)
    BY <1>0, <2>4 DEF Bump, Finalize, Bumped
  <2>5. CASE RestoreData(k) \/ CopyData(k) \/ RestoreVersion(k) \/ CopyVersion(k) \/ SyncRestored(k)
    BY <2>5 DEF RestoreData, CopyData, RestoreVersion, CopyVersion, SyncRestored, Truncate, Copy
  <2>6. CASE RemoveJournal(k) \/ RemoveNext(k)
    BY <2>6 DEF RemoveJournal, RemoveNext
  <2> QED BY <1>2, <2>1, <2>2, <2>3, <2>4, <2>5, <2>6 DEF ThreadStep
<1>3. CASE PlanReload \/ LoadGeodata \/ FinishReload \/ Crash \/ Start \/ Started \/ UNCHANGED vars
  BY <1>3 DEF PlanReload, LoadGeodata, FinishReload, Crash, Start, Started, vars
<1> QED BY <1>1, <1>2, <1>3 DEF Next

\* A half-copied file has an intact backup, which a reload reads in its place.
LEMMA ReadableType == ASSUME KindsInv, NEW k \in Kinds PROVE Readable(k) \in Contents \ {Torn}
<1>1. KindInv(live[k], backup[k], journal[k], memory[k], pc[k], origin[k], update[k], installed[k])
  BY DEF KindsInv, Kind
<1>2. live[k].data \in Contents /\ backup[k].data \in Contents
  BY <1>1 DEF KindInv, Pairs
<1>3. live[k].data = Torn => backup[k].data # Torn
  BY <1>1 DEF KindInv, OnDisk, Backed, Intact, Phases
<1> QED BY <1>2, <1>3 DEF Readable

\* What a runtime has loaded was a pair on disk, and is never torn.
LEMMA LoadedStep == ASSUME KindsInv, Shared, Loaded, [Next]_vars PROVE Loaded'
<1>0. NotRunning \in [running : BOOLEAN, seen : Nat, loaded : [Kinds -> Contents \ {Torn}]]
  BY BoundsAssumption DEF NotRunning, Contents, Absent, Torn
<1>1. NoReload \in [stage : {"none", "planned", "loaded"}, seen : Nat, loaded : [Kinds -> Contents \ {Torn}]]
  BY BoundsAssumption DEF NoReload, Contents, Absent, Torn
<1>2. CASE UNCHANGED runtimeVars
  BY <1>2 DEF Loaded, runtimeVars
<1>3. ASSUME NEW k \in Kinds, BeginUpdate(k) \/ ThreadStep(k) \/ RecoverAtStart(k) PROVE UNCHANGED runtimeVars
  BY <1>3 DEF BeginUpdate, RecoverAtStart, ThreadStep, RecoverNothing, RecoverJournal, Download, ReadVersions,
     BackUpLiveFiles, CreateNext, PublishJournal, SyncPublished, WriteJournalFails, RenameData, RenameVersion,
     ActivationStep, SyncActivated, Bump, Finalize, RestoreData, CopyData, RestoreVersion, CopyVersion,
     SyncRestored, Truncate, Copy, RemoveJournal, RemoveNext
<1>4. CASE PlanReload
  BY <1>1, <1>4 DEF PlanReload, Loaded, Shared
<1>5. CASE LoadGeodata
  BY <1>5, ReadableType DEF LoadGeodata, Loaded
<1>6. CASE FinishReload
  <2>1. /\ reload.seen \in Nat /\ reload.loaded \in [Kinds -> Contents \ {Torn}]
        /\ runtime \in [running : BOOLEAN, seen : Nat, loaded : [Kinds -> Contents \ {Torn}]]
    BY DEF Loaded
  <2>2. runtime' \in [running : BOOLEAN, seen : Nat, loaded : [Kinds -> Contents \ {Torn}]]
    <3>1. CASE UNCHANGED runtime
      BY <2>1, <3>1
    <3>2. CASE runtime' = [running |-> TRUE, seen |-> reload.seen, loaded |-> reload.loaded]
      BY <2>1, <3>2
    <3> QED BY <1>6, <3>1, <3>2 DEF FinishReload
  <2> QED BY <1>1, <1>6, <2>2 DEF FinishReload, Loaded
<1>7. CASE Crash \/ Start
  BY <1>0, <1>1, <1>7 DEF Crash, Start, Loaded
<1>8. CASE Started \/ UNCHANGED vars
  BY <1>2, <1>8 DEF Started, vars
<1> QED BY <1>2, <1>3, <1>4, <1>5, <1>6, <1>7, <1>8 DEF Next

-----------------------------------------------------------------------------
(* Theorems. *)

\* IInv is an invariant.
LEMMA Inductive == Spec => []IInv
<1>1. IInv /\ [Next]_vars => IInv'
  BY KindsStep, SharedStep, LoadedStep DEF IInv, KindsInv
<1> QED BY Initially, <1>1, PTL DEF Spec

\* Types, the phase of the journal in memory at every label that names one, and that a
\* reload never reads a half-copied file.
THEOREM TypeCorrect == Spec => []TypeOK
<1>1. IInv => TypeOK
  <2> SUFFICES ASSUME IInv PROVE TypeOK OBVIOUS
  <2>1. ASSUME NEW k \in Kinds
        PROVE  /\ pc[k] \in Activates => memory[k].phase = "Activating"
               /\ pc[k] \in Completes => memory[k].phase = "FilesActivated"
               /\ pc[k] \in Restores => memory[k].phase = "RollingBack"
    BY DEF IInv, Kind, KindInv, AtLabel
  <2> QED BY <2>1 DEF IInv, Functions, Shared, Loaded, TypeOK
<1> QED BY <1>1, Inductive, PTL

\* Without a journal the data file and the version file are of one update, whatever
\* failed and wherever the process died in update_geodata or a recovery.
THEOREM PairsAreIntact == Spec => []PairIntact
<1>1. IInv => PairIntact
  <2>1. ASSUME IInv, NEW k \in Kinds, journal[k] = NoJournal PROVE live[k].data = live[k].version /\ live[k].data # Torn
    BY <2>1 DEF IInv, Kind, KindInv, OnDisk, Intact
  <2> QED BY <2>1 DEF PairIntact
<1> QED BY <1>1, Inductive, PTL

\* Until FilesActivated the journal names backups that rollback_geodata_journal can put back.
THEOREM RollbackIsPossible == Spec => []RollbackPossible
<1>1. IInv => RollbackPossible
  <2> SUFFICES ASSUME IInv, NEW k \in Kinds, journal[k].phase \in {"Activating", "RollingBack"}
               PROVE  /\ journal[k].data => backup[k].data \in Updates
                      /\ journal[k].version => backup[k].version \in Updates
                      /\ journal[k].data = journal[k].version
                      /\ backup[k].data = backup[k].version
    BY DEF RollbackPossible
  <2>1. Backed(journal[k], backup[k], installed[k]) /\ backup[k].data \in Contents
    BY DEF IInv, Kind, KindInv, OnDisk, Pairs
  <2> QED BY <2>1 DEF Backed, Intact, Contents
<1> QED BY <1>1, Inductive, PTL

\* No rollback, of another update or by a recovery, brings back a pair older than the
\* one last reported installed.
THEOREM SuccessIsKept == Spec => []NeverReverts
<1>1. IInv => NeverReverts
  <2>1. ASSUME IInv, NEW k \in Kinds, journal[k] = NoJournal PROVE live[k].data >= installed[k]
    BY <2>1 DEF IInv, Kind, KindInv, OnDisk, Intact
  <2> QED BY <2>1 DEF NeverReverts
<1> QED BY <1>1, Inductive, PTL
=============================================================================

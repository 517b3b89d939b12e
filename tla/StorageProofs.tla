--------------------------- MODULE StorageProofs ---------------------------
(***************************************************************************)
(* Theorems about what the application keeps and where: the relocation of  *)
(* the data root, the layout it is brought to, and the configuration files *)
(* with the transactions that write them.                                  *)
(***************************************************************************)
EXTENDS DataRoot, DataLayout, ConfigStore, FiniteSetTheorems, SequenceTheorems, TLAPS

-----------------------------------------------------------------------------
(* The relocation of the data root.                                        *)

Changes == 0 .. MaxChanges
Moves == [at : {"rest", "stop", "copy", "promote", "point"}, from : Roots \cup {NoRoot},
          to : Roots \cup {NoRoot}, copied : SUBSET Entry, behind : SUBSET Changes]

RootTypes ==
    /\ pointer \in Roots /\ loaded \in Roots \cup {NoRoot} /\ purge \in Roots \cup {NoRoot}
    /\ entries \in [Roots -> [Entry -> SUBSET Changes]]
    /\ staging \in [Roots -> [Entry -> SUBSET Changes]]
    /\ marker \in [Roots -> Roots \cup {NoRoot}]
    /\ move \in Moves
    /\ result \in [old : Roots \cup {NoRoot}, new : Roots \cup {NoRoot}]
    /\ saver \in [Savers -> [at : {"rest", "write"}, entry : Entry, id : Changes]]
    /\ written \in Changes
    /\ late \subseteq Changes /\ stored \subseteq Changes /\ again \in BOOLEAN

\* A write is under way, a move or a deletion runs, and a deletion is offered
\* only while the application is up.  The change that was always there is not
\* written again.
OnlyWhileUp ==
    /\ \A s \in Savers : saver[s].at = "write" => loaded # NoRoot /\ saver[s].id # 0
    /\ Busy => loaded # NoRoot /\ move.from = loaded /\ move.to \in Roots /\ move.to # loaded
    /\ result # NoResult => loaded # NoRoot
    /\ 0 \notin late /\ 0 \notin move.behind

\* Until a second move begins, a move runs from the root of the next start, and
\* a deletion of a root that the pointer has left.
LeavesOnce ==
    ~again =>
        /\ Busy => loaded = pointer
        /\ result # NoResult => loaded # pointer /\ result.old = loaded
        /\ purge # NoRoot => purge = loaded /\ result # NoResult

\* The copy has what the source has, but for what was written behind it.
CopyFollows ==
    (~again /\ Busy) =>
        \A e \in Entry :
            LET here == entries[move.from][e] \ move.behind
                there == staging[move.to][e]
            IN /\ move.at = "copy" /\ e \in move.copied => here \subseteq there
               /\ move.at = "promote" => here \subseteq there \cup entries[move.to][e]
               /\ move.at = "point" => here \subseteq entries[move.to][e]
               /\ move.at \in {"promote", "point"} => move.copied = Entry
               /\ move.at = "stop" => move.copied = {} /\ move.behind = {}

RootInv == RootTypes /\ OnlyWhileUp /\ LeavesOnce /\ CopyFollows /\ NextStartHasTheData

LEMMA RootInitInv == RootInit => RootInv
<1> SUFFICES ASSUME RootInit PROVE RootInv
  OBVIOUS
<1>1. RootTypes
  <2>1. pointer \in Roots /\ loaded = pointer /\ \A e \in Entry : {0} \in SUBSET Changes
    BY MaxChangesAssumption DEF RootInit, Changes
  <2>2. entries \in [Roots -> [Entry -> SUBSET Changes]]
    BY <2>1 DEF RootInit, Blank
  <2>3. staging \in [Roots -> [Entry -> SUBSET Changes]]
    BY DEF RootInit, Blank
  <2>4. move \in Moves
    BY DEF RootInit, Moves, NoMove
  <2>5. saver \in [Savers -> [at : {"rest", "write"}, entry : Entry, id : Changes]]
    BY <2>1 DEF RootInit, NotSaving, Entry
  <2>6. result \in [old : Roots \cup {NoRoot}, new : Roots \cup {NoRoot}]
    BY DEF RootInit, NoResult
  <2>7. written \in Changes
    BY MaxChangesAssumption DEF RootInit, Changes
  <2> QED
    BY <2>1, <2>2, <2>3, <2>4, <2>5, <2>6, <2>7 DEF RootInit, RootTypes
<1>2. OnlyWhileUp /\ LeavesOnce /\ CopyFollows
  BY NoRootAssumption DEF RootInit, OnlyWhileUp, LeavesOnce, CopyFollows, Busy, NoMove, NoResult, NotSaving
<1>3. NextStartHasTheData
  BY DEF RootInit, NextStartHasTheData, Content, Entry
<1> QED
  BY <1>1, <1>2, <1>3 DEF RootInv

LEMMA ChangedCell ==
    ASSUME NEW F \in [Roots -> [Entry -> SUBSET Changes]], NEW r \in Roots, NEW e \in Entry,
           NEW X \in SUBSET Changes
    PROVE  [F EXCEPT ![r][e] = X] \in [Roots -> [Entry -> SUBSET Changes]]
OBVIOUS

LEMMA BeginSaveKeepsInv ==
    ASSUME RootInv, NEW s \in Savers, NEW e \in Entry, BeginSave(s, e)
    PROVE  RootInv'
<1>1. RootTypes'
  BY NoRootAssumption, MaxChangesAssumption
     DEF RootInv, RootTypes, BeginSave, Changes, Moves, NoMove, EndMove, NoResult, NotSaving, Entry, Blank, Busy
<1>2. OnlyWhileUp'
  BY NoRootAssumption DEF RootInv, RootTypes, OnlyWhileUp, LeavesOnce, BeginSave, NoMove, EndMove, NoResult, NotSaving, Busy, Moves, Changes
<1>3. LeavesOnce'
  BY NoRootAssumption DEF RootInv, RootTypes, OnlyWhileUp, LeavesOnce, BeginSave, NoMove, EndMove, NoResult, Busy, Moves
<1>4. CopyFollows'
  BY NoRootAssumption DEF RootInv, RootTypes, OnlyWhileUp, LeavesOnce, CopyFollows, BeginSave, NoMove, EndMove, Busy, Moves, Blank
<1>5. NextStartHasTheData'
  BY NoRootAssumption DEF RootInv, RootTypes, OnlyWhileUp, LeavesOnce, CopyFollows, NextStartHasTheData, Content,
     BeginSave, Moves, Busy
<1> QED
  BY <1>1, <1>2, <1>3, <1>4, <1>5 DEF RootInv

LEMMA WriteChangeKeepsInv ==
    ASSUME RootInv, NEW s \in Savers, WriteChange(s)
    PROVE  RootInv'
<1>1. RootTypes'
  <2>1. loaded \in Roots /\ saver[s].entry \in Entry /\ saver[s].id \in Changes
    BY DEF RootInv, RootTypes, OnlyWhileUp, WriteChange
  <2>2. entries' \in [Roots -> [Entry -> SUBSET Changes]]
    <3>1. entries[loaded][saver[s].entry] \cup {saver[s].id} \in SUBSET Changes
      BY <2>1 DEF RootInv, RootTypes
    <3> QED
      BY <2>1, <3>1, ChangedCell DEF RootInv, RootTypes, WriteChange
  <2>3. move' \in Moves
    BY <2>1 DEF RootInv, RootTypes, WriteChange, Moves
  <2>4. saver' \in [Savers -> [at : {"rest", "write"}, entry : Entry, id : Changes]]
    BY MaxChangesAssumption DEF RootInv, RootTypes, WriteChange, NotSaving, Entry, Changes
  <2>5. late' \subseteq Changes /\ stored' \subseteq Changes
    BY <2>1 DEF RootInv, RootTypes, WriteChange
  <2> QED
    BY <2>2, <2>3, <2>4, <2>5 DEF RootInv, RootTypes, WriteChange
<1>2. OnlyWhileUp'
  BY NoRootAssumption DEF RootInv, RootTypes, OnlyWhileUp, LeavesOnce, WriteChange, NoMove, EndMove, NoResult, NotSaving, Busy, Moves, Changes
<1>3. LeavesOnce'
  BY NoRootAssumption DEF RootInv, RootTypes, OnlyWhileUp, LeavesOnce, WriteChange, NoMove, EndMove, NoResult, Busy, Moves
<1>4. CopyFollows'
  BY NoRootAssumption DEF RootInv, RootTypes, OnlyWhileUp, LeavesOnce, CopyFollows, WriteChange, NoMove, EndMove, Busy, Moves, Blank
<1>5. NextStartHasTheData'
  BY NoRootAssumption DEF RootInv, RootTypes, OnlyWhileUp, LeavesOnce, CopyFollows, NextStartHasTheData, Content,
     WriteChange, Moves, Busy
<1> QED
  BY <1>1, <1>2, <1>3, <1>4, <1>5 DEF RootInv

LEMMA BeginMoveKeepsInv ==
    ASSUME RootInv, NEW r \in Roots, BeginMove(r)
    PROVE  RootInv'
<1>1. RootTypes'
  BY NoRootAssumption, MaxChangesAssumption
     DEF RootInv, RootTypes, BeginMove, Changes, Moves, NoMove, EndMove, NoResult, NotSaving, Entry, Blank, Busy
<1>2. OnlyWhileUp'
  BY NoRootAssumption DEF RootInv, RootTypes, OnlyWhileUp, LeavesOnce, BeginMove, NoMove, EndMove, NoResult, NotSaving, Busy, Moves, Changes
<1>3. LeavesOnce'
  BY NoRootAssumption DEF RootInv, RootTypes, OnlyWhileUp, LeavesOnce, BeginMove, NoMove, EndMove, NoResult, Busy, Moves
<1>4. CopyFollows'
  BY NoRootAssumption DEF RootInv, RootTypes, OnlyWhileUp, LeavesOnce, CopyFollows, BeginMove, NoMove, EndMove, Busy, Moves, Blank
<1>5. NextStartHasTheData'
  BY NoRootAssumption DEF RootInv, RootTypes, OnlyWhileUp, LeavesOnce, CopyFollows, NextStartHasTheData, Content,
     BeginMove, Moves, Busy
<1> QED
  BY <1>1, <1>2, <1>3, <1>4, <1>5 DEF RootInv

LEMMA BotsStoppedKeepsInv ==
    ASSUME RootInv, BotsStopped
    PROVE  RootInv'
<1>1. RootTypes'
  BY NoRootAssumption, MaxChangesAssumption
     DEF RootInv, RootTypes, BotsStopped, Changes, Moves, NoMove, EndMove, NoResult, NotSaving, Entry, Blank, Busy
<1>2. OnlyWhileUp'
  BY NoRootAssumption DEF RootInv, RootTypes, OnlyWhileUp, LeavesOnce, BotsStopped, NoMove, EndMove, NoResult, NotSaving, Busy, Moves, Changes
<1>3. LeavesOnce'
  BY NoRootAssumption DEF RootInv, RootTypes, OnlyWhileUp, LeavesOnce, BotsStopped, NoMove, EndMove, NoResult, Busy, Moves
<1>4. CopyFollows'
  BY NoRootAssumption DEF RootInv, RootTypes, OnlyWhileUp, LeavesOnce, CopyFollows, BotsStopped, NoMove, EndMove, Busy, Moves, Blank
<1>5. NextStartHasTheData'
  BY NoRootAssumption DEF RootInv, RootTypes, OnlyWhileUp, LeavesOnce, CopyFollows, NextStartHasTheData, Content,
     BotsStopped, Moves, Busy
<1> QED
  BY <1>1, <1>2, <1>3, <1>4, <1>5 DEF RootInv

LEMMA BotsNotStoppedKeepsInv ==
    ASSUME RootInv, BotsNotStopped
    PROVE  RootInv'
<1>1. RootTypes'
  BY NoRootAssumption, MaxChangesAssumption
     DEF RootInv, RootTypes, BotsNotStopped, Changes, Moves, NoMove, EndMove, NoResult, NotSaving, Entry, Blank, Busy
<1>2. OnlyWhileUp'
  BY NoRootAssumption DEF RootInv, RootTypes, OnlyWhileUp, LeavesOnce, BotsNotStopped, NoMove, EndMove, NoResult, NotSaving, Busy, Moves, Changes
<1>3. LeavesOnce'
  BY NoRootAssumption DEF RootInv, RootTypes, OnlyWhileUp, LeavesOnce, BotsNotStopped, NoMove, EndMove, NoResult, Busy, Moves
<1>4. CopyFollows'
  BY NoRootAssumption DEF RootInv, RootTypes, OnlyWhileUp, LeavesOnce, CopyFollows, BotsNotStopped, NoMove, EndMove, Busy, Moves, Blank
<1>5. NextStartHasTheData'
  BY NoRootAssumption DEF RootInv, RootTypes, OnlyWhileUp, LeavesOnce, CopyFollows, NextStartHasTheData, Content,
     BotsNotStopped, Moves, Busy
<1> QED
  BY <1>1, <1>2, <1>3, <1>4, <1>5 DEF RootInv

LEMMA CopyEntryKeepsInv ==
    ASSUME RootInv, NEW e \in Entry, CopyEntry(e)
    PROVE  RootInv'
<1>1. RootTypes'
  <2>1. move.to \in Roots /\ move.from \in Roots
    BY DEF RootInv, RootTypes, OnlyWhileUp, CopyEntry, Busy
  <2>2. staging' \in [Roots -> [Entry -> SUBSET Changes]]
    <3>1. entries[move.from][e] \in SUBSET Changes
      BY <2>1 DEF RootInv, RootTypes
    <3> QED
      BY <2>1, <3>1, ChangedCell DEF RootInv, RootTypes, CopyEntry
  <2>3. move' \in Moves
    BY DEF RootInv, RootTypes, CopyEntry, Moves
  <2> QED
    BY <2>2, <2>3 DEF RootInv, RootTypes, CopyEntry
<1>2. OnlyWhileUp'
  BY NoRootAssumption DEF RootInv, RootTypes, OnlyWhileUp, LeavesOnce, CopyEntry, NoMove, EndMove, NoResult, NotSaving, Busy, Moves, Changes
<1>3. LeavesOnce'
  BY NoRootAssumption DEF RootInv, RootTypes, OnlyWhileUp, LeavesOnce, CopyEntry, NoMove, EndMove, NoResult, Busy, Moves
<1>4. CopyFollows'
  BY NoRootAssumption DEF RootInv, RootTypes, OnlyWhileUp, LeavesOnce, CopyFollows, CopyEntry, NoMove, EndMove, Busy, Moves, Blank
<1>5. NextStartHasTheData'
  BY NoRootAssumption DEF RootInv, RootTypes, OnlyWhileUp, LeavesOnce, CopyFollows, NextStartHasTheData, Content,
     CopyEntry, Moves, Busy
<1> QED
  BY <1>1, <1>2, <1>3, <1>4, <1>5 DEF RootInv

LEMMA CopyStopsKeepsInv ==
    ASSUME RootInv, CopyStops
    PROVE  RootInv'
<1>1. RootTypes'
  BY NoRootAssumption, MaxChangesAssumption
     DEF RootInv, RootTypes, CopyStops, Changes, Moves, NoMove, EndMove, NoResult, NotSaving, Entry, Blank, Busy
<1>2. OnlyWhileUp'
  BY NoRootAssumption DEF RootInv, RootTypes, OnlyWhileUp, LeavesOnce, CopyStops, NoMove, EndMove, NoResult, NotSaving, Busy, Moves, Changes
<1>3. LeavesOnce'
  BY NoRootAssumption DEF RootInv, RootTypes, OnlyWhileUp, LeavesOnce, CopyStops, NoMove, EndMove, NoResult, Busy, Moves
<1>4. CopyFollows'
  BY NoRootAssumption DEF RootInv, RootTypes, OnlyWhileUp, LeavesOnce, CopyFollows, CopyStops, NoMove, EndMove, Busy, Moves, Blank
<1>5. NextStartHasTheData'
  BY NoRootAssumption DEF RootInv, RootTypes, OnlyWhileUp, LeavesOnce, CopyFollows, NextStartHasTheData, Content,
     CopyStops, Moves, Busy
<1> QED
  BY <1>1, <1>2, <1>3, <1>4, <1>5 DEF RootInv

LEMMA VerifyKeepsInv ==
    ASSUME RootInv, Verify
    PROVE  RootInv'
<1>0. \/ move' = NoMove /\ staging' = [staging EXCEPT ![move.to] = Blank]
      \/ move' = [move EXCEPT !.at = "promote"] /\ UNCHANGED staging
  BY Zenon DEF Verify, EndMove
<1>a. /\ move.at = "copy" /\ move.copied = Entry
      /\ UNCHANGED <<pointer, loaded, entries, marker, cancel, result, purge, saver, moves,
                     written, exits, ioErrors, stored, late, again>>
  BY Zenon DEF Verify
<1>b. move.to \in Roots /\ move.to # loaded /\ move.from = loaded
  BY <1>a DEF RootInv, OnlyWhileUp, Busy
<1>1. RootTypes'
  <2>1. move' \in Moves
    BY SMTT(30), <1>0 DEF RootInv, RootTypes, Moves, NoMove
  <2>2. staging' \in [Roots -> [Entry -> SUBSET Changes]]
    <3>1. Blank \in [Entry -> SUBSET Changes]
      BY DEF Blank
    <3>2. staging \in [Roots -> [Entry -> SUBSET Changes]]
      BY DEF RootInv, RootTypes
    <3> QED
      BY <1>0, <3>1, <3>2
  <2> QED
    BY <1>a, <2>1, <2>2 DEF RootInv, RootTypes
<1>2. OnlyWhileUp'
  BY SMTT(30), <1>0, <1>a, NoRootAssumption DEF RootInv, RootTypes, OnlyWhileUp, NoMove, Busy, Moves
<1>3. LeavesOnce'
  BY <1>0, <1>a, NoRootAssumption DEF RootInv, RootTypes, OnlyWhileUp, LeavesOnce, NoMove, Busy, Moves
<1>4. CopyFollows'
  BY SMTT(30), <1>0, <1>a, NoRootAssumption DEF RootInv, RootTypes, OnlyWhileUp, LeavesOnce, CopyFollows, NoMove, Busy, Moves
<1>5. NextStartHasTheData'
  BY <1>a DEF RootInv, NextStartHasTheData, Content
<1> QED
  BY <1>1, <1>2, <1>3, <1>4, <1>5 DEF RootInv

LEMMA PromoteKeepsInv ==
    ASSUME RootInv, NEW e \in Entry, Promote(e)
    PROVE  RootInv'
<1>1. RootTypes'
  <2>1. move.to \in Roots
    BY DEF RootInv, RootTypes, OnlyWhileUp, Promote, Busy
  <2>2. staging[move.to][e] \in SUBSET Changes /\ {} \in SUBSET Changes
    BY <2>1 DEF RootInv, RootTypes
  <2>3. staging' \in [Roots -> [Entry -> SUBSET Changes]] /\ entries' \in [Roots -> [Entry -> SUBSET Changes]]
    BY <2>1, <2>2, ChangedCell DEF RootInv, RootTypes, Promote
  <2> QED
    BY <2>3 DEF RootInv, RootTypes, Promote
<1>2. OnlyWhileUp'
  BY NoRootAssumption DEF RootInv, RootTypes, OnlyWhileUp, LeavesOnce, Promote, NoMove, EndMove, NoResult, NotSaving, Busy, Moves, Changes
<1>3. LeavesOnce'
  BY NoRootAssumption DEF RootInv, RootTypes, OnlyWhileUp, LeavesOnce, Promote, NoMove, EndMove, NoResult, Busy, Moves
<1>4. CopyFollows'
  BY NoRootAssumption DEF RootInv, RootTypes, OnlyWhileUp, LeavesOnce, CopyFollows, Promote, NoMove, EndMove, Busy, Moves, Blank
<1>5. NextStartHasTheData'
  BY NoRootAssumption DEF RootInv, RootTypes, OnlyWhileUp, LeavesOnce, CopyFollows, NextStartHasTheData, Content,
     Promote, Moves, Busy
<1> QED
  BY <1>1, <1>2, <1>3, <1>4, <1>5 DEF RootInv

LEMMA PromoteFailsKeepsInv ==
    ASSUME RootInv, PromoteFails
    PROVE  RootInv'
<1>1. RootTypes'
  BY NoRootAssumption, MaxChangesAssumption
     DEF RootInv, RootTypes, PromoteFails, Changes, Moves, NoMove, EndMove, NoResult, NotSaving, Entry, Blank, Busy
<1>2. OnlyWhileUp'
  BY NoRootAssumption DEF RootInv, RootTypes, OnlyWhileUp, LeavesOnce, PromoteFails, NoMove, EndMove, NoResult, NotSaving, Busy, Moves, Changes
<1>3. LeavesOnce'
  BY NoRootAssumption DEF RootInv, RootTypes, OnlyWhileUp, LeavesOnce, PromoteFails, NoMove, EndMove, NoResult, Busy, Moves
<1>4. CopyFollows'
  BY NoRootAssumption DEF RootInv, RootTypes, OnlyWhileUp, LeavesOnce, CopyFollows, PromoteFails, NoMove, EndMove, Busy, Moves, Blank
<1>5. NextStartHasTheData'
  BY NoRootAssumption DEF RootInv, RootTypes, OnlyWhileUp, LeavesOnce, CopyFollows, NextStartHasTheData, Content,
     PromoteFails, Moves, Busy
<1> QED
  BY <1>1, <1>2, <1>3, <1>4, <1>5 DEF RootInv

LEMMA RetireKeepsInv ==
    ASSUME RootInv, Retire
    PROVE  RootInv'
<1>1. RootTypes'
  BY NoRootAssumption, MaxChangesAssumption
     DEF RootInv, RootTypes, Retire, Changes, Moves, NoMove, EndMove, NoResult, NotSaving, Entry, Blank, Busy
<1>2. OnlyWhileUp'
  BY NoRootAssumption DEF RootInv, RootTypes, OnlyWhileUp, LeavesOnce, Retire, NoMove, EndMove, NoResult, NotSaving, Busy, Moves, Changes
<1>3. LeavesOnce'
  BY NoRootAssumption DEF RootInv, RootTypes, OnlyWhileUp, LeavesOnce, Retire, NoMove, EndMove, NoResult, Busy, Moves
<1>4. CopyFollows'
  BY NoRootAssumption DEF RootInv, RootTypes, OnlyWhileUp, LeavesOnce, CopyFollows, Retire, NoMove, EndMove, Busy, Moves, Blank
<1>5. NextStartHasTheData'
  BY NoRootAssumption DEF RootInv, RootTypes, OnlyWhileUp, LeavesOnce, CopyFollows, NextStartHasTheData, Content,
     Retire, Moves, Busy
<1> QED
  BY <1>1, <1>2, <1>3, <1>4, <1>5 DEF RootInv

LEMMA WritePointerKeepsInv ==
    ASSUME RootInv, WritePointer
    PROVE  RootInv'
<1>1. RootTypes'
  <2>1. move.to \in Roots /\ move.from \in Roots /\ move.behind \subseteq Changes
    BY DEF RootInv, RootTypes, OnlyWhileUp, WritePointer, Busy, Moves
  <2>2. move' \in Moves
    BY DEF WritePointer, EndMove, NoMove, Moves
  <2>3. result' \in [old : Roots \cup {NoRoot}, new : Roots \cup {NoRoot}]
    BY <2>1 DEF WritePointer
  <2>4. late' \subseteq Changes
    BY <2>1 DEF RootInv, RootTypes, WritePointer
  <2> QED
    BY <2>1, <2>2, <2>3, <2>4 DEF RootInv, RootTypes, WritePointer
<1>2. OnlyWhileUp'
  BY NoRootAssumption DEF RootInv, RootTypes, OnlyWhileUp, LeavesOnce, WritePointer, NoMove, EndMove, NoResult, NotSaving, Busy, Moves, Changes
<1>3. LeavesOnce'
  BY NoRootAssumption DEF RootInv, RootTypes, OnlyWhileUp, LeavesOnce, WritePointer, NoMove, EndMove, NoResult, Busy, Moves
<1>4. CopyFollows'
  BY NoRootAssumption DEF RootInv, RootTypes, OnlyWhileUp, LeavesOnce, CopyFollows, WritePointer, NoMove, EndMove, Busy, Moves, Blank
<1>5. NextStartHasTheData'
  BY NoRootAssumption DEF RootInv, RootTypes, OnlyWhileUp, LeavesOnce, CopyFollows, NextStartHasTheData, Content,
     WritePointer, Moves, Busy
<1> QED
  BY <1>1, <1>2, <1>3, <1>4, <1>5 DEF RootInv

LEMMA PointerFailsKeepsInv ==
    ASSUME RootInv, PointerFails
    PROVE  RootInv'
<1>1. RootTypes'
  BY NoRootAssumption, MaxChangesAssumption
     DEF RootInv, RootTypes, PointerFails, Changes, Moves, NoMove, EndMove, NoResult, NotSaving, Entry, Blank, Busy
<1>2. OnlyWhileUp'
  BY NoRootAssumption DEF RootInv, RootTypes, OnlyWhileUp, LeavesOnce, PointerFails, NoMove, EndMove, NoResult, NotSaving, Busy, Moves, Changes
<1>3. LeavesOnce'
  BY NoRootAssumption DEF RootInv, RootTypes, OnlyWhileUp, LeavesOnce, PointerFails, NoMove, EndMove, NoResult, Busy, Moves
<1>4. CopyFollows'
  BY NoRootAssumption DEF RootInv, RootTypes, OnlyWhileUp, LeavesOnce, CopyFollows, PointerFails, NoMove, EndMove, Busy, Moves, Blank
<1>5. NextStartHasTheData'
  BY NoRootAssumption DEF RootInv, RootTypes, OnlyWhileUp, LeavesOnce, CopyFollows, NextStartHasTheData, Content,
     PointerFails, Moves, Busy
<1> QED
  BY <1>1, <1>2, <1>3, <1>4, <1>5 DEF RootInv

LEMMA CancelMoveKeepsInv ==
    ASSUME RootInv, CancelMove
    PROVE  RootInv'
<1>1. RootTypes'
  BY NoRootAssumption, MaxChangesAssumption
     DEF RootInv, RootTypes, CancelMove, Changes, Moves, NoMove, EndMove, NoResult, NotSaving, Entry, Blank, Busy
<1>2. OnlyWhileUp'
  BY NoRootAssumption DEF RootInv, RootTypes, OnlyWhileUp, LeavesOnce, CancelMove, NoMove, EndMove, NoResult, NotSaving, Busy, Moves, Changes
<1>3. LeavesOnce'
  BY NoRootAssumption DEF RootInv, RootTypes, OnlyWhileUp, LeavesOnce, CancelMove, NoMove, EndMove, NoResult, Busy, Moves
<1>4. CopyFollows'
  BY NoRootAssumption DEF RootInv, RootTypes, OnlyWhileUp, LeavesOnce, CopyFollows, CancelMove, NoMove, EndMove, Busy, Moves, Blank
<1>5. NextStartHasTheData'
  BY NoRootAssumption DEF RootInv, RootTypes, OnlyWhileUp, LeavesOnce, CopyFollows, NextStartHasTheData, Content,
     CancelMove, Moves, Busy
<1> QED
  BY <1>1, <1>2, <1>3, <1>4, <1>5 DEF RootInv

LEMMA BeginPurgeKeepsInv ==
    ASSUME RootInv, BeginPurge
    PROVE  RootInv'
<1>1. RootTypes'
  BY NoRootAssumption, MaxChangesAssumption
     DEF RootInv, RootTypes, BeginPurge, Changes, Moves, NoMove, EndMove, NoResult, NotSaving, Entry, Blank, Busy
<1>2. OnlyWhileUp'
  BY NoRootAssumption DEF RootInv, RootTypes, OnlyWhileUp, LeavesOnce, BeginPurge, NoMove, EndMove, NoResult, NotSaving, Busy, Moves, Changes
<1>3. LeavesOnce'
  BY NoRootAssumption DEF RootInv, RootTypes, OnlyWhileUp, LeavesOnce, BeginPurge, NoMove, EndMove, NoResult, Busy, Moves
<1>4. CopyFollows'
  BY NoRootAssumption DEF RootInv, RootTypes, OnlyWhileUp, LeavesOnce, CopyFollows, BeginPurge, NoMove, EndMove, Busy, Moves, Blank
<1>5. NextStartHasTheData'
  BY NoRootAssumption DEF RootInv, RootTypes, OnlyWhileUp, LeavesOnce, CopyFollows, NextStartHasTheData, Content,
     BeginPurge, Moves, Busy
<1> QED
  BY <1>1, <1>2, <1>3, <1>4, <1>5 DEF RootInv

LEMMA PurgeEntryKeepsInv ==
    ASSUME RootInv, NEW e \in Entry, PurgeEntry(e)
    PROVE  RootInv'
<1>1. RootTypes'
  BY NoRootAssumption, MaxChangesAssumption
     DEF RootInv, RootTypes, PurgeEntry, Changes, Moves, NoMove, EndMove, NoResult, NotSaving, Entry, Blank, Busy
<1>2. OnlyWhileUp'
  BY NoRootAssumption DEF RootInv, RootTypes, OnlyWhileUp, LeavesOnce, PurgeEntry, NoMove, EndMove, NoResult, NotSaving, Busy, Moves, Changes
<1>3. LeavesOnce'
  BY NoRootAssumption DEF RootInv, RootTypes, OnlyWhileUp, LeavesOnce, PurgeEntry, NoMove, EndMove, NoResult, Busy, Moves
<1>4. CopyFollows'
  BY NoRootAssumption DEF RootInv, RootTypes, OnlyWhileUp, LeavesOnce, CopyFollows, PurgeEntry, NoMove, EndMove, Busy, Moves, Blank
<1>5. NextStartHasTheData'
  BY NoRootAssumption DEF RootInv, RootTypes, OnlyWhileUp, LeavesOnce, CopyFollows, NextStartHasTheData, Content,
     PurgeEntry, Moves, Busy
<1> QED
  BY <1>1, <1>2, <1>3, <1>4, <1>5 DEF RootInv

LEMMA EndPurgeKeepsInv ==
    ASSUME RootInv, EndPurge
    PROVE  RootInv'
<1>1. RootTypes'
  BY NoRootAssumption, MaxChangesAssumption
     DEF RootInv, RootTypes, EndPurge, Changes, Moves, NoMove, EndMove, NoResult, NotSaving, Entry, Blank, Busy
<1>2. OnlyWhileUp'
  BY NoRootAssumption DEF RootInv, RootTypes, OnlyWhileUp, LeavesOnce, EndPurge, NoMove, EndMove, NoResult, NotSaving, Busy, Moves, Changes
<1>3. LeavesOnce'
  BY NoRootAssumption DEF RootInv, RootTypes, OnlyWhileUp, LeavesOnce, EndPurge, NoMove, EndMove, NoResult, Busy, Moves
<1>4. CopyFollows'
  BY NoRootAssumption DEF RootInv, RootTypes, OnlyWhileUp, LeavesOnce, CopyFollows, EndPurge, NoMove, EndMove, Busy, Moves, Blank
<1>5. NextStartHasTheData'
  BY NoRootAssumption DEF RootInv, RootTypes, OnlyWhileUp, LeavesOnce, CopyFollows, NextStartHasTheData, Content,
     EndPurge, Moves, Busy
<1> QED
  BY <1>1, <1>2, <1>3, <1>4, <1>5 DEF RootInv

LEMMA ExitKeepsInv ==
    ASSUME RootInv, Exit
    PROVE  RootInv'
<1>1. RootTypes'
  BY NoRootAssumption, MaxChangesAssumption
     DEF RootInv, RootTypes, Exit, Changes, Moves, NoMove, EndMove, NoResult, NotSaving, Entry, Blank, Busy
<1>2. OnlyWhileUp'
  BY NoRootAssumption DEF RootInv, RootTypes, OnlyWhileUp, LeavesOnce, Exit, NoMove, EndMove, NoResult, NotSaving, Busy, Moves, Changes
<1>3. LeavesOnce'
  BY NoRootAssumption DEF RootInv, RootTypes, OnlyWhileUp, LeavesOnce, Exit, NoMove, EndMove, NoResult, Busy, Moves
<1>4. CopyFollows'
  BY NoRootAssumption DEF RootInv, RootTypes, OnlyWhileUp, LeavesOnce, CopyFollows, Exit, NoMove, EndMove, Busy, Moves, Blank
<1>5. NextStartHasTheData'
  BY NoRootAssumption DEF RootInv, RootTypes, OnlyWhileUp, LeavesOnce, CopyFollows, NextStartHasTheData, Content,
     Exit, Moves, Busy
<1> QED
  BY <1>1, <1>2, <1>3, <1>4, <1>5 DEF RootInv

LEMMA StartUpKeepsInv ==
    ASSUME RootInv, StartUp
    PROVE  RootInv'
<1>1. RootTypes'
  BY NoRootAssumption, MaxChangesAssumption
     DEF RootInv, RootTypes, StartUp, Changes, Moves, NoMove, EndMove, NoResult, NotSaving, Entry, Blank, Busy
<1>2. OnlyWhileUp'
  BY NoRootAssumption DEF RootInv, RootTypes, OnlyWhileUp, LeavesOnce, StartUp, NoMove, EndMove, NoResult, NotSaving, Busy, Moves, Changes
<1>3. LeavesOnce'
  BY NoRootAssumption DEF RootInv, RootTypes, OnlyWhileUp, LeavesOnce, StartUp, NoMove, EndMove, NoResult, Busy, Moves
<1>4. CopyFollows'
  BY NoRootAssumption DEF RootInv, RootTypes, OnlyWhileUp, LeavesOnce, CopyFollows, StartUp, NoMove, EndMove, Busy, Moves, Blank
<1>5. NextStartHasTheData'
  BY NoRootAssumption DEF RootInv, RootTypes, OnlyWhileUp, LeavesOnce, CopyFollows, NextStartHasTheData, Content,
     StartUp, Moves, Busy
<1> QED
  BY <1>1, <1>2, <1>3, <1>4, <1>5 DEF RootInv

\* The conjuncts hold together in every reachable state.
THEOREM RootInvariance == RootSpec => []RootInv
<1>1. RootInv /\ [RootNext]_rootVars => RootInv'
  <2> SUFFICES ASSUME RootInv, [RootNext]_rootVars PROVE RootInv'
    OBVIOUS
  <2>1. ASSUME NEW s \in Savers, NEW e \in Entry, BeginSave(s, e) PROVE RootInv'
    BY <2>1, BeginSaveKeepsInv
  <2>2. ASSUME NEW s \in Savers, WriteChange(s) PROVE RootInv'
    BY <2>2, WriteChangeKeepsInv
  <2>3. ASSUME NEW r \in Roots, BeginMove(r) PROVE RootInv'
    BY <2>3, BeginMoveKeepsInv
  <2>4. CASE BotsStopped
    BY <2>4, BotsStoppedKeepsInv
  <2>5. CASE BotsNotStopped
    BY <2>5, BotsNotStoppedKeepsInv
  <2>6. CASE CopyStops
    BY <2>6, CopyStopsKeepsInv
  <2>7. CASE Verify
    BY <2>7, VerifyKeepsInv
  <2>8. CASE PromoteFails
    BY <2>8, PromoteFailsKeepsInv
  <2>9. CASE Retire
    BY <2>9, RetireKeepsInv
  <2>10. CASE WritePointer
    BY <2>10, WritePointerKeepsInv
  <2>11. CASE PointerFails
    BY <2>11, PointerFailsKeepsInv
  <2>12. CASE CancelMove
    BY <2>12, CancelMoveKeepsInv
  <2>13. CASE BeginPurge
    BY <2>13, BeginPurgeKeepsInv
  <2>14. CASE EndPurge
    BY <2>14, EndPurgeKeepsInv
  <2>15. CASE Exit
    BY <2>15, ExitKeepsInv
  <2>16. CASE StartUp
    BY <2>16, StartUpKeepsInv
  <2>17. ASSUME NEW e \in Entry, CopyEntry(e) PROVE RootInv'
    BY <2>17, CopyEntryKeepsInv
  <2>18. ASSUME NEW e \in Entry, Promote(e) PROVE RootInv'
    BY <2>18, PromoteKeepsInv
  <2>19. ASSUME NEW e \in Entry, PurgeEntry(e) PROVE RootInv'
    BY <2>19, PurgeEntryKeepsInv
  <2>20. CASE UNCHANGED rootVars
    BY <2>20 DEF rootVars, RootInv, RootTypes, OnlyWhileUp, LeavesOnce, CopyFollows,
                 NextStartHasTheData, Content, Busy
  <2> QED
    BY <2>1, <2>2, <2>3, <2>4, <2>5, <2>6, <2>7, <2>8, <2>9, <2>10, <2>11, <2>12, <2>13, <2>14, <2>15, <2>16, <2>17, <2>18, <2>19, <2>20 DEF RootNext
<1> QED
  BY RootInitInv, <1>1, PTL DEF RootSpec

\* Type correctness of the data roots and of the move between them.
THEOREM RootTypeCorrect == RootSpec => []RootTypeOK
<1>1. RootInv => RootTypeOK
  BY DEF RootInv, RootTypes, RootTypeOK, Moves, Changes
<1> QED
  BY RootInvariance, <1>1, PTL

\* At whatever step of a move or of the deletion of the old root the
\* application dies, the root of the next start has what was acknowledged
\* (relocate.rs, data_root_migrate.rs), for every number of roots and tasks and
\* any number of moves, exits and failing operations.
THEOREM NextStartCorrect == RootSpec => []NextStartHasTheData
<1>1. RootInv => NextStartHasTheData
  BY DEF RootInv
<1> QED
  BY RootInvariance, <1>1, PTL

-----------------------------------------------------------------------------
(* The layout of the data root.                                            *)

LayoutTypes ==
    /\ legacy \in [Data -> Extent] /\ current \in [Data -> Extent]
    /\ layout \in {0, 1} /\ logShell \in BOOLEAN
    /\ zips \in Seq(SUBSET Data) /\ archives \in Seq(SUBSET Data)
    /\ interruptions \in Nat /\ had \subseteq Data

Consolidating == {"zip", "zipping", "file", "copying file", "tree", "copying tree", "marker"}
Archiving == {"archive", "log too", "log first", "prune"}

\* The marker is written when nothing is left to migrate, and only then is
\* anything archived; from there on nothing is migrated again.
MarkerMeansMigrated ==
    /\ startup \in Consolidating \cup Archiving \cup {"look", "up"}
    /\ startup \in Consolidating => layout = 0
    /\ startup \in Archiving => layout = 1
    /\ layout = 1 \/ startup = "marker" => ~Unmigrated
    /\ startup \in {"tree", "copying tree"} => legacy["file"] = "none" \/ current["file"] # "none"
    /\ startup = "copying tree" => current["tree"] = "part" /\ legacy["tree"] # "none"
    /\ startup = "zipping" => zips # <<>>
    /\ startup = "log first" => archives # <<>>

\* What is there of the file before the marker, and the zip made before it.
FileIsZipped ==
    "file" \in had =>
        /\ layout = 0 => legacy["file"] = "whole"
        /\ layout = 1 \/ startup \in Consolidating \ {"zip", "zipping"} =>
              zips # <<>> /\ "file" \in zips[Len(zips)]

\* What a start that was never interrupted has done.
FirstStartMoves ==
    interruptions = 0 =>
        /\ startup = "up" => layout = 1
        /\ "file" \in had =>
              /\ current["file"] \in {"none", "whole"} \/ startup = "copying file"
              /\ layout = 1 \/ startup \in {"tree", "copying tree", "marker"} => current["file"] = "whole"
        /\ "tree" \in had =>
              /\ current["tree"] \in {"none", "whole"} \/ startup = "copying tree"
              /\ layout = 1 \/ startup = "marker" => current["tree"] = "whole"

\* The newest archive has the installation, and no further one is made.
TreeIsArchived ==
    /\ layout = 1 /\ archives # <<>> /\ "tree" \in archives[Len(archives)]
    /\ \A d \in Data : legacy[d] = "none"
    /\ startup = "log too" \/ (~logShell /\ startup \in {"prune", "up", "look"})

TreeStays ==
    ("tree" \in had /\ interruptions < 2) =>
        legacy["tree"] = "whole" \/ current["tree"] = "whole" \/ TreeIsArchived

LayoutInv == LayoutTypes /\ MarkerMeansMigrated /\ FileIsZipped /\ FirstStartMoves /\ TreeStays

LEMMA LastFewKeepsLast ==
    ASSUME NEW S, NEW q \in Seq(S), NEW n \in Nat \ {0}
    PROVE  /\ LastFew(q, n) \in Seq(S)
           /\ q # <<>> => /\ LastFew(q, n) # <<>>
                          /\ LastFew(q, n)[Len(LastFew(q, n))] = q[Len(q)]
<1> DEFINE m == IF Len(q) > n THEN Len(q) - n + 1 ELSE 1
<1>1. m \in Nat /\ 1 <= m /\ m <= Len(q) + 1 /\ (q # <<>> => m <= Len(q))
  OBVIOUS
<1>2. LastFew(q, n) = SubSeq(q, m, Len(q))
  BY DEF LastFew
<1> HIDE DEF m
<1>3. LastFew(q, n) \in Seq(S)
  BY <1>1, <1>2
<1>4. ASSUME q # <<>> PROVE LastFew(q, n) # <<>> /\ LastFew(q, n)[Len(LastFew(q, n))] = q[Len(q)]
  <2>1. Len(LastFew(q, n)) = Len(q) - m + 1 /\ Len(q) \in Nat
    BY <1>1, <1>2, <1>4
  <2>2. Len(q) # 0
    BY <1>4
  <2>3. Len(q) - m + 1 # 0
    BY <1>1, <1>4
  <2>4. LastFew(q, n) # <<>>
    BY <2>1, <2>3
  <2>5. SubSeq(q, m, Len(q))[Len(q) - m + 1] = q[Len(q)]
    BY <1>1, <1>4
  <2> QED
    BY <1>2, <2>1, <2>4, <2>5
<1> QED
  BY <1>3, <1>4

LEMMA InterruptionsAreCounted ==
    ASSUME LayoutInv
    PROVE  interruptions \in Nat /\ (Interrupted => interruptions' = interruptions + 1 /\ interruptions' \in Nat \ {0})
<1>1. interruptions \in Nat
  BY DEF LayoutInv, LayoutTypes
<1> QED
  BY <1>1 DEF Interrupted

LEMMA FirstStartHasTree ==
    ASSUME LayoutInv, interruptions = 0, "tree" \in had
    PROVE  legacy["tree"] = "whole" \/ current["tree"] = "whole"
<1>1. interruptions < 2
  OBVIOUS
<1>2. layout = 1 => current["tree"] = "whole"
  BY DEF LayoutInv, FirstStartMoves
<1> QED
  BY <1>1, <1>2 DEF LayoutInv, TreeStays, TreeIsArchived

LEMMA LayoutInitInv == LayoutInit => LayoutInv
  BY DEF LayoutInit, LayoutInv, LayoutTypes, MarkerMeansMigrated, FileIsZipped, FirstStartMoves, TreeStays,
         Consolidating, Archiving, Data, Extent, Unmigrated

LEMMA LookKeepsInv ==
    ASSUME LayoutInv, Look
    PROVE  LayoutInv'
<1>1. LayoutTypes'
  BY DEF LayoutInv, LayoutTypes, Look, Goto, Interrupted, Extent, Data, Whole
<1>2. MarkerMeansMigrated'
  BY DEF LayoutInv, LayoutTypes, MarkerMeansMigrated, Unmigrated, Consolidating, Archiving,
         Look, Goto, Interrupted, Extent, Data
<1>3. FileIsZipped'
  BY DEF LayoutInv, LayoutTypes, MarkerMeansMigrated, FileIsZipped, Consolidating, Archiving,
         Look, Goto, Interrupted, Extent, Data
<1>4. FirstStartMoves'
  BY DEF LayoutInv, LayoutTypes, MarkerMeansMigrated, FileIsZipped, FirstStartMoves, Consolidating, Archiving,
         Look, Goto, Interrupted, Extent, Data
<1>5. TreeStays'
  BY DEF LayoutInv, LayoutTypes, MarkerMeansMigrated, TreeStays, TreeIsArchived, Unmigrated, HasLegacyShells,
         CanArchive, Look, Goto, Data
<1> QED
  BY <1>1, <1>2, <1>3, <1>4, <1>5 DEF LayoutInv

LEMMA OpenZipKeepsInv ==
    ASSUME LayoutInv, OpenZip
    PROVE  LayoutInv'
<1>1. LayoutTypes'
  BY DEF LayoutInv, LayoutTypes, OpenZip, Goto, Interrupted, Extent, Data, Whole
<1>2. MarkerMeansMigrated'
  BY DEF LayoutInv, LayoutTypes, MarkerMeansMigrated, Unmigrated, Consolidating, Archiving,
         OpenZip, Goto, Interrupted, Extent, Data
<1>3. FileIsZipped'
  BY DEF LayoutInv, LayoutTypes, MarkerMeansMigrated, FileIsZipped, Consolidating, Archiving,
         OpenZip, Goto, Interrupted, Extent, Data
<1>4. FirstStartMoves'
  BY DEF LayoutInv, LayoutTypes, MarkerMeansMigrated, FileIsZipped, FirstStartMoves, Consolidating, Archiving,
         OpenZip, Goto, Interrupted, Extent, Data
<1>5. TreeStays'
  BY DEF LayoutInv, LayoutTypes, MarkerMeansMigrated, FirstStartMoves, TreeStays, TreeIsArchived,
         Consolidating, Archiving, OpenZip, Goto, Interrupted, Extent, Data
<1> QED
  BY <1>1, <1>2, <1>3, <1>4, <1>5 DEF LayoutInv

LEMMA FinishZipKeepsInv ==
    ASSUME LayoutInv, FinishZip
    PROVE  LayoutInv'
<1>0. DEFINE q == Append(Front(zips), Zipped)
<1>a. q \in Seq(SUBSET Data) /\ q # <<>> /\ q[Len(q)] = Zipped /\ zips' = LastFew(q, KeepZips)
  <2>1. zips # <<>> /\ zips \in Seq(SUBSET Data) /\ Zipped \in SUBSET Data
    BY DEF LayoutInv, LayoutTypes, MarkerMeansMigrated, FinishZip, Zipped, Data
  <2>2. Front(zips) \in Seq(SUBSET Data)
    BY <2>1 DEF Front
  <2> QED
    BY <2>1, <2>2 DEF FinishZip
<1> HIDE DEF q
<1>b. zips' \in Seq(SUBSET Data) /\ zips' # <<>> /\ zips'[Len(zips')] = Zipped
  BY <1>a, LastFewKeepsLast, KeepZipsAssumption
<1>1. LayoutTypes'
  BY <1>b DEF LayoutInv, LayoutTypes, FinishZip, Goto
<1>2. MarkerMeansMigrated'
  BY DEF LayoutInv, LayoutTypes, MarkerMeansMigrated, Unmigrated, Consolidating, Archiving,
         FinishZip, Goto, Interrupted, Extent, Data
<1>3. FileIsZipped'
  BY <1>b DEF LayoutInv, LayoutTypes, MarkerMeansMigrated, FileIsZipped, Consolidating, Zipped, Whole,
         FinishZip, Goto, Data
<1>4. FirstStartMoves'
  BY DEF LayoutInv, LayoutTypes, MarkerMeansMigrated, FileIsZipped, FirstStartMoves, Consolidating, Archiving,
         FinishZip, Goto, Interrupted, Extent, Data
<1>5. TreeStays'
  BY DEF LayoutInv, LayoutTypes, MarkerMeansMigrated, FirstStartMoves, TreeStays, TreeIsArchived,
         Consolidating, Archiving, FinishZip, Goto, Interrupted, Extent, Data
<1> QED
  BY <1>1, <1>2, <1>3, <1>4, <1>5 DEF LayoutInv

LEMMA ZipFailsKeepsInv ==
    ASSUME LayoutInv, ZipFails
    PROVE  LayoutInv'
<1>1. LayoutTypes'
  BY DEF LayoutInv, LayoutTypes, ZipFails, Goto, Interrupted, Extent, Data, Whole
<1>2. MarkerMeansMigrated'
  BY DEF LayoutInv, LayoutTypes, MarkerMeansMigrated, Unmigrated, Consolidating, Archiving,
         ZipFails, Goto, Interrupted, Extent, Data
<1>3. FileIsZipped'
  BY DEF LayoutInv, LayoutTypes, MarkerMeansMigrated, FileIsZipped, Consolidating, Archiving,
         ZipFails, Goto, Interrupted, Extent, Data
<1>4. FirstStartMoves'
  <2>1. interruptions' # 0
    BY InterruptionsAreCounted DEF ZipFails
  <2> QED
    BY <2>1 DEF FirstStartMoves
<1>5. TreeStays'
  <2>1. layout = 0 /\ UNCHANGED <<legacy, current, had>>
    BY DEF LayoutInv, MarkerMeansMigrated, Consolidating, ZipFails
  <2>2. interruptions \in Nat /\ interruptions' = interruptions + 1
    BY InterruptionsAreCounted DEF ZipFails
  <2>3. interruptions' < 2 => interruptions < 2
    BY <2>2
  <2>4. ~TreeIsArchived
    BY <2>1 DEF TreeIsArchived
  <2> QED
    BY <2>1, <2>3, <2>4 DEF LayoutInv, TreeStays
<1> QED
  BY <1>1, <1>2, <1>3, <1>4, <1>5 DEF LayoutInv

LEMMA CopyFileKeepsInv ==
    ASSUME LayoutInv, CopyFile
    PROVE  LayoutInv'
<1>1. LayoutTypes'
  BY DEF LayoutInv, LayoutTypes, CopyFile, Goto, Interrupted, Extent, Data, Whole
<1>2. MarkerMeansMigrated'
  BY DEF LayoutInv, LayoutTypes, MarkerMeansMigrated, Unmigrated, Consolidating, Archiving,
         CopyFile, Goto, Interrupted, Extent, Data
<1>3. FileIsZipped'
  BY DEF LayoutInv, LayoutTypes, MarkerMeansMigrated, FileIsZipped, Consolidating, Archiving,
         CopyFile, Goto, Interrupted, Extent, Data
<1>4. FirstStartMoves'
  <2> SUFFICES ASSUME interruptions' = 0 PROVE FirstStartMoves'
    BY DEF FirstStartMoves
  <2>1. interruptions = 0 /\ had' = had
    BY DEF LayoutInv, LayoutTypes, CopyFile, Interrupted
  <2>2. startup' = "up" => layout' = 1
    BY <2>1 DEF LayoutInv, LayoutTypes, MarkerMeansMigrated, FileIsZipped, FirstStartMoves, TreeStays, TreeIsArchived, Consolidating, Archiving,
             CopyFile, Goto, Interrupted, Extent, Data
  <2>3. ASSUME "file" \in had
        PROVE  /\ current'["file"] \in {"none", "whole"} \/ startup' = "copying file"
               /\ layout' = 1 \/ startup' \in {"tree", "copying tree", "marker"} => current'["file"] = "whole"
    BY <2>1, <2>3 DEF LayoutInv, LayoutTypes, MarkerMeansMigrated, FileIsZipped, FirstStartMoves, TreeStays, TreeIsArchived, Consolidating, Archiving,
             CopyFile, Goto, Interrupted, Extent, Data
  <2>4. ASSUME "tree" \in had
        PROVE  /\ current'["tree"] \in {"none", "whole"} \/ startup' = "copying tree"
               /\ layout' = 1 \/ startup' = "marker" => current'["tree"] = "whole"
    BY <2>1, <2>4 DEF LayoutInv, LayoutTypes, MarkerMeansMigrated, FileIsZipped, FirstStartMoves, TreeStays, TreeIsArchived, Consolidating, Archiving,
             CopyFile, Goto, Interrupted, Extent, Data
  <2> QED
    BY <2>1, <2>2, <2>3, <2>4 DEF FirstStartMoves
<1>5. TreeStays'
  BY DEF LayoutInv, LayoutTypes, MarkerMeansMigrated, FirstStartMoves, TreeStays, TreeIsArchived,
         Consolidating, Archiving, CopyFile, Goto, Interrupted, Extent, Data
<1> QED
  BY <1>1, <1>2, <1>3, <1>4, <1>5 DEF LayoutInv

LEMMA FinishFileKeepsInv ==
    ASSUME LayoutInv, FinishFile
    PROVE  LayoutInv'
<1>1. LayoutTypes'
  BY DEF LayoutInv, LayoutTypes, FinishFile, Goto, Interrupted, Extent, Data, Whole
<1>2. MarkerMeansMigrated'
  BY DEF LayoutInv, LayoutTypes, MarkerMeansMigrated, Unmigrated, Consolidating, Archiving,
         FinishFile, Goto, Interrupted, Extent, Data
<1>3. FileIsZipped'
  BY DEF LayoutInv, LayoutTypes, MarkerMeansMigrated, FileIsZipped, Consolidating, Archiving,
         FinishFile, Goto, Interrupted, Extent, Data
<1>4. FirstStartMoves'
  BY DEF LayoutInv, LayoutTypes, MarkerMeansMigrated, FileIsZipped, FirstStartMoves, Consolidating, Archiving,
         FinishFile, Goto, Interrupted, Extent, Data
<1>5. TreeStays'
  BY DEF LayoutInv, LayoutTypes, MarkerMeansMigrated, FirstStartMoves, TreeStays, TreeIsArchived,
         Consolidating, Archiving, FinishFile, Goto, Interrupted, Extent, Data
<1> QED
  BY <1>1, <1>2, <1>3, <1>4, <1>5 DEF LayoutInv

LEMMA MoveTreeKeepsInv ==
    ASSUME LayoutInv, MoveTree
    PROVE  LayoutInv'
<1>1. LayoutTypes'
  BY DEF LayoutInv, LayoutTypes, MoveTree, Goto, Interrupted, Extent, Data, Whole
<1>2. MarkerMeansMigrated'
  BY DEF LayoutInv, LayoutTypes, MarkerMeansMigrated, Unmigrated, Consolidating, Archiving,
         MoveTree, Goto, Interrupted, Extent, Data
<1>3. FileIsZipped'
  BY DEF LayoutInv, LayoutTypes, MarkerMeansMigrated, FileIsZipped, Consolidating, Archiving,
         MoveTree, Goto, Interrupted, Extent, Data
<1>4. FirstStartMoves'
  <2> SUFFICES ASSUME interruptions' = 0 PROVE FirstStartMoves'
    BY DEF FirstStartMoves
  <2>1. interruptions = 0 /\ had' = had
    BY DEF LayoutInv, LayoutTypes, MoveTree, Interrupted
  <2>2. startup' = "up" => layout' = 1
    BY <2>1 DEF LayoutInv, LayoutTypes, MarkerMeansMigrated, FileIsZipped, FirstStartMoves, TreeStays, TreeIsArchived, Consolidating, Archiving,
             MoveTree, Goto, Interrupted, Extent, Data
  <2>3. ASSUME "file" \in had
        PROVE  /\ current'["file"] \in {"none", "whole"} \/ startup' = "copying file"
               /\ layout' = 1 \/ startup' \in {"tree", "copying tree", "marker"} => current'["file"] = "whole"
    BY <2>1, <2>3 DEF LayoutInv, LayoutTypes, MarkerMeansMigrated, FileIsZipped, FirstStartMoves, TreeStays, TreeIsArchived, Consolidating, Archiving,
             MoveTree, Goto, Interrupted, Extent, Data
  <2>4. ASSUME "tree" \in had
        PROVE  /\ current'["tree"] \in {"none", "whole"} \/ startup' = "copying tree"
               /\ layout' = 1 \/ startup' = "marker" => current'["tree"] = "whole"
    <3>1. legacy["tree"] = "whole" \/ current["tree"] = "whole"
      BY <2>1, <2>4, FirstStartHasTree
    <3>2. layout = 0 /\ layout' = layout /\ (startup = "copying tree" => current["tree"] # "whole")
      BY DEF LayoutInv, MarkerMeansMigrated, Consolidating, MoveTree
    <3>3. current["tree"] \in {"none", "whole"} \/ startup = "copying tree"
      BY <2>1, <2>4 DEF LayoutInv, FirstStartMoves
    <3>4. current \in [Data -> Extent] /\ "tree" \in Data
      BY DEF LayoutInv, LayoutTypes, Data
    <3>5. startup = "tree"
      BY DEF MoveTree
    <3>6. CASE legacy["tree"] # "none" /\ current["tree"] = "none"
      <4>1. \/ current' = [current EXCEPT !["tree"] = legacy["tree"]] /\ startup' = "marker"
            \/ current' = [current EXCEPT !["tree"] = "part"] /\ startup' = "copying tree"
        BY <3>6 DEF MoveTree, Goto
      <4>2. legacy["tree"] = "whole" /\ layout' # 1
        BY <3>1, <3>2, <3>6
      <4>3. CASE current' = [current EXCEPT !["tree"] = legacy["tree"]] /\ startup' = "marker"
        BY <3>4, <4>2, <4>3
      <4>4. CASE current' = [current EXCEPT !["tree"] = "part"] /\ startup' = "copying tree"
        BY <4>2, <4>4
      <4> QED
        BY <4>1, <4>3, <4>4
    <3>7. CASE ~(legacy["tree"] # "none" /\ current["tree"] = "none")
      <4>1. current' = current
        BY <3>7 DEF MoveTree
      <4>2. current["tree"] \in {"none", "whole"}
        BY <3>3, <3>5
      <4>3. current["tree"] = "whole"
        BY <3>1, <3>7, <4>2
      <4> QED
        BY <4>1, <4>3
    <3> QED
      BY <3>6, <3>7
  <2> QED
    BY <2>1, <2>2, <2>3, <2>4 DEF FirstStartMoves
<1>5. TreeStays'
  BY DEF LayoutInv, LayoutTypes, MarkerMeansMigrated, FirstStartMoves, TreeStays, TreeIsArchived,
         Consolidating, Archiving, MoveTree, Goto, Interrupted, Extent, Data
<1> QED
  BY <1>1, <1>2, <1>3, <1>4, <1>5 DEF LayoutInv

LEMMA FinishTreeKeepsInv ==
    ASSUME LayoutInv, FinishTree
    PROVE  LayoutInv'
<1>1. LayoutTypes'
  BY DEF LayoutInv, LayoutTypes, FinishTree, Goto, Interrupted, Extent, Data, Whole
<1>2. MarkerMeansMigrated'
  BY DEF LayoutInv, LayoutTypes, MarkerMeansMigrated, Unmigrated, Consolidating, Archiving,
         FinishTree, Goto, Interrupted, Extent, Data
<1>3. FileIsZipped'
  BY DEF LayoutInv, LayoutTypes, MarkerMeansMigrated, FileIsZipped, Consolidating, Archiving,
         FinishTree, Goto, Interrupted, Extent, Data
<1>4. FirstStartMoves'
  <2> SUFFICES ASSUME interruptions' = 0 PROVE FirstStartMoves'
    BY DEF FirstStartMoves
  <2>1. interruptions = 0 /\ had' = had
    BY DEF LayoutInv, LayoutTypes, FinishTree, Interrupted
  <2>2. startup' = "up" => layout' = 1
    BY <2>1 DEF LayoutInv, LayoutTypes, MarkerMeansMigrated, FileIsZipped, FirstStartMoves, TreeStays, TreeIsArchived, Consolidating, Archiving,
             FinishTree, Goto, Interrupted, Extent, Data
  <2>3. ASSUME "file" \in had
        PROVE  /\ current'["file"] \in {"none", "whole"} \/ startup' = "copying file"
               /\ layout' = 1 \/ startup' \in {"tree", "copying tree", "marker"} => current'["file"] = "whole"
    BY <2>1, <2>3 DEF LayoutInv, LayoutTypes, MarkerMeansMigrated, FileIsZipped, FirstStartMoves, TreeStays, TreeIsArchived, Consolidating, Archiving,
             FinishTree, Goto, Interrupted, Extent, Data
  <2>4. ASSUME "tree" \in had
        PROVE  /\ current'["tree"] \in {"none", "whole"} \/ startup' = "copying tree"
               /\ layout' = 1 \/ startup' = "marker" => current'["tree"] = "whole"
    <3>1. legacy["tree"] = "whole" \/ current["tree"] = "whole"
      BY <2>1, <2>4, FirstStartHasTree
    <3>2. layout = 0 /\ layout' = layout /\ (startup = "copying tree" => current["tree"] # "whole")
      BY DEF LayoutInv, MarkerMeansMigrated, Consolidating, FinishTree
    <3>3. current["tree"] \in {"none", "whole"} \/ startup = "copying tree"
      BY <2>1, <2>4 DEF LayoutInv, FirstStartMoves
    <3>4. current \in [Data -> Extent] /\ "tree" \in Data
      BY DEF LayoutInv, LayoutTypes, Data
    <3> QED
      BY <3>1, <3>2, <3>3, <3>4 DEF FinishTree, Goto
  <2> QED
    BY <2>1, <2>2, <2>3, <2>4 DEF FirstStartMoves
<1>5. TreeStays'
  BY DEF LayoutInv, LayoutTypes, MarkerMeansMigrated, FirstStartMoves, TreeStays, TreeIsArchived,
         Consolidating, Archiving, FinishTree, Goto, Interrupted, Extent, Data
<1> QED
  BY <1>1, <1>2, <1>3, <1>4, <1>5 DEF LayoutInv

LEMMA StepFailsKeepsInv ==
    ASSUME LayoutInv, StepFails
    PROVE  LayoutInv'
<1>1. LayoutTypes'
  BY InterruptionsAreCounted DEF LayoutInv, LayoutTypes, StepFails
<1>2. MarkerMeansMigrated'
  BY DEF LayoutInv, LayoutTypes, MarkerMeansMigrated, Unmigrated, Consolidating, Archiving,
         StepFails, Goto, Interrupted, Extent, Data
<1>3. FileIsZipped'
  BY DEF LayoutInv, LayoutTypes, MarkerMeansMigrated, FileIsZipped, Consolidating, Archiving,
         StepFails, Goto, Interrupted, Extent, Data
<1>4. FirstStartMoves'
  <2>1. interruptions' # 0
    BY InterruptionsAreCounted DEF StepFails
  <2> QED
    BY <2>1 DEF FirstStartMoves
<1>5. TreeStays'
  <2>1. layout = 0 /\ UNCHANGED <<legacy, current, had>>
    BY DEF LayoutInv, MarkerMeansMigrated, Consolidating, StepFails
  <2>2. interruptions \in Nat /\ interruptions' = interruptions + 1
    BY InterruptionsAreCounted DEF StepFails
  <2>3. interruptions' < 2 => interruptions < 2
    BY <2>2
  <2>4. ~TreeIsArchived
    BY <2>1 DEF TreeIsArchived
  <2> QED
    BY <2>1, <2>3, <2>4 DEF LayoutInv, TreeStays
<1> QED
  BY <1>1, <1>2, <1>3, <1>4, <1>5 DEF LayoutInv

LEMMA WriteMarkerKeepsInv ==
    ASSUME LayoutInv, WriteMarker
    PROVE  LayoutInv'
<1>1. LayoutTypes'
  BY DEF LayoutInv, LayoutTypes, WriteMarker, Goto, Interrupted, Extent, Data, Whole
<1>2. MarkerMeansMigrated'
  BY DEF LayoutInv, LayoutTypes, MarkerMeansMigrated, Unmigrated, Consolidating, Archiving,
         WriteMarker, Goto, Interrupted, Extent, Data
<1>3. FileIsZipped'
  BY DEF LayoutInv, LayoutTypes, MarkerMeansMigrated, FileIsZipped, Consolidating, Archiving,
         WriteMarker, Goto, Interrupted, Extent, Data
<1>4. FirstStartMoves'
  BY DEF LayoutInv, LayoutTypes, MarkerMeansMigrated, FileIsZipped, FirstStartMoves, Consolidating, Archiving,
         WriteMarker, Goto, Interrupted, Extent, Data
<1>5. TreeStays'
  BY DEF LayoutInv, LayoutTypes, MarkerMeansMigrated, FirstStartMoves, TreeStays, TreeIsArchived,
         Consolidating, Archiving, WriteMarker, Goto, Interrupted, Extent, Data
<1> QED
  BY <1>1, <1>2, <1>3, <1>4, <1>5 DEF LayoutInv

LEMMA ArchiveRuntimeKeepsInv ==
    ASSUME LayoutInv, ArchiveRuntime
    PROVE  LayoutInv'
<1>a. /\ startup = "archive" /\ layout = 1 /\ UNCHANGED <<current, logShell, layout, zips, had>>
      /\ ~Unmigrated /\ startup' \in {"log too", "log first"}
  BY DEF LayoutInv, MarkerMeansMigrated, Archiving, ArchiveRuntime, Goto
<1>b. \/ /\ archives' = Append(archives, Whole(legacy)) /\ legacy' = [d \in Data |-> "none"]
         /\ startup' = IF \E d \in Data : legacy[d] # "none" THEN "log too" ELSE "log first"
         /\ interruptions' = interruptions
      \/ /\ interruptions' = interruptions + 1
         /\ \/ archives' = Append(archives, {}) /\ legacy' = legacy
            \/ /\ archives' = Append(archives, Whole(legacy))
               /\ \E left \in {"none", "part"} :
                     legacy' = [d \in Data |-> IF legacy[d] = "none" THEN "none" ELSE left]
  BY DEF ArchiveRuntime, Goto, Interrupted
<1>c. legacy \in [Data -> Extent] /\ archives \in Seq(SUBSET Data) /\ interruptions \in Nat
  BY DEF LayoutInv, LayoutTypes
<1>d. Whole(legacy) \in SUBSET Data
  BY DEF Whole
<1>e. archives' \in Seq(SUBSET Data) /\ archives' # <<>>
  <2>1. \A x \in SUBSET Data : Append(archives, x) \in Seq(SUBSET Data) /\ Append(archives, x) # <<>>
    BY <1>c
  <2> QED
    BY <1>b, <1>d, <2>1
<1>f. interruptions' \in Nat /\ (interruptions' = 0 => interruptions = 0)
  BY <1>c, InterruptionsAreCounted DEF ArchiveRuntime
<1>1. LayoutTypes'
  <2>2. legacy' \in [Data -> Extent]
    BY <1>b, <1>c DEF Extent
  <2> QED
    BY <1>a, <1>e, <1>f, <2>2 DEF LayoutInv, LayoutTypes
<1>2. MarkerMeansMigrated'
  <2>2. \A d \in Data : legacy[d] = "none" => legacy'[d] = "none"
    BY <1>b, <1>c
  <2>3. ~Unmigrated'
    BY <1>a, <2>2 DEF Unmigrated
  <2> QED
    BY <1>a, <1>e, <2>3 DEF MarkerMeansMigrated, Consolidating, Archiving
<1>3. FileIsZipped'
  <2>1. layout = 1 /\ UNCHANGED <<layout, zips, had>>
    BY <1>a
  <2> QED
    BY <2>1 DEF LayoutInv, FileIsZipped
<1>4. FirstStartMoves'
  <2> QED
    BY <1>a, <1>f DEF LayoutInv, FirstStartMoves
<1>5. TreeStays'
  <2> SUFFICES ASSUME "tree" \in had, interruptions' < 2
               PROVE  current["tree"] = "whole" \/ TreeIsArchived'
    BY <1>a DEF TreeStays
  <2>1. CASE interruptions' = interruptions + 1
    <3>1. interruptions = 0
      BY <1>c, <2>1
    <3> QED
      BY <1>a, <3>1 DEF LayoutInv, FirstStartMoves
  <2>2. CASE interruptions' = interruptions
    <3>1. current["tree"] = "whole" \/ legacy["tree"] = "whole"
      BY <1>a, <2>2 DEF LayoutInv, TreeStays, TreeIsArchived
    <3>2. ASSUME legacy["tree"] = "whole" PROVE TreeIsArchived'
      <4>1. "tree" \in Whole(legacy) /\ "tree" \in Data
        BY <3>2 DEF Whole, Data
      <4>2. /\ archives' = Append(archives, Whole(legacy)) /\ legacy' = [d \in Data |-> "none"]
            /\ startup' = IF \E d \in Data : legacy[d] # "none" THEN "log too" ELSE "log first"
        <5>1. interruptions' # interruptions + 1
          BY <1>c, <2>2
        <5> QED
          BY <1>b, <5>1
      <4>3. \E d \in Data : legacy[d] # "none"
        BY <3>2, <4>1
      <4>4. archives' # <<>> /\ archives'[Len(archives')] = Whole(legacy)
        <5>1. ASSUME NEW x \in SUBSET Data
              PROVE  Append(archives, x) # <<>> /\ Append(archives, x)[Len(Append(archives, x))] = x
          BY <1>c, AppendProperties
        <5> QED
          BY <1>d, <4>2, <5>1
      <4> QED
        BY <1>a, <4>1, <4>2, <4>3, <4>4 DEF TreeIsArchived, Data
    <3> QED
      BY <3>1, <3>2
  <2> QED
    BY <1>b, <2>1, <2>2
<1> QED
  BY <1>1, <1>2, <1>3, <1>4, <1>5 DEF LayoutInv

LEMMA ArchiveLogKeepsInv ==
    ASSUME LayoutInv, ArchiveLog
    PROVE  LayoutInv'
<1>1. LayoutTypes'
  <2>1. archives' \in Seq(SUBSET Data)
    <3>1. archives' = archives \/ (startup = "log first" /\ archives' = Front(archives))
      BY DEF ArchiveLog
    <3>2. startup = "log first" => archives # <<>>
      BY DEF LayoutInv, MarkerMeansMigrated
    <3>3. archives \in Seq(SUBSET Data)
      BY DEF LayoutInv, LayoutTypes
    <3>4. archives # <<>> => Front(archives) \in Seq(SUBSET Data)
      BY <3>3 DEF Front
    <3> QED
      BY <3>1, <3>2, <3>3, <3>4
  <2>2. logShell' \in BOOLEAN /\ interruptions' \in Nat
    <3>1. logShell \in BOOLEAN
      BY DEF LayoutInv, LayoutTypes
    <3> QED
      BY <3>1, InterruptionsAreCounted DEF ArchiveLog
  <2> QED
    BY <2>1, <2>2 DEF LayoutInv, LayoutTypes, ArchiveLog
<1>2. MarkerMeansMigrated'
  BY DEF LayoutInv, LayoutTypes, MarkerMeansMigrated, Unmigrated, Consolidating, Archiving,
         ArchiveLog, Goto, Interrupted, Extent, Data
<1>3. FileIsZipped'
  BY DEF LayoutInv, LayoutTypes, MarkerMeansMigrated, FileIsZipped, Consolidating, Archiving,
         ArchiveLog, Goto, Interrupted, Extent, Data
<1>4. FirstStartMoves'
  <2>1. interruptions' = 0 => interruptions = 0
    BY InterruptionsAreCounted DEF ArchiveLog
  <2>2. layout = 1 /\ startup' = "prune" /\ UNCHANGED <<layout, current, had>>
    BY DEF LayoutInv, MarkerMeansMigrated, Archiving, ArchiveLog, Goto
  <2> QED
    BY <2>1, <2>2 DEF LayoutInv, FirstStartMoves
<1>5. TreeStays'
  <2>1. \/ interruptions' = interruptions /\ logShell' = FALSE
        \/ interruptions' = interruptions + 1
    BY DEF ArchiveLog, Interrupted
  <2>2. layout = 1 /\ startup' = "prune" /\ UNCHANGED <<layout, legacy, current, had>>
    BY DEF LayoutInv, MarkerMeansMigrated, Archiving, ArchiveLog, Goto
  <2>3. /\ startup \in {"log too", "log first"}
        /\ startup = "log too" => archives' = archives
    BY DEF ArchiveLog
  <2>4. interruptions \in Nat
    BY InterruptionsAreCounted
  <2>5. CASE interruptions' = interruptions + 1
    <3>1. interruptions' < 2 => interruptions = 0
      BY <2>4, <2>5
    <3> QED
      BY <2>2, <3>1 DEF LayoutInv, FirstStartMoves, TreeStays
  <2>6. CASE interruptions' = interruptions /\ logShell' = FALSE
    BY <2>2, <2>3, <2>6 DEF LayoutInv, TreeStays, TreeIsArchived
  <2> QED
    BY <2>1, <2>5, <2>6
<1> QED
  BY <1>1, <1>2, <1>3, <1>4, <1>5 DEF LayoutInv

LEMMA PruneArchivesKeepsInv ==
    ASSUME LayoutInv, PruneArchives
    PROVE  LayoutInv'
<1>a. /\ archives' \in Seq(SUBSET Data)
      /\ archives # <<>> => archives' # <<>> /\ archives'[Len(archives')] = archives[Len(archives)]
  BY LastFewKeepsLast, KeepZipsAssumption DEF LayoutInv, LayoutTypes, PruneArchives
<1>1. LayoutTypes'
  BY <1>a DEF LayoutInv, LayoutTypes, PruneArchives, Goto
<1>2. MarkerMeansMigrated'
  BY DEF LayoutInv, LayoutTypes, MarkerMeansMigrated, Unmigrated, Consolidating, Archiving,
         PruneArchives, Goto, Interrupted, Extent, Data
<1>3. FileIsZipped'
  BY DEF LayoutInv, LayoutTypes, MarkerMeansMigrated, FileIsZipped, Consolidating, Archiving,
         PruneArchives, Goto, Interrupted, Extent, Data
<1>4. FirstStartMoves'
  BY DEF LayoutInv, LayoutTypes, MarkerMeansMigrated, FileIsZipped, FirstStartMoves, Consolidating, Archiving,
         PruneArchives, Goto, Interrupted, Extent, Data
<1>5. TreeStays'
  BY <1>a DEF LayoutInv, LayoutTypes, TreeStays, TreeIsArchived, PruneArchives, Goto
<1> QED
  BY <1>1, <1>2, <1>3, <1>4, <1>5 DEF LayoutInv

LEMMA DieKeepsInv ==
    ASSUME LayoutInv, Die
    PROVE  LayoutInv'
<1>1. LayoutTypes'
  BY DEF LayoutInv, LayoutTypes, Die, Goto, Interrupted, Extent, Data, Whole
<1>2. MarkerMeansMigrated'
  BY DEF LayoutInv, LayoutTypes, MarkerMeansMigrated, Unmigrated, Consolidating, Archiving,
         Die, Goto, Interrupted, Extent, Data
<1>3. FileIsZipped'
  BY DEF LayoutInv, LayoutTypes, MarkerMeansMigrated, FileIsZipped, Consolidating, Archiving,
         Die, Goto, Interrupted, Extent, Data
<1>4. FirstStartMoves'
  <2>1. startup' = "look" /\ UNCHANGED <<current, layout, had>>
    BY DEF Die, Goto
  <2>2. interruptions' = 0 => interruptions = 0 /\ startup = "up"
    BY DEF LayoutInv, LayoutTypes, Die, Interrupted
  <2> QED
    BY <2>1, <2>2 DEF LayoutInv, FirstStartMoves
<1>5. TreeStays'
  <2>1. startup' = "look" /\ UNCHANGED <<legacy, current, layout, archives, logShell, had>>
    BY DEF Die, Goto
  <2>2. \/ interruptions' = interruptions /\ startup = "up"
        \/ interruptions' = interruptions + 1
    BY DEF Die, Interrupted
  <2>3. interruptions \in Nat
    BY InterruptionsAreCounted
  <2>4. CASE interruptions' = interruptions /\ startup = "up"
    BY <2>1, <2>4 DEF LayoutInv, TreeStays, TreeIsArchived
  <2>5. CASE interruptions' = interruptions + 1
    <3>1. interruptions' < 2 => interruptions = 0
      BY <2>3, <2>5
    <3>2. interruptions = 0 /\ "tree" \in had => legacy["tree"] = "whole" \/ current["tree"] = "whole"
      BY FirstStartHasTree
    <3> QED
      BY <2>1, <3>1, <3>2 DEF TreeStays
  <2> QED
    BY <2>2, <2>4, <2>5
<1> QED
  BY <1>1, <1>2, <1>3, <1>4, <1>5 DEF LayoutInv

\* The conjuncts hold together in every reachable state.
THEOREM LayoutInvariance == LayoutSpec => []LayoutInv
<1>1. LayoutInv /\ [LayoutNext]_layoutVars => LayoutInv'
  <2> SUFFICES ASSUME LayoutInv, [LayoutNext]_layoutVars PROVE LayoutInv'
    OBVIOUS
  <2>1. CASE Look
    BY <2>1, LookKeepsInv
  <2>2. CASE OpenZip
    BY <2>2, OpenZipKeepsInv
  <2>3. CASE FinishZip
    BY <2>3, FinishZipKeepsInv
  <2>4. CASE ZipFails
    BY <2>4, ZipFailsKeepsInv
  <2>5. CASE CopyFile
    BY <2>5, CopyFileKeepsInv
  <2>6. CASE FinishFile
    BY <2>6, FinishFileKeepsInv
  <2>7. CASE MoveTree
    BY <2>7, MoveTreeKeepsInv
  <2>8. CASE FinishTree
    BY <2>8, FinishTreeKeepsInv
  <2>9. CASE StepFails
    BY <2>9, StepFailsKeepsInv
  <2>10. CASE WriteMarker
    BY <2>10, WriteMarkerKeepsInv
  <2>11. CASE ArchiveRuntime
    BY <2>11, ArchiveRuntimeKeepsInv
  <2>12. CASE ArchiveLog
    BY <2>12, ArchiveLogKeepsInv
  <2>13. CASE PruneArchives
    BY <2>13, PruneArchivesKeepsInv
  <2>14. CASE Die
    BY <2>14, DieKeepsInv
  <2>15. CASE UNCHANGED layoutVars
    <3>1. UNCHANGED <<legacy, current, logShell, layout, zips, archives, startup, interruptions, had>>
      BY <2>15 DEF layoutVars
    <3>2. LayoutTypes' /\ MarkerMeansMigrated'
      BY <3>1 DEF LayoutInv, LayoutTypes, MarkerMeansMigrated, Unmigrated
    <3>3. FileIsZipped' /\ FirstStartMoves'
      BY <3>1 DEF LayoutInv, FileIsZipped, FirstStartMoves
    <3>4. TreeStays'
      BY <3>1 DEF LayoutInv, TreeStays, TreeIsArchived
    <3> QED
      BY <3>2, <3>3, <3>4 DEF LayoutInv
  <2> QED
    BY <2>1, <2>2, <2>3, <2>4, <2>5, <2>6, <2>7, <2>8, <2>9, <2>10, <2>11, <2>12, <2>13, <2>14, <2>15 DEF LayoutNext
<1> QED
  BY LayoutInitInv, <1>1, PTL DEF LayoutSpec

\* Type correctness of the two layouts, the zips and the archives.
THEOREM LayoutTypeCorrect == LayoutSpec => []LayoutTypeOK
<1>1. LayoutInv => LayoutTypeOK
  BY DEF LayoutInv, LayoutTypes, LayoutTypeOK, Range
<1> QED
  BY LayoutInvariance, <1>1, PTL

\* However often starts fail or die (consolidate.rs): the configuration stays
\* in the old layout until the marker and in a zip after it, for every number
\* of zips and archives that are kept; the installation survives one
\* interruption, and an uninterrupted start has moved everything.
THEOREM DataIsKeptCorrect == LayoutSpec => []DataIsKept
<1>1. LayoutInv => DataIsKept
  <2> SUFFICES ASSUME LayoutInv, NEW d \in had
               PROVE  /\ (startup = "up" /\ interruptions = 0) => current[d] = "whole"
                      /\ (d = "file" \/ interruptions < 2) => Kept(d)
    BY DEF DataIsKept
  <2>1. d \in {"file", "tree"} /\ Data = {"file", "tree"}
    BY DEF LayoutInv, LayoutTypes, Data
  <2>2. (startup = "up" /\ interruptions = 0) => current[d] = "whole"
    BY <2>1 DEF LayoutInv, FirstStartMoves
  <2>3. ASSUME NEW q \in Seq(SUBSET Data), q # <<>>, d \in q[Len(q)]
        PROVE  d \in UNION Range(q)
    <3>1. Len(q) \in DOMAIN q
      BY <2>3
    <3> QED
      BY <2>3, <3>1 DEF Range
  <2>4. CASE d = "file"
    <3>1. layout = 0 => d \in Whole(legacy)
      BY <2>1, <2>4 DEF LayoutInv, FileIsZipped, Whole
    <3>2. layout = 1 => d \in UNION Range(zips)
      BY <2>3, <2>4 DEF LayoutInv, LayoutTypes, FileIsZipped
    <3>3. Kept(d)
      BY <3>1, <3>2 DEF LayoutInv, LayoutTypes, Kept
    <3> QED
      BY <2>2, <3>3
  <2>5. CASE d = "tree"
    <3>1. interruptions < 2 => d \in Whole(legacy) \cup Whole(current) \/ TreeIsArchived
      BY <2>1, <2>5 DEF LayoutInv, TreeStays, Whole
    <3>2. TreeIsArchived => d \in UNION Range(archives)
      BY <2>3, <2>5 DEF LayoutInv, LayoutTypes, TreeIsArchived
    <3>3. (interruptions < 2) => Kept(d)
      BY <3>1, <3>2 DEF Kept
    <3> QED
      BY <2>2, <2>5, <3>3
  <2> QED
    BY <2>1, <2>4, <2>5
<1> QED
  BY LayoutInvariance, <1>1, PTL

-----------------------------------------------------------------------------
(* The configuration files.                                                *)

\* A file holds what was there before the first request, or came with one.
Contents == SUBSET (0 .. begun + 9)

Txns == [kind : Kind \cup {"none"},
         at : {"rest", "open", "snapshot", "move", "install", "delete", "undo", "failed"},
         payload : Contents, stamp : 0 .. second, done : 0 .. 2,
         removed : SUBSET ConfigFile, moved : BOOLEAN, clash : BOOLEAN,
         before : {<<>>} \cup [{"bot"} -> Contents] \cup [{"report"} -> Contents]
                         \cup [{"onebot", "napcat"} -> Contents]]

FileTypes ==
    /\ disk \in [ConfigFile -> Contents]
    /\ baks \in [ConfigFile -> Seq(Contents \ {{}})]
    /\ \A s \in DOMAIN backups :
          s \in 1 .. second /\ backups[s] \in [users : Nat, copy : [ConfigFile -> Contents]]
    /\ txn \in [AllWriters -> Txns]
    /\ listed \in Contents \cup {NotLoaded}
    /\ running \in BOOLEAN
    /\ begun \in 0 .. MaxTransactions /\ second \in Nat \ {0} /\ replaced \in Nat
    /\ harm \subseteq {"torn", "imported", "unreported"}
    /\ acked \subseteq 10 .. begun + 9

\* Where a transaction of each kind can be, and how far it is there.
OneFile == {"save", "import", "migrate", "report"}

Follows(t) ==
    /\ t.kind = "none" => t = Resting
    /\ t.kind # "none" =>
          t.at # "rest" /\ t.payload # {} /\ DOMAIN t.before = Files(t.kind)
    /\ t.kind \in OneFile =>
          t.removed = {} /\ t.done = IF t.at = "delete" THEN 1 ELSE 0
    /\ t.kind = "report" => t.at \notin {"open", "snapshot"}
    /\ t.kind = "render" =>
          /\ t.removed = {}
          /\ t.at \in {"open", "snapshot"} => t.done = 0
          /\ t.at \in {"move", "install", "undo"} => t.done < 2
          /\ t.at = "delete" => t.done = 2
    /\ t.kind = "clean" =>
          /\ t.at \notin {"move", "install"} /\ t.removed \subseteq Files("clean")
          /\ t.at \in {"open", "snapshot"} => t.done = 0 /\ t.removed = {}
          /\ t.at = "undo" => t.done < 2
          /\ t.done = 0 => t.removed = {}

\* The application is up, or the start-up writes, or nobody does.
WhoWrites ==
    /\ \A w \in AllWriters : Follows(txn[w])
    /\ txn[Boot].kind \in {"none", "migrate", "report"}
    /\ \A w \in ConfigWriters : txn[w].kind \in {"none", "save", "render", "clean", "import"}
    /\ running => txn[Boot] = Resting
    /\ ~running => listed = NotLoaded /\ \A w \in ConfigWriters : txn[w] = Resting
    /\ \A v, w \in AllWriters : txn[v].kind = "save" /\ txn[w].kind = "save" => v = w
    /\ \A w \in AllWriters :
          txn[w].kind = "import" /\ txn[w].at \in {"install", "delete"} => "imported" \in harm

\* A save works from the list in the cache.
SaveIsOfTheList ==
    \A w \in AllWriters : txn[w].kind = "save" =>
        /\ listed # NotLoaded
        /\ \E k \in 10 .. begun + 9 : txn[w].payload = listed \cup {k} /\ \A j \in listed : j < k

\* The writer of bot.json that has bot.json in its hands.
Holds(w) == txn[w].kind \in {"save", "migrate"} /\ txn[w].at = "install"
HasWritten(w) == txn[w].kind \in {"save", "migrate"} /\ txn[w].at = "delete"

\* Without a report on disk nothing was ever acknowledged; a report that is
\* being replaced is the last of its siblings.
ReportIsThere ==
    /\ \A w \in AllWriters : txn[w].kind = "report" /\ txn[w].at = "install" =>
          /\ disk["report"] = {}
          /\ txn[w].moved => baks["report"] # <<>>
    /\ (harm = {} /\ disk["report"] = {}) =>
          \/ acked = {} /\ ~running
          \/ \E w \in AllWriters : txn[w].kind = "report" /\ txn[w].at = "install" /\ txn[w].moved
    /\ harm = {} => \A w \in AllWriters : txn[w].kind = "migrate" => acked = {}

\* What nobody holds has every acknowledged save; what a save holds is the
\* newest sibling, and what it has written is its list.
ListIsKept ==
    /\ \A w \in AllWriters : Holds(w) /\ "imported" \notin harm => disk["bot"] = {}
    /\ \A w \in AllWriters : HasWritten(w) /\ "imported" \notin harm => disk["bot"] = txn[w].payload
    /\ harm = {} =>
          /\ (\A w \in AllWriters : ~Holds(w) /\ ~HasWritten(w)) =>
                acked \subseteq disk["bot"] /\ listed \in {NotLoaded, disk["bot"]}
          /\ \A w \in AllWriters : txn[w].kind = "save" /\ txn[w].at = "install" =>
                /\ acked \subseteq listed
                /\ txn[w].moved => baks["bot"] # <<>> /\ Last(baks["bot"]) = listed
                /\ ~txn[w].moved => listed = {}
          /\ \A w \in AllWriters : txn[w].kind = "save" /\ txn[w].at = "delete" =>
                acked \subseteq listed

\* After a torn crash the acknowledged saves are in bot.json and in as many
\* of its newest siblings as lists have been installed since.
Behind == IF disk["bot"] = {} THEN replaced + 1 ELSE replaced
NewestOf(seq, n) == UNION {seq[i] : i \in {j \in DOMAIN seq : j > Len(seq) - n}}

TornIsRecovered ==
    /\ "torn" \notin harm => replaced = 0
    /\ (harm = {"torn"} /\ replaced <= KeepBaks) =>
          acked \subseteq disk["bot"] \cup NewestOf(baks["bot"], Behind)

\* Two transactions that touch one file know of each other.
RivalsClash ==
    \A v, w \in AllWriters :
        (v # w /\ Files(txn[v].kind) \cap Files(txn[w].kind) # {}) => txn[w].clash

\* A file that a transaction has not come to is as it was; the one it is at
\* is the newest sibling; the ones it has deleted were there.
AsBefore(w) ==
    \A f \in Files(txn[w].kind) :
        /\ (f \notin Written(w) \cup txn[w].removed
            /\ ~(txn[w].at = "install" /\ f = WriteAt(w))) => disk[f] = txn[w].before[f]
        /\ txn[w].at = "install" /\ f = WriteAt(w) =>
              /\ disk[f] = {} /\ txn[w].moved = (txn[w].before[f] # {})
              /\ txn[w].moved => baks[f] # <<>> /\ Last(baks[f]) = txn[w].before[f]
        /\ f \in txn[w].removed => txn[w].before[f] # {}

\* The transaction has made its copies, in the directory of its second.
Copied(w) ==
    /\ txn[w].kind \notin {"none", "report"}
    /\ txn[w].at \in {"move", "install", "delete", "undo", "failed"}

\* A directory that is gone does not come back, one that nobody has used is
\* empty, and one that a single transaction has used holds what was there
\* before it.
CopiesAreBefore ==
    /\ \A w \in AllWriters :
          /\ (txn[w].kind \notin {"none", "report"} /\ txn[w].at # "open" /\ txn[w].stamp \notin DOMAIN backups)
                => txn[w].stamp < second
          /\ (Copied(w) /\ txn[w].stamp \in DOMAIN backups) =>
                /\ backups[txn[w].stamp].users # 0
                /\ (backups[txn[w].stamp].users = 1 /\ ~txn[w].clash) =>
                      \A f \in Files(txn[w].kind) :
                         backups[txn[w].stamp].copy[f] = txn[w].before[f]
    /\ \A s \in DOMAIN backups :
          backups[s].users = 0 => backups[s].copy = [f \in ConfigFile |-> {}]

FilesInv ==
    /\ FileTypes /\ WhoWrites /\ SaveIsOfTheList
    /\ ReportIsThere /\ ListIsKept /\ TornIsRecovered
    /\ RivalsClash /\ (\A w \in AllWriters : ~txn[w].clash => AsBefore(w))
    /\ CopiesAreBefore

LEMMA FilesOfKind ==
    /\ Files("none") = {}
    /\ Files("save") = {"bot"} /\ Files("import") = {"bot"} /\ Files("migrate") = {"bot"}
    /\ Files("render") = {"onebot", "napcat"}
    /\ Files("report") = {"report"}
    /\ Files("clean") = {"onebot", "napcat"}
<1>1. Range(<<>>) = {} /\ Range(<<"bot">>) = {"bot"} /\ Range(<<"report">>) = {"report"}
  BY DEF Range
<1>2. Range(<<"onebot", "napcat">>) = {"onebot", "napcat"}
  BY DEF Range
<1> QED
  BY <1>1, <1>2 DEF Files, Writes, Deletes

\* Which file a writer is at, and which it has written.
LEMMA WriteOfKind ==
    ASSUME NEW w \in AllWriters, txn[w] \in Txns, Follows(txn[w])
    PROVE  /\ txn[w].kind \in OneFile /\ txn[w].done = 0 =>
                  /\ WriteAt(w) \in Files(txn[w].kind) /\ Files(txn[w].kind) = {WriteAt(w)}
                  /\ MoreWrites(txn[w].kind, 0) /\ ~MoreWrites(txn[w].kind, 1)
           /\ txn[w].kind = "render" =>
                  /\ txn[w].done = 0 => WriteAt(w) = "onebot"
                  /\ txn[w].done = 1 => WriteAt(w) = "napcat"
                  /\ MoreWrites("render", 0) /\ MoreWrites("render", 1) /\ ~MoreWrites("render", 2)
           /\ txn[w].kind = "clean" => ~MoreWrites("clean", 0)
BY FilesOfKind DEF WriteAt, Writes, MoreWrites, OneFile

LEMMA WrittenOfKind ==
    ASSUME NEW w \in AllWriters, txn[w] \in Txns, Follows(txn[w])
    PROVE  /\ txn[w].done = 0 => Written(w) = {}
           /\ txn[w].kind \in {"none", "clean"} => Written(w) = {}
           /\ txn[w].kind \in OneFile /\ txn[w].done = 1 => Written(w) = Files(txn[w].kind)
           /\ txn[w].kind = "render" /\ txn[w].done = 1 => Written(w) = {"onebot"}
           /\ txn[w].kind = "render" /\ txn[w].done = 2 => Written(w) = {"onebot", "napcat"}
           /\ Written(w) \subseteq Files(txn[w].kind)
<1>1. txn[w].done = 0 => Written(w) = {}
  BY DEF Written
<1>2. txn[w].kind \in {"none", "clean"} => Written(w) = {}
  BY DEF Written, Writes
<1>3. txn[w].kind \in OneFile /\ txn[w].done = 1 => Written(w) = Files(txn[w].kind)
  BY FilesOfKind DEF Written, Writes, OneFile
<1>4. txn[w].kind = "render" /\ txn[w].done = 1 => Written(w) = {"onebot"}
  BY DEF Written, Writes
<1>5. txn[w].kind = "render" /\ txn[w].done = 2 => Written(w) = {"onebot", "napcat"}
  BY DEF Written, Writes
<1>6. txn[w].kind \in OneFile \cup {"render", "none", "clean"} /\ txn[w].done \in {0, 1, 2}
  BY DEF Txns, Kind, OneFile
<1>7. txn[w].kind \in OneFile => txn[w].done # 2
  BY DEF Follows
<1> QED
  BY <1>1, <1>2, <1>3, <1>4, <1>5, <1>6, <1>7, FilesOfKind

LEMMA DeleteOfKind ==
    ASSUME NEW w \in AllWriters, txn[w] \in Txns, Follows(txn[w]), At(w, "delete")
    PROVE  /\ txn[w].done < Len(Deletes(txn[w].kind)) =>
                  /\ txn[w].kind = "clean" /\ txn[w].done < 2
                  /\ txn[w].done = 0 => DeleteAt(w) = "onebot"
                  /\ txn[w].done = 1 => DeleteAt(w) = "napcat"
BY DEF Follows, Deletes, DeleteAt, At, OneFile, Txns, Kind, Resting

-----------------------------------------------------------------------------
\* A step of a transaction: it stays the transaction it was, and no file but
\* its own changes.
OwnStep(w) ==
    /\ txn' = [txn EXCEPT ![w] = txn'[w]]
    /\ txn'[w].kind = txn[w].kind /\ txn'[w].payload = txn[w].payload
    /\ txn'[w].before = txn[w].before /\ txn'[w].clash = txn[w].clash
    /\ txn[w].kind # "none"
    /\ \A f \in ConfigFile \ Files(txn[w].kind) : disk'[f] = disk[f] /\ baks'[f] = baks[f]
    /\ listed' = listed /\ running' = running /\ begun' = begun /\ acked' = acked /\ second' = second
    /\ harm \subseteq harm'

\* What no step of a transaction disturbs.
LEMMA OwnStepKeepsWriters ==
    ASSUME FilesInv, NEW w \in AllWriters, OwnStep(w), Follows(txn'[w]),
           txn[w].kind = "import" /\ txn'[w].at \in {"install", "delete"} => "imported" \in harm'
    PROVE  WhoWrites' /\ SaveIsOfTheList' /\ RivalsClash'
<1>1. \A v \in AllWriters \ {w} : txn'[v] = txn[v]
  BY DEF FilesInv, FileTypes, OwnStep
<1>2. \A v \in AllWriters : txn'[v].kind = txn[v].kind /\ txn'[v].payload = txn[v].payload /\ txn'[v].clash = txn[v].clash
  BY <1>1 DEF OwnStep
<1>3. w = Boot => running = FALSE
  BY DEF FilesInv, WhoWrites, OwnStep, Resting, FileTypes
<1>4. w \in ConfigWriters => running = TRUE
  BY DEF FilesInv, WhoWrites, OwnStep, Resting, FileTypes
<1>5. WhoWrites'
  <2>1. \A v \in AllWriters : Follows(txn'[v])
    BY <1>1 DEF FilesInv, WhoWrites
  <2>2. running' => txn'[Boot] = Resting
    BY <1>1, <1>3 DEF FilesInv, WhoWrites, OwnStep, AllWriters
  <2>3. ~running' => listed' = NotLoaded /\ \A v \in ConfigWriters : txn'[v] = Resting
    BY <1>1, <1>4 DEF FilesInv, WhoWrites, OwnStep, AllWriters
  <2>4. \A v \in AllWriters :
           txn'[v].kind = "import" /\ txn'[v].at \in {"install", "delete"} => "imported" \in harm'
    BY <1>1, <1>2 DEF FilesInv, WhoWrites, OwnStep
  <2>5. txn'[Boot].kind \in {"none", "migrate", "report"}
    BY <1>2 DEF FilesInv, WhoWrites, AllWriters
  <2>6. \A v \in ConfigWriters : txn'[v].kind \in {"none", "save", "render", "clean", "import"}
    BY <1>2 DEF FilesInv, WhoWrites, AllWriters
  <2>7. \A u, v \in AllWriters : txn'[u].kind = "save" /\ txn'[v].kind = "save" => u = v
    BY <1>2 DEF FilesInv, WhoWrites
  <2> QED
    BY <2>1, <2>2, <2>3, <2>4, <2>5, <2>6, <2>7 DEF WhoWrites
<1>6. SaveIsOfTheList'
  BY <1>2 DEF FilesInv, SaveIsOfTheList, OwnStep
<1>7. RivalsClash'
  BY <1>2 DEF FilesInv, RivalsClash
<1> QED
  BY <1>5, <1>6, <1>7

LEMMA OwnStepKeepsOthers ==
    ASSUME FilesInv, NEW w \in AllWriters, OwnStep(w), ~txn[w].clash => AsBefore(w)'
    PROVE  \A v \in AllWriters : ~txn'[v].clash => AsBefore(v)'
<1> SUFFICES ASSUME NEW v \in AllWriters, v # w, ~txn'[v].clash PROVE AsBefore(v)'
  BY DEF OwnStep
<1>1. txn'[v] = txn[v]
  BY DEF FilesInv, FileTypes, OwnStep
<1>2. Written(v)' = Written(v) /\ WriteAt(v)' = WriteAt(v)
  BY <1>1 DEF Written, WriteAt
<1>3. \A f \in Files(txn[v].kind) : f \in ConfigFile \ Files(txn[w].kind)
  <2>1. Files(txn[v].kind) \cap Files(txn[w].kind) = {}
    BY <1>1 DEF FilesInv, RivalsClash
  <2>2. txn[v].kind \in Kind \cup {"none"}
    BY DEF FilesInv, FileTypes, Txns
  <2>3. Files(txn[v].kind) \subseteq ConfigFile
    BY <2>2, FilesOfKind DEF Kind, ConfigFile
  <2> QED
    BY <2>1, <2>3
<1>4. \A f \in Files(txn[v].kind) : disk'[f] = disk[f] /\ baks'[f] = baks[f]
  BY <1>3 DEF OwnStep
<1>5. AsBefore(v)
  BY <1>1 DEF FilesInv
<1> QED
  BY <1>1, <1>2, <1>4, <1>5 DEF AsBefore

LEMMA OwnStepKeepsCopies ==
    ASSUME FilesInv, NEW w \in AllWriters, OwnStep(w), UNCHANGED backups,
           txn'[w].stamp = txn[w].stamp, txn[w].at \in {"move", "install", "delete", "undo", "failed"}
    PROVE  CopiesAreBefore'
<1>1. \A v \in AllWriters \ {w} : txn'[v] = txn[v]
  BY DEF FilesInv, FileTypes, OwnStep
<1>2. \A v \in AllWriters : Copied(v)' => Copied(v)
  BY <1>1 DEF Copied, OwnStep
<1>3. \A v \in AllWriters : /\ txn'[v].kind = txn[v].kind /\ txn'[v].before = txn[v].before
                            /\ txn'[v].clash = txn[v].clash /\ txn'[v].stamp = txn[v].stamp
                            /\ txn'[v].at # "open" => txn[v].at # "open"
  BY <1>1 DEF OwnStep
<1>4. backups' = backups /\ second' = second
  BY DEF OwnStep
<1>5. ASSUME NEW v \in AllWriters, txn'[v].kind \notin {"none", "report"}, txn'[v].at # "open",
             txn'[v].stamp \notin DOMAIN backups'
      PROVE  txn'[v].stamp < second'
  BY <1>3, <1>4, <1>5 DEF FilesInv, CopiesAreBefore
<1>6. ASSUME NEW v \in AllWriters, Copied(v)', txn'[v].stamp \in DOMAIN backups'
      PROVE  /\ backups'[txn'[v].stamp].users # 0
             /\ (backups'[txn'[v].stamp].users = 1 /\ ~txn'[v].clash) =>
                   \A f \in Files(txn'[v].kind) :
                      backups'[txn'[v].stamp].copy[f] = txn'[v].before[f]
  <2>1. Copied(v)
    BY <1>2, <1>6
  <2> QED
    BY <2>1, <1>3, <1>4, <1>6 DEF FilesInv, CopiesAreBefore
<1>7. \A s \in DOMAIN backups' : backups'[s].users = 0 => backups'[s].copy = [f \in ConfigFile |-> {}]
  BY <1>4 DEF FilesInv, CopiesAreBefore
<1> QED
  BY <1>5, <1>6, <1>7 DEF CopiesAreBefore

\* A transaction of other files leaves the report and the list alone.
LEMMA OwnStepKeepsReport ==
    ASSUME FilesInv, NEW w \in AllWriters, OwnStep(w), txn[w].kind # "report"
    PROVE  ReportIsThere'
<1>1. \A v \in AllWriters \ {w} : txn'[v] = txn[v]
  BY DEF FilesInv, FileTypes, OwnStep
<1>2. disk'["report"] = disk["report"] /\ baks'["report"] = baks["report"]
  <2>1. txn[w].kind \in Kind \cup {"none"}
    BY DEF FilesInv, FileTypes, Txns
  <2>2. "report" \in ConfigFile \ Files(txn[w].kind)
    BY <2>1, FilesOfKind DEF Kind, ConfigFile
  <2> QED
    BY <2>2 DEF OwnStep
<1>3. \A v \in AllWriters : (txn'[v].kind = "report") = (txn[v].kind = "report")
                             /\ (txn'[v].kind = "migrate") = (txn[v].kind = "migrate")
  BY <1>1 DEF OwnStep
<1>4. \A v \in AllWriters : txn[v].kind = "report" => txn'[v] = txn[v]
  BY <1>1
<1>5. harm' = {} => harm = {}
  BY DEF OwnStep
<1> QED
  BY <1>2, <1>3, <1>4, <1>5 DEF FilesInv, ReportIsThere, OwnStep

LEMMA OwnStepKeepsList ==
    ASSUME FilesInv, NEW w \in AllWriters, OwnStep(w),
           disk'["bot"] = disk["bot"] /\ baks'["bot"] = baks["bot"],
           txn[w].kind \in {"save", "migrate"} =>
              txn[w].at \notin {"install", "delete"} /\ txn'[w].at \notin {"install", "delete"},
           harm' = harm, replaced' = replaced
    PROVE  ListIsKept' /\ TornIsRecovered'
<1>1. \A v \in AllWriters \ {w} : txn'[v] = txn[v]
  BY DEF FilesInv, FileTypes, OwnStep
<1>2. listed' = listed /\ acked' = acked
  BY DEF OwnStep
<1>3. \A v \in AllWriters : txn'[v].kind = txn[v].kind /\ txn'[v].payload = txn[v].payload
  BY <1>1 DEF OwnStep
<1>4. \A v \in AllWriters : Holds(v)' = Holds(v) /\ HasWritten(v)' = HasWritten(v)
  BY <1>1, <1>3 DEF Holds, HasWritten
<1>5. ListIsKept'
  <2>1. \A v \in AllWriters : Holds(v)' /\ "imported" \notin harm' => disk'["bot"] = {}
    BY <1>4 DEF FilesInv, ListIsKept
  <2>2. \A v \in AllWriters : HasWritten(v)' /\ "imported" \notin harm' => disk'["bot"] = txn'[v].payload
    BY <1>3, <1>4 DEF FilesInv, ListIsKept
  <2>3. harm' = {} /\ (\A v \in AllWriters : ~Holds(v)' /\ ~HasWritten(v)')
           => acked' \subseteq disk'["bot"] /\ listed' \in {NotLoaded, disk'["bot"]}
    BY <1>2, <1>4 DEF FilesInv, ListIsKept
  <2>4. harm' = {} => \A v \in AllWriters : txn'[v].kind = "save" /\ txn'[v].at = "install" =>
                /\ acked' \subseteq listed'
                /\ txn'[v].moved => baks'["bot"] # <<>> /\ Last(baks'["bot"]) = listed'
                /\ ~txn'[v].moved => listed' = {}
    BY <1>1, <1>2, <1>3 DEF FilesInv, ListIsKept
  <2>5. harm' = {} => \A v \in AllWriters : txn'[v].kind = "save" /\ txn'[v].at = "delete" => acked' \subseteq listed'
    BY <1>1, <1>2, <1>3 DEF FilesInv, ListIsKept
  <2> QED
    BY <2>1, <2>2, <2>3, <2>4, <2>5 DEF ListIsKept
<1>6. TornIsRecovered'
  BY <1>2 DEF FilesInv, TornIsRecovered, Behind
<1> QED
  BY <1>5, <1>6

\* bot.json belongs to saves, imports and the migration.
LEMMA OthersLeaveTheList ==
    ASSUME FilesInv, NEW w \in AllWriters, OwnStep(w), txn[w].kind \in {"render", "clean", "report"}
    PROVE  disk'["bot"] = disk["bot"] /\ baks'["bot"] = baks["bot"]
<1>1. "bot" \in ConfigFile \ Files(txn[w].kind)
  BY FilesOfKind DEF ConfigFile
<1> QED
  BY <1>1 DEF OwnStep

\* The newest elements of a sequence, when one is appended, taken back, or the
\* oldest are dropped.
LEMMA NewestOfAppend ==
    ASSUME NEW S, NEW s \in Seq(S), NEW x \in S, NEW n \in Nat
    PROVE  NewestOf(s, n) \cup x \subseteq NewestOf(Append(s, x), n + 1)
<1>1. /\ Len(Append(s, x)) = Len(s) + 1 /\ Append(s, x)[Len(s) + 1] = x
      /\ \A i \in 1 .. Len(s) : Append(s, x)[i] = s[i]
      /\ DOMAIN Append(s, x) = 1 .. Len(s) + 1 /\ DOMAIN s = 1 .. Len(s) /\ Len(s) \in Nat
  BY AppendProperties
<1> HIDE DEF NewestOf
<1>2. \A i \in DOMAIN s : i > Len(s) - n => i > Len(Append(s, x)) - (n + 1) /\ i \in DOMAIN Append(s, x)
  BY <1>1
<1>3. Len(s) + 1 > Len(Append(s, x)) - (n + 1) /\ Len(s) + 1 \in DOMAIN Append(s, x)
  BY <1>1
<1> QED
  BY <1>1, <1>2, <1>3 DEF NewestOf

LEMMA NewestOfFront ==
    ASSUME NEW S, NEW s \in Seq(S), s # <<>>, NEW n \in Nat
    PROVE  /\ Front(s) \in Seq(S) /\ Last(s) \in S
           /\ NewestOf(s, n + 1) \subseteq NewestOf(Front(s), n) \cup Last(s)
<1>1. DOMAIN s = 1 .. Len(s) /\ Len(s) \in Nat \ {0} /\ \A i \in 1 .. Len(s) : s[i] \in S
  BY EmptySeq, LenProperties, ElementOfSeq
<1>2. Front(s) = [i \in 1 .. Len(s) - 1 |-> s[i]]
  BY <1>1 DEF Front
<1>3. Front(s) \in Seq(S) /\ Len(Front(s)) = Len(s) - 1
  BY <1>1, <1>2, IsASeq
<1>4. Last(s) \in S
  BY <1>1 DEF Last
<1>5. ASSUME NEW i \in DOMAIN s, i > Len(s) - (n + 1)
      PROVE  s[i] \subseteq NewestOf(Front(s), n) \cup Last(s)
  <2>1. CASE i = Len(s)
    BY <2>1 DEF Last
  <2>2. CASE i # Len(s)
    <3>1. i \in DOMAIN Front(s) /\ i > Len(Front(s)) - n /\ Front(s)[i] = s[i]
      BY <1>1, <1>2, <1>3, <1>5, <2>2
    <3> QED
      BY <3>1 DEF NewestOf
  <2> QED
    BY <2>1, <2>2
<1> QED
  BY <1>3, <1>4, <1>5 DEF NewestOf

LEMMA NewestOfLast ==
    ASSUME NEW S, NEW s \in Seq(S), NEW k \in Nat, NEW n \in Nat
    PROVE  /\ LastOf(s, k) \in Seq(S)
           /\ n <= k => NewestOf(s, n) \subseteq NewestOf(LastOf(s, k), n)
<1>1. DOMAIN s = 1 .. Len(s) /\ Len(s) \in Nat /\ \A i \in 1 .. Len(s) : s[i] \in S
  BY LenProperties, ElementOfSeq
<1> DEFINE d == IF Len(s) > k THEN Len(s) - k ELSE 0
<1>2. d \in Nat /\ d <= Len(s) /\ LastOf(s, k) = SubSeq(s, d + 1, Len(s))
  BY <1>1 DEF LastOf
<1> HIDE DEF d
<1>3. /\ LastOf(s, k) \in Seq(S) /\ Len(LastOf(s, k)) = Len(s) - d
      /\ \A i \in 1 .. Len(s) - d : LastOf(s, k)[i] = s[d + i]
  <2>1. d + 1 \in Int /\ Len(s) \in Int /\ \A i \in d + 1 .. Len(s) : s[i] \in S
    BY <1>1, <1>2
  <2>2. /\ SubSeq(s, d + 1, Len(s)) \in Seq(S)
        /\ Len(SubSeq(s, d + 1, Len(s))) = IF d + 1 <= Len(s) THEN Len(s) - (d + 1) + 1 ELSE 0
        /\ \A i \in 1 .. Len(s) - (d + 1) + 1 : SubSeq(s, d + 1, Len(s))[i] = s[d + 1 + i - 1]
    BY <2>1, SubSeqProperties
  <2>3. Len(s) - (d + 1) + 1 = Len(s) - d
    BY <1>1, <1>2
  <2>4. Len(SubSeq(s, d + 1, Len(s))) = Len(s) - d
    <3>1. (d # Len(s) => d + 1 <= Len(s)) /\ (d = Len(s) => ~(d + 1 <= Len(s)))
      <4>1. d \in Nat /\ Len(s) \in Nat /\ d <= Len(s)
        BY <1>1, <1>2
      <4>2. d # Len(s) => d + 1 <= Len(s)
        BY <4>1
      <4>3. d = Len(s) => ~(d + 1 <= Len(s))
        BY <4>1
      <4> QED
        BY <4>2, <4>3
    <3>2. CASE d # Len(s)
      BY <2>2, <2>3, <3>1, <3>2
    <3>3. CASE d = Len(s)
      BY <1>1, <2>2, <3>1, <3>3
    <3> QED
      BY <3>2, <3>3
  <2>5. ASSUME NEW i \in 1 .. Len(s) - d
        PROVE  SubSeq(s, d + 1, Len(s))[i] = s[d + i]
    <3>1. d + 1 + i - 1 = d + i
      BY <1>1, <1>2
    <3>2. SubSeq(s, d + 1, Len(s))[i] = s[d + 1 + i - 1]
      BY <2>2, <2>3
    <3> QED
      BY <3>1, <3>2
  <2> QED
    BY <1>2, <2>2, <2>4, <2>5
<1>4. DOMAIN LastOf(s, k) = 1 .. Len(s) - d
  BY <1>3, LenProperties
<1>5. ASSUME n <= k, NEW i \in DOMAIN s, i > Len(s) - n
      PROVE  s[i] \subseteq NewestOf(LastOf(s, k), n)
  <2>1. i - d \in 1 .. Len(s) - d
    BY <1>1, <1>5 DEF d
  <2>2. LastOf(s, k)[i - d] = s[i] /\ i - d \in DOMAIN LastOf(s, k) /\ i - d > Len(LastOf(s, k)) - n
    <3>1. d + (i - d) = i /\ i \in Int
      BY <1>1, <1>2, <2>1
    <3>2. LastOf(s, k)[i - d] = s[d + (i - d)]
      BY <1>3, <2>1
    <3>3. i - d > (Len(s) - d) - n
      BY <1>1, <1>2, <1>5, <3>1
    <3> QED
      BY <1>3, <1>4, <2>1, <3>1, <3>2, <3>3
  <2> QED
    BY <2>2 DEF NewestOf
<1> QED
  BY <1>3, <1>5 DEF NewestOf

LEMMA NewestAreSiblings ==
    ASSUME NEW s, NEW n
    PROVE  NewestOf(s, n) \subseteq UNION Range(s)
BY DEF NewestOf, Range

\* bot.json has one writer that is not an import; only the start writes the
\* report.
LEMMA OneListWriter ==
    ASSUME FilesInv, NEW v \in AllWriters, NEW w \in AllWriters,
           txn[v].kind \in {"save", "migrate"}, txn[w].kind \in {"save", "migrate"}
    PROVE  v = w
BY DEF FilesInv, WhoWrites, AllWriters, Resting

LEMMA ReportIsOfTheStart ==
    ASSUME FilesInv, NEW v \in AllWriters, txn[v].kind \in {"report", "migrate"}
    PROVE  v = Boot /\ running = FALSE
BY DEF FilesInv, WhoWrites, AllWriters, Resting, FileTypes

\* The file a transaction replaces is one of its own, not yet written.
LEMMA FileInHand ==
    ASSUME FilesInv, NEW w \in AllWriters, txn[w].at \in {"move", "install"}
    PROVE  /\ txn[w].kind \in OneFile \cup {"render"} /\ txn[w].kind # "none"
           /\ WriteAt(w) \in Files(txn[w].kind) /\ WriteAt(w) \in ConfigFile
           /\ WriteAt(w) \notin Written(w)
           /\ txn[w].removed = {} /\ txn[w].done \in {0, 1}
           /\ txn[w].done + 1 \in DOMAIN Writes(txn[w].kind)
           /\ MoreWrites(txn[w].kind, txn[w].done + 1) = (txn[w].kind = "render" /\ txn[w].done = 0)
           /\ txn[w].kind \in {"save", "import", "migrate"} => WriteAt(w) = "bot" /\ txn[w].done = 0
           /\ txn[w].kind = "report" => WriteAt(w) = "report" /\ txn[w].done = 0
           /\ txn[w].kind = "render" => WriteAt(w) = IF txn[w].done = 0 THEN "onebot" ELSE "napcat"
<1>1. txn[w] \in Txns /\ Follows(txn[w])
  BY DEF FilesInv, FileTypes, WhoWrites
<1>2. txn[w].kind \in OneFile \cup {"render"}
  BY <1>1 DEF Follows, Txns, Kind, OneFile, Resting
<1>3. txn[w].kind \in OneFile => txn[w].done = 0 /\ txn[w].removed = {}
  BY <1>1 DEF Follows
<1>4. txn[w].kind = "render" => txn[w].done \in {0, 1} /\ txn[w].removed = {}
  BY <1>1 DEF Follows, Txns
<1>5. txn[w].kind \in {"save", "import", "migrate"} => WriteAt(w) = "bot"
  BY <1>1, <1>3, WriteOfKind, FilesOfKind DEF OneFile
<1>6. txn[w].kind = "report" => WriteAt(w) = "report"
  BY <1>1, <1>3, WriteOfKind, FilesOfKind DEF OneFile
<1>7. txn[w].kind = "render" => WriteAt(w) = IF txn[w].done = 0 THEN "onebot" ELSE "napcat"
  BY <1>1, <1>4, WriteOfKind
<1>8. WriteAt(w) \in Files(txn[w].kind)
  BY <1>2, <1>5, <1>6, <1>7, FilesOfKind DEF OneFile
<1>9. WriteAt(w) \in ConfigFile
  BY <1>2, <1>5, <1>6, <1>7 DEF OneFile, ConfigFile
<1>10. WriteAt(w) \notin Written(w)
  BY <1>1, <1>2, <1>3, <1>4, <1>7, WrittenOfKind
<1>11. txn[w].done + 1 \in DOMAIN Writes(txn[w].kind)
  BY <1>2, <1>3, <1>4 DEF OneFile, Writes
<1>12. MoreWrites(txn[w].kind, txn[w].done + 1) = (txn[w].kind = "render" /\ txn[w].done = 0)
  BY <1>2, <1>3, <1>4 DEF OneFile, Writes, MoreWrites
<1> QED
  BY <1>2, <1>3, <1>4, <1>5, <1>6, <1>7, <1>8, <1>9, <1>10, <1>11, <1>12 DEF OneFile

LEMMA FilesAreFiles == \A kind \in Kind \cup {"none"} : Files(kind) \subseteq ConfigFile
BY FilesOfKind DEF Kind, ConfigFile

LEMMA MoveAsideKeepsInv ==
    ASSUME FilesInv, NEW w \in AllWriters, MoveAside(w)
    PROVE  FilesInv'
<1> DEFINE f == WriteAt(w)
<1>1. f \in Files(txn[w].kind) /\ f \in ConfigFile /\ txn[w].kind # "none" /\ txn[w].at = "move" /\ f \notin Written(w)
      /\ txn[w].removed = {}
  BY FileInHand DEF MoveAside, At
<1>2. txn' = [txn EXCEPT ![w] = [txn[w] EXCEPT !.at = "install", !.moved = (disk[f] # {})]]
  BY DEF MoveAside, FilesInv, FileTypes
<1>3. [txn[w] EXCEPT !.at = "install", !.moved = (disk[f] # {})] \in Txns
  <2>1. txn[w] \in Txns /\ (disk[f] # {}) \in BOOLEAN
    BY DEF FilesInv, FileTypes
  <2> HIDE DEF f
  <2> QED
    BY <2>1 DEF Txns
<1>4. txn'[w] = [txn[w] EXCEPT !.at = "install", !.moved = (disk[f] # {})]
  BY <1>2 DEF FilesInv, FileTypes
<1>5. /\ disk' = [disk EXCEPT ![f] = {}]
      /\ baks' = IF disk[f] = {} THEN baks ELSE [baks EXCEPT ![f] = Append(@, disk[f])]
      /\ harm' = IF txn[w].kind = "import" THEN harm \cup {"imported"} ELSE harm
      /\ UNCHANGED <<backups, second, listed, running, begun, crashes, failures, acked, replaced>>
  BY DEF MoveAside
<1> HIDE DEF f
<1>6. disk[f] \in Contents /\ baks[f] \in Seq(Contents \ {{}}) /\ txn[w] \in Txns
  BY <1>1 DEF FilesInv, FileTypes
<1>7. /\ txn'[w].kind = txn[w].kind /\ txn'[w].payload = txn[w].payload
      /\ txn'[w].before = txn[w].before /\ txn'[w].clash = txn[w].clash /\ txn'[w].stamp = txn[w].stamp
      /\ txn'[w].at = "install" /\ txn'[w].moved = (disk[f] # {})
      /\ txn'[w].done = txn[w].done /\ txn'[w].removed = {}
  BY <1>1, <1>4, <1>6 DEF Txns
<1>8. baks' \in [ConfigFile -> Seq(Contents \ {{}})]
  BY <1>5, <1>6, AppendProperties DEF FilesInv, FileTypes
<1>9. FileTypes'
  <2>1. disk' \in [ConfigFile -> Contents]
    BY <1>5 DEF FilesInv, FileTypes, Contents
  <2>2. txn' \in [AllWriters -> Txns]
    BY <1>2, <1>3 DEF FilesInv, FileTypes
  <2>3. Contents' = Contents /\ Txns' = Txns
    BY <1>5 DEF Contents, Txns
  <2> QED
    BY <1>5, <1>8, <2>1, <2>2, <2>3 DEF FilesInv, FileTypes
<1>10. OwnStep(w)
  <2>1. txn' = [txn EXCEPT ![w] = txn'[w]]
    BY <1>2, <1>4
  <2>2. \A g \in ConfigFile \ Files(txn[w].kind) : disk'[g] = disk[g] /\ baks'[g] = baks[g]
    BY <1>1, <1>5 DEF FilesInv, FileTypes
  <2> QED
    BY <2>1, <2>2, <1>1, <1>5, <1>7 DEF OwnStep
<1>11. Follows(txn'[w])
  BY <1>1, <1>7 DEF FilesInv, WhoWrites, Follows, OneFile
<1>12. WhoWrites' /\ SaveIsOfTheList' /\ RivalsClash'
  BY <1>5, <1>7, <1>10, <1>11, OwnStepKeepsWriters
<1>13. disk'[f] = {} /\ (disk[f] # {} => baks'[f] # <<>> /\ Last(baks'[f]) = disk[f])
  <2>1. disk'[f] = {}
    BY <1>1, <1>5 DEF FilesInv, FileTypes
  <2>2. disk[f] # {} => baks'[f] = Append(baks[f], disk[f])
    BY <1>1, <1>5 DEF FilesInv, FileTypes
  <2>3. disk[f] # {} => Append(baks[f], disk[f]) # <<>> /\ Last(Append(baks[f], disk[f])) = disk[f]
    BY <1>6, AppendProperties DEF Last
  <2> QED
    BY <2>1, <2>2, <2>3
<1>14. Written(w)' = Written(w) /\ WriteAt(w)' = f
  BY <1>7 DEF Written, WriteAt, f
<1>15. ~txn[w].clash => AsBefore(w)'
  <2> SUFFICES ASSUME ~txn[w].clash PROVE AsBefore(w)'
    OBVIOUS
  <2>1. \A g \in Files(txn[w].kind) : g \notin Written(w) => disk[g] = txn[w].before[g]
    BY <1>1 DEF FilesInv, AsBefore
  <2>2. \A g \in Files(txn[w].kind) : g \in ConfigFile
    BY <1>6, FilesAreFiles DEF Txns
  <2>3. \A g \in Files(txn[w].kind) : g # f => disk'[g] = disk[g]
    BY <2>2, <1>5 DEF FilesInv, FileTypes
  <2> QED
    BY <1>1, <1>7, <1>13, <1>14, <2>1, <2>3 DEF AsBefore
<1>16. \A v \in AllWriters : ~txn'[v].clash => AsBefore(v)'
  BY <1>10, <1>15, OwnStepKeepsOthers
<1>17. CopiesAreBefore'
  BY <1>1, <1>5, <1>7, <1>10, OwnStepKeepsCopies
<1>18. ReportIsThere'
  <2>1. CASE txn[w].kind # "report"
    BY <1>10, <2>1, OwnStepKeepsReport
  <2>2. CASE txn[w].kind = "report"
    <3>1. f = "report" /\ w = Boot /\ running = FALSE
      BY <1>1, <2>2, FileInHand, ReportIsOfTheStart DEF f
    <3>2. \A v \in AllWriters : txn'[v].kind = txn[v].kind
      BY <1>2, <1>7 DEF FilesInv, FileTypes
    <3>3. \A v \in AllWriters : txn'[v].kind = "report" => v = w
      BY <3>1, <3>2, ReportIsOfTheStart
    <3>4. disk["report"] = {} /\ harm = {} => acked = {}
      <4>1. \A v \in AllWriters : ~(txn[v].kind = "report" /\ txn[v].at = "install")
        BY <3>2, <3>3, <1>1
      <4> QED
        BY <4>1 DEF FilesInv, ReportIsThere
    <3> QED
      BY <1>5, <1>7, <1>13, <2>2, <3>1, <3>2, <3>3, <3>4 DEF FilesInv, ReportIsThere
  <2> QED
    BY <2>1, <2>2
<1>19. ListIsKept' /\ TornIsRecovered'
  <2>1. CASE txn[w].kind \in {"render", "report"}
    BY <1>5, <1>10, <2>1, OthersLeaveTheList, OwnStepKeepsList
  <2>2. CASE txn[w].kind = "import"
    BY <1>5, <2>2 DEF FilesInv, ListIsKept, TornIsRecovered
  <2>3. CASE txn[w].kind \in {"save", "migrate"}
    <3>1. f = "bot"
      BY <1>1, <2>3, FileInHand DEF f
    <3>2. \A v \in AllWriters : Holds(v)' \/ HasWritten(v)' => v = w
      <4>1. \A v \in AllWriters : txn'[v].kind = txn[v].kind
        BY <1>2, <1>7 DEF FilesInv, FileTypes
      <4> QED
        BY <2>3, <4>1, OneListWriter DEF Holds, HasWritten
    <3>3. Holds(w)' /\ ~HasWritten(w)'
      BY <1>7, <2>3 DEF Holds, HasWritten
    <3>4. \A v \in AllWriters : ~Holds(v) /\ ~HasWritten(v)
      BY <1>1, <2>3, OneListWriter DEF Holds, HasWritten
    <3>5. harm' = harm /\ acked' = acked /\ listed' = listed /\ replaced' = replaced
      BY <1>5, <2>3
    <3>6. harm = {} /\ txn[w].kind = "save" => acked \subseteq disk["bot"] /\ listed = disk["bot"]
      BY <3>4 DEF FilesInv, ListIsKept, SaveIsOfTheList
    <3>7. ListIsKept'
      <4>1. \A v \in AllWriters : txn'[v].kind = "save" => v = w
        <5>1. \A v \in AllWriters : txn'[v].kind = txn[v].kind
          BY <1>2, <1>7 DEF FilesInv, FileTypes
        <5> QED
          BY <2>3, <5>1, OneListWriter
      <4>2. disk'["bot"] = {}
        BY <1>13, <3>1
      <4>3. harm = {} /\ txn'[w].kind = "save" =>
                /\ acked' \subseteq listed'
                /\ txn'[w].moved => baks'["bot"] # <<>> /\ Last(baks'["bot"]) = listed'
                /\ ~txn'[w].moved => listed' = {}
        BY <1>7, <1>13, <3>1, <3>5, <3>6
      <4> QED
        BY <1>7, <3>2, <3>3, <3>5, <4>1, <4>2, <4>3 DEF ListIsKept
    <3>8. TornIsRecovered'
      <4>1. disk'["bot"] = {}
        BY <1>13, <3>1
      <4>2. replaced \in Nat /\ baks["bot"] \in Seq(Contents \ {{}}) /\ disk["bot"] \in Contents
        BY <1>6, <3>1 DEF FilesInv, FileTypes
      <4>3. disk["bot"] \cup NewestOf(baks["bot"], Behind) \subseteq NewestOf(baks'["bot"], Behind')
        <5>1. CASE disk["bot"] = {}
          <6>1. Behind' = Behind /\ baks' = baks
            BY <4>1, <5>1, <3>1, <3>5, <1>5 DEF Behind
          <6> QED
            BY <5>1, <6>1
        <5>2. CASE disk["bot"] # {}
          <6>1. Behind' = replaced + 1 /\ Behind = replaced
            BY <4>1, <5>2, <3>5 DEF Behind
          <6>2. baks'["bot"] = Append(baks["bot"], disk["bot"])
            BY <5>2, <3>1, <1>1, <1>5 DEF FilesInv, FileTypes
          <6>3. NewestOf(baks["bot"], replaced) \cup disk["bot"]
                  \subseteq NewestOf(Append(baks["bot"], disk["bot"]), replaced + 1)
            BY <4>2, <5>2, NewestOfAppend
          <6> QED
            BY <6>1, <6>2, <6>3
        <5> QED
          BY <5>1, <5>2
      <4> QED
        BY <3>5, <4>3 DEF FilesInv, TornIsRecovered
    <3> QED
      BY <3>7, <3>8
  <2> QED
    BY <1>1, <2>1, <2>2, <2>3, FileInHand DEF OneFile
<1> QED
  BY <1>9, <1>12, <1>16, <1>17, <1>18, <1>19 DEF FilesInv

LEMMA InstallKeepsInv ==
    ASSUME FilesInv, NEW w \in AllWriters, Install(w)
    PROVE  FilesInv'
<1> DEFINE f == WriteAt(w)
           next == IF MoreWrites(txn[w].kind, txn[w].done + 1) THEN "move" ELSE "delete"
<1>1. /\ f \in Files(txn[w].kind) /\ f \in ConfigFile /\ txn[w].kind # "none" /\ txn[w].at = "install"
      /\ f \notin Written(w) /\ txn[w].removed = {} /\ txn[w].done \in {0, 1}
      /\ txn[w].kind \in OneFile \cup {"render"}
      /\ next = IF txn[w].kind = "render" /\ txn[w].done = 0 THEN "move" ELSE "delete"
      /\ txn[w].kind \in OneFile => txn[w].done = 0
  BY FileInHand DEF Install, At, OneFile
<1> HIDE DEF next
<1>2. txn' = [txn EXCEPT ![w] = [txn[w] EXCEPT !.done = txn[w].done + 1, !.at = next]]
  BY DEF Install, FilesInv, FileTypes, next
<1>3. [txn[w] EXCEPT !.done = txn[w].done + 1, !.at = next] \in Txns
  <2>1. txn[w] \in Txns
    BY DEF FilesInv, FileTypes
  <2>2. next \in {"move", "delete"} /\ txn[w].done + 1 \in 0 .. 2
    BY <1>1
  <2> QED
    BY <2>1, <2>2 DEF Txns
<1>4. txn'[w] = [txn[w] EXCEPT !.done = txn[w].done + 1, !.at = next]
  BY <1>2 DEF FilesInv, FileTypes
<1>5. /\ disk' = [disk EXCEPT ![f] = txn[w].payload]
      /\ baks' = [baks EXCEPT ![f] = LastOf(@, KeepBaks)]
      /\ replaced' = IF f = "bot" /\ "torn" \in harm THEN replaced + 1 ELSE replaced
      /\ UNCHANGED <<backups, second, listed, running, begun, crashes, failures, acked, harm>>
  BY DEF Install
<1>6. f \in Files(txn[w].kind) /\ txn[w] \in Txns
  BY <1>1 DEF FilesInv, FileTypes
<1> HIDE DEF f
<1>7. /\ txn'[w].kind = txn[w].kind /\ txn'[w].payload = txn[w].payload
      /\ txn'[w].before = txn[w].before /\ txn'[w].clash = txn[w].clash /\ txn'[w].stamp = txn[w].stamp
      /\ txn'[w].at = next /\ txn'[w].moved = txn[w].moved
      /\ txn'[w].done = txn[w].done + 1 /\ txn'[w].removed = {}
  BY <1>1, <1>4, <1>6 DEF Txns
<1>8. baks[f] \in Seq(Contents \ {{}}) /\ txn[w].payload \in Contents /\ txn[w].payload # {} /\ KeepBaks \in Nat
  BY <1>1, <1>6, KeepAssumption DEF FilesInv, FileTypes, Txns, WhoWrites, Follows
<1>9. FileTypes'
  <2>1. disk' \in [ConfigFile -> Contents]
    BY <1>5, <1>8 DEF FilesInv, FileTypes
  <2>2. txn' \in [AllWriters -> Txns]
    BY <1>2, <1>3 DEF FilesInv, FileTypes
  <2>3. baks' \in [ConfigFile -> Seq(Contents \ {{}})]
    BY <1>5, <1>8, NewestOfLast DEF FilesInv, FileTypes
  <2>4. Contents' = Contents /\ Txns' = Txns
    BY <1>5 DEF Contents, Txns
  <2> QED
    BY <1>5, <2>1, <2>2, <2>3, <2>4 DEF FilesInv, FileTypes
<1>10. OwnStep(w)
  <2>1. txn' = [txn EXCEPT ![w] = txn'[w]]
    BY <1>2, <1>4
  <2>2. \A g \in ConfigFile \ Files(txn[w].kind) : disk'[g] = disk[g] /\ baks'[g] = baks[g]
    BY <1>1, <1>5 DEF FilesInv, FileTypes
  <2> QED
    BY <2>1, <2>2, <1>1, <1>5, <1>7 DEF OwnStep
<1>11. Follows(txn'[w])
  <2>1. txn[w].kind \in OneFile => next = "delete" /\ txn'[w].done = 1
    BY <1>1, <1>7 DEF OneFile
  <2>2. txn[w].kind = "render" => (next = "move" => txn'[w].done = 1) /\ (next = "delete" => txn'[w].done = 2)
    BY <1>1, <1>7
  <2>3. next \in {"move", "delete"}
    BY DEF next
  <2> QED
    BY <1>1, <1>7, <2>1, <2>2, <2>3 DEF FilesInv, WhoWrites, Follows, OneFile
<1>12. txn[w].kind = "import" => "imported" \in harm
  BY <1>1 DEF FilesInv, WhoWrites
<1>13. WhoWrites' /\ SaveIsOfTheList' /\ RivalsClash'
  BY <1>5, <1>10, <1>11, <1>12, OwnStepKeepsWriters
<1>14. Written(w)' = Written(w) \cup {f}
  <2>1. txn[w].done + 1 \in DOMAIN Writes(txn[w].kind) /\ f = Writes(txn[w].kind)[txn[w].done + 1]
    BY <1>1, FileInHand DEF WriteAt, f
  <2>2. Written(w)' = {Writes(txn[w].kind)[i] : i \in (1 .. txn[w].done + 1) \cap DOMAIN Writes(txn[w].kind)}
    BY <1>7 DEF Written
  <2>3. 1 .. txn[w].done + 1 = (1 .. txn[w].done) \cup {txn[w].done + 1}
    BY <1>1
  <2> QED
    BY <2>1, <2>2, <2>3 DEF Written
<1>15. ~txn[w].clash => AsBefore(w)'
  <2> SUFFICES ASSUME ~txn[w].clash PROVE AsBefore(w)'
    OBVIOUS
  <2>1. \A g \in Files(txn[w].kind) : g # f /\ g \notin Written(w) => disk[g] = txn[w].before[g]
    BY <1>1 DEF FilesInv, AsBefore, f
  <2>2. \A g \in Files(txn[w].kind) : g \in ConfigFile
    BY <1>6, FilesAreFiles DEF Txns
  <2>3. \A g \in Files(txn[w].kind) : g # f => disk'[g] = disk[g]
    BY <2>2, <1>5 DEF FilesInv, FileTypes
  <2>4. txn'[w].at # "install"
    BY <1>7 DEF next
  <2> QED
    BY <1>1, <1>7, <1>14, <2>1, <2>3, <2>4 DEF AsBefore
<1>16. \A v \in AllWriters : ~txn'[v].clash => AsBefore(v)'
  BY <1>10, <1>15, OwnStepKeepsOthers
<1>17. CopiesAreBefore'
  BY <1>1, <1>5, <1>7, <1>10, OwnStepKeepsCopies
<1>18. disk'[f] = txn[w].payload
  BY <1>1, <1>5 DEF FilesInv, FileTypes
<1>19. \A v \in AllWriters : txn'[v].kind = txn[v].kind
  BY <1>2, <1>7 DEF FilesInv, FileTypes
<1>20. ReportIsThere'
  <2>1. CASE txn[w].kind # "report"
    BY <1>10, <2>1, OwnStepKeepsReport
  <2>2. CASE txn[w].kind = "report"
    <3>1. f = "report" /\ w = Boot /\ running = FALSE
      BY <1>1, <2>2, FileInHand, ReportIsOfTheStart DEF f
    <3>2. \A v \in AllWriters : txn'[v].kind = "report" => v = w
      BY <3>1, <1>19, ReportIsOfTheStart
    <3>3. txn'[w].at # "install" /\ disk'["report"] # {}
      BY <1>7, <1>8, <1>18, <3>1 DEF next
    <3> QED
      BY <1>5, <1>19, <3>2, <3>3 DEF FilesInv, ReportIsThere
  <2> QED
    BY <2>1, <2>2
<1>21. ListIsKept' /\ TornIsRecovered'
  <2>1. CASE txn[w].kind \in {"render", "report"}
    <3>1. f # "bot"
      BY <1>1, <2>1, FileInHand DEF f
    <3> QED
      BY <3>1, <1>5, <1>10, <2>1, OthersLeaveTheList, OwnStepKeepsList
  <2>2. CASE txn[w].kind = "import"
    BY <1>5, <1>12, <2>2 DEF FilesInv, ListIsKept, TornIsRecovered
  <2>3. CASE txn[w].kind \in {"save", "migrate"}
    <3>1. f = "bot" /\ next = "delete"
      BY <1>1, <2>3, FileInHand DEF f
    <3>2. \A v \in AllWriters : Holds(v)' \/ HasWritten(v)' => v = w
      BY <2>3, <1>19, OneListWriter DEF Holds, HasWritten
    <3>3. ~Holds(w)' /\ HasWritten(w)'
      BY <1>7, <2>3, <3>1 DEF Holds, HasWritten
    <3>4. harm = {} /\ txn[w].kind = "save" => acked \subseteq listed
      BY <1>1 DEF FilesInv, ListIsKept
    <3>5. ListIsKept'
      <4>1. \A v \in AllWriters : txn'[v].kind = "save" => v = w
        BY <2>3, <1>19, OneListWriter
      <4> QED
        BY <1>5, <1>7, <1>18, <3>1, <3>2, <3>3, <3>4, <4>1 DEF ListIsKept
    <3>6. TornIsRecovered'
      <4>1. "torn" \notin harm' => replaced' = 0
        BY <1>5 DEF FilesInv, TornIsRecovered
      <4>2. ASSUME harm' = {"torn"}, replaced' <= KeepBaks
            PROVE  acked' \subseteq disk'["bot"] \cup NewestOf(baks'["bot"], Behind')
        <5>1. harm = {"torn"} /\ replaced' = replaced + 1 /\ replaced \in Nat /\ acked' = acked
          BY <1>5, <4>2, <3>1 DEF FilesInv, FileTypes
        <5>2. disk["bot"] = {}
          <6>1. Holds(w)
            BY <1>1, <2>3 DEF Holds
          <6> QED
            BY <5>1, <6>1 DEF FilesInv, ListIsKept
        <5>3. Behind = replaced + 1 /\ Behind' = replaced + 1
          BY <5>1, <5>2, <1>8, <1>18, <3>1 DEF Behind
        <5>4. acked \subseteq NewestOf(baks["bot"], replaced + 1)
          BY <5>1, <5>2, <5>3, <4>2, <1>8 DEF FilesInv, TornIsRecovered
        <5>5. baks'["bot"] = LastOf(baks["bot"], KeepBaks)
          BY <1>1, <1>5, <3>1 DEF FilesInv, FileTypes
        <5>6. replaced + 1 \in Nat /\ replaced + 1 <= KeepBaks
          BY <5>1, <4>2
        <5>7. NewestOf(baks["bot"], replaced + 1) \subseteq NewestOf(LastOf(baks["bot"], KeepBaks), replaced + 1)
          BY <5>6, <1>8, <3>1, NewestOfLast
        <5> QED
          BY <5>1, <5>3, <5>4, <5>5, <5>7
      <4> QED
        BY <4>1, <4>2 DEF TornIsRecovered
    <3> QED
      BY <3>5, <3>6
  <2> QED
    BY <1>1, <2>1, <2>2, <2>3 DEF OneFile
<1> QED
  BY <1>9, <1>13, <1>16, <1>17, <1>20, <1>21 DEF FilesInv

LEMMA ReplaceFailsKeepsInv ==
    ASSUME FilesInv, NEW w \in AllWriters, ReplaceFails(w)
    PROVE  FilesInv'
<1> DEFINE f == WriteAt(w)
           back == txn[w].at = "install" /\ txn[w].moved /\ disk[f] = {} /\ baks[f] # <<>>
<1>1. /\ f \in Files(txn[w].kind) /\ f \in ConfigFile /\ txn[w].kind # "none" /\ txn[w].at \in {"move", "install"}
      /\ f \notin Written(w) /\ txn[w].removed = {} /\ txn[w].done \in {0, 1}
      /\ txn[w].kind \in OneFile \cup {"render"}
      /\ txn[w].kind \in OneFile => txn[w].done = 0
  BY FileInHand DEF ReplaceFails, At, OneFile
<1>2. txn' = [txn EXCEPT ![w] = [txn[w] EXCEPT !.at = "undo"]]
  BY DEF ReplaceFails, FilesInv, FileTypes
<1>3. [txn[w] EXCEPT !.at = "undo"] \in Txns
  <2>1. txn[w] \in Txns
    BY DEF FilesInv, FileTypes
  <2> QED
    BY <2>1 DEF Txns
<1>4. txn'[w] = [txn[w] EXCEPT !.at = "undo"]
  BY <1>2 DEF FilesInv, FileTypes
<1>5. /\ back => disk' = [disk EXCEPT ![f] = Last(baks[f])] /\ baks' = [baks EXCEPT ![f] = Front(@)]
      /\ ~back => disk' = disk /\ baks' = baks
      /\ UNCHANGED <<backups, second, listed, running, begun, crashes, acked, harm, replaced>>
  BY DEF ReplaceFails, At
<1>6. txn[w] \in Txns /\ baks[f] \in Seq(Contents \ {{}})
  BY <1>1 DEF FilesInv, FileTypes
<1>7. /\ txn'[w].kind = txn[w].kind /\ txn'[w].payload = txn[w].payload
      /\ txn'[w].before = txn[w].before /\ txn'[w].clash = txn[w].clash /\ txn'[w].stamp = txn[w].stamp
      /\ txn'[w].at = "undo" /\ txn'[w].moved = txn[w].moved
      /\ txn'[w].done = txn[w].done /\ txn'[w].removed = {}
  BY <1>1, <1>4, <1>6 DEF Txns
<1>8. back => Last(baks[f]) \in Contents /\ Last(baks[f]) # {} /\ Front(baks[f]) \in Seq(Contents \ {{}})
  <2>1. baks[f] # <<>> => Front(baks[f]) \in Seq(Contents \ {{}}) /\ Last(baks[f]) \in Contents \ {{}}
    BY <1>6, NewestOfFront, 0 \in Nat
  <2> QED
    BY <2>1
<1> HIDE DEF back
<1>9. back => disk'[f] = Last(baks[f]) /\ baks'[f] = Front(baks[f])
  BY <1>1, <1>5 DEF FilesInv, FileTypes
<1>10. \A g \in ConfigFile : g # f => disk'[g] = disk[g] /\ baks'[g] = baks[g]
  BY <1>1, <1>5 DEF FilesInv, FileTypes
<1>11. Written(w)' = Written(w)
  BY <1>7 DEF Written
<1>12. FileTypes'
  <2>1. disk' \in [ConfigFile -> Contents] /\ baks' \in [ConfigFile -> Seq(Contents \ {{}})]
    BY <1>5, <1>8 DEF FilesInv, FileTypes
  <2>2. txn' \in [AllWriters -> Txns]
    BY <1>2, <1>3 DEF FilesInv, FileTypes
  <2>3. Contents' = Contents /\ Txns' = Txns
    BY <1>5 DEF Contents, Txns
  <2> QED
    BY <1>5, <2>1, <2>2, <2>3 DEF FilesInv, FileTypes
<1>13. OwnStep(w)
  <2>1. txn' = [txn EXCEPT ![w] = txn'[w]]
    BY <1>2, <1>4
  <2>2. \A g \in ConfigFile \ Files(txn[w].kind) : disk'[g] = disk[g] /\ baks'[g] = baks[g]
    BY <1>1, <1>10
  <2> QED
    BY <2>1, <2>2, <1>1, <1>5, <1>7 DEF OwnStep
<1>14. Follows(txn'[w])
  BY <1>1, <1>7 DEF FilesInv, WhoWrites, Follows, OneFile
<1>15. WhoWrites' /\ SaveIsOfTheList' /\ RivalsClash'
  BY <1>5, <1>7, <1>13, <1>14, OwnStepKeepsWriters
<1>16. ~txn[w].clash => AsBefore(w)'
  <2> SUFFICES ASSUME ~txn[w].clash PROVE AsBefore(w)'
    OBVIOUS
  <2>1. \A g \in Files(txn[w].kind) : g # f /\ g \notin Written(w) => disk[g] = txn[w].before[g]
    BY <1>1 DEF FilesInv, AsBefore
  <2>2. \A g \in Files(txn[w].kind) : g \in ConfigFile
    BY <1>6, FilesAreFiles DEF Txns
  <2>3. disk'[f] = txn[w].before[f]
    <3>1. txn[w].at = "move" => disk[f] = txn[w].before[f] /\ ~back
      BY <1>1 DEF FilesInv, AsBefore, back
    <3>2. txn[w].at = "install" =>
             /\ disk[f] = {} /\ txn[w].moved = (txn[w].before[f] # {})
             /\ txn[w].moved => baks[f] # <<>> /\ Last(baks[f]) = txn[w].before[f]
      BY <1>1 DEF FilesInv, AsBefore
    <3>3. txn[w].at = "install" => back = txn[w].moved
      BY <3>2, <1>6 DEF back, Txns
    <3> QED
      BY <1>1, <1>5, <1>6, <1>9, <3>1, <3>2, <3>3 DEF Txns
  <2> QED
    BY <1>1, <1>7, <1>10, <1>11, <2>1, <2>2, <2>3 DEF AsBefore
<1>17. \A v \in AllWriters : ~txn'[v].clash => AsBefore(v)'
  BY <1>13, <1>16, OwnStepKeepsOthers
<1>18. CopiesAreBefore'
  BY <1>1, <1>5, <1>7, <1>13, OwnStepKeepsCopies
<1>19. \A v \in AllWriters : txn'[v].kind = txn[v].kind
  BY <1>2, <1>7 DEF FilesInv, FileTypes
<1>20. ReportIsThere'
  <2>1. CASE txn[w].kind # "report"
    BY <1>13, <2>1, OwnStepKeepsReport
  <2>2. CASE txn[w].kind = "report"
    <3>1. f = "report" /\ w = Boot /\ running = FALSE
      BY <1>1, <2>2, FileInHand, ReportIsOfTheStart
    <3>2. \A v \in AllWriters : txn'[v].kind = "report" => v = w
      BY <3>1, <1>19, ReportIsOfTheStart
    <3>3. disk'["report"] = {} => disk["report"] = {} /\ ~(txn[w].at = "install" /\ txn[w].moved)
      <4>1. txn[w].at = "install" => disk["report"] = {} /\ (txn[w].moved => baks["report"] # <<>>)
        BY <2>2 DEF FilesInv, ReportIsThere
      <4>2. txn[w].at = "install" /\ txn[w].moved => back
        BY <4>1, <3>1 DEF back
      <4> QED
        BY <1>5, <1>8, <1>9, <3>1, <4>1, <4>2
    <3>4. disk'["report"] = {} /\ harm = {} => acked = {}
      BY <1>19, <3>2, <3>3 DEF FilesInv, ReportIsThere
    <3> QED
      BY <1>5, <1>7, <1>19, <3>1, <3>2, <3>4 DEF FilesInv, ReportIsThere
  <2> QED
    BY <2>1, <2>2
<1>21. ListIsKept' /\ TornIsRecovered'
  <2>1. CASE txn[w].kind \in {"render", "report"}
    BY <1>5, <1>13, <2>1, OthersLeaveTheList, OwnStepKeepsList
  <2>2. CASE txn[w].at = "move"
    <3>1. disk' = disk /\ baks' = baks
      BY <1>5, <2>2 DEF back
    <3> QED
      BY <3>1, <1>5, <1>7, <1>13, <2>2, OwnStepKeepsList
  <2>3. CASE txn[w].kind = "import" /\ txn[w].at = "install"
    <3>1. "imported" \in harm
      BY <2>3 DEF FilesInv, WhoWrites
    <3> QED
      BY <1>5, <3>1 DEF FilesInv, ListIsKept, TornIsRecovered
  <2>4. CASE txn[w].kind \in {"save", "migrate"} /\ txn[w].at = "install"
    <3>1. f = "bot"
      BY <1>1, <2>4, FileInHand
    <3>2. \A v \in AllWriters : ~Holds(v)' /\ ~HasWritten(v)'
      <4>1. \A v \in AllWriters : Holds(v)' \/ HasWritten(v)' => v = w
        BY <2>4, <1>19, OneListWriter DEF Holds, HasWritten
      <4>2. ~Holds(w)' /\ ~HasWritten(w)'
        BY <1>7 DEF Holds, HasWritten
      <4> QED
        BY <4>1, <4>2
    <3>3. \A v \in AllWriters : txn'[v].kind = "save" => txn'[v].at = "undo"
      BY <1>7, <1>19, <2>4, OneListWriter
    <3>4. harm = {} => acked \subseteq disk'["bot"] /\ listed \in {NotLoaded, disk'["bot"]}
      <4>1. CASE harm = {} /\ txn[w].kind = "migrate"
        <5>1. acked = {} /\ listed = NotLoaded
          BY <4>1, ReportIsOfTheStart DEF FilesInv, ReportIsThere, WhoWrites
        <5> QED
          BY <5>1
      <4>2. CASE harm = {} /\ txn[w].kind = "save"
        <5>1. /\ acked \subseteq listed
              /\ txn[w].moved => baks["bot"] # <<>> /\ Last(baks["bot"]) = listed
              /\ ~txn[w].moved => listed = {}
          BY <2>4, <4>2 DEF FilesInv, ListIsKept
        <5>2. disk["bot"] = {}
          <6>1. Holds(w) /\ "imported" \notin harm
            BY <2>4, <4>2 DEF Holds
          <6> QED
            BY <6>1 DEF FilesInv, ListIsKept
        <5>3. txn[w].moved => back
          BY <2>4, <3>1, <5>1, <5>2 DEF back
        <5>4. ~txn[w].moved => ~back
          BY DEF back
        <5> QED
          BY <1>5, <1>9, <3>1, <5>1, <5>2, <5>3, <5>4
      <4> QED
        BY <2>4, <4>1, <4>2
    <3>5. ListIsKept'
      BY <1>5, <3>2, <3>3, <3>4 DEF ListIsKept
    <3>6. disk["bot"] \cup NewestOf(baks["bot"], Behind) \subseteq disk'["bot"] \cup NewestOf(baks'["bot"], Behind')
      <4>1. CASE ~back
        <5>1. disk' = disk /\ baks' = baks /\ Behind' = Behind
          BY <1>5, <4>1 DEF Behind
        <5> QED
          BY <5>1
      <4>2. CASE back
        <5>1. Behind = replaced + 1 /\ Behind' = replaced
          BY <1>5, <1>8, <1>9, <3>1, <4>2 DEF Behind, back
        <5>2. replaced \in Nat /\ baks["bot"] \in Seq(Contents \ {{}}) /\ baks["bot"] # <<>> /\ disk["bot"] = {}
          BY <1>6, <3>1, <4>2 DEF FilesInv, FileTypes, back
        <5>3. NewestOf(baks["bot"], replaced + 1) \subseteq NewestOf(Front(baks["bot"]), replaced) \cup Last(baks["bot"])
          BY <5>2, NewestOfFront
        <5> QED
          BY <1>9, <3>1, <4>2, <5>1, <5>2, <5>3
      <4> QED
        BY <4>1, <4>2
    <3>7. TornIsRecovered'
      BY <1>5, <3>6 DEF FilesInv, TornIsRecovered
    <3> QED
      BY <3>5, <3>7
  <2> QED
    BY <1>1, <2>1, <2>2, <2>3, <2>4 DEF OneFile
<1> QED
  BY <1>12, <1>15, <1>17, <1>18, <1>20, <1>21 DEF FilesInv

LEMMA DeleteKeepsInv ==
    ASSUME FilesInv, NEW w \in AllWriters, Delete(w)
    PROVE  FilesInv'
<1> DEFINE g == DeleteAt(w)
           gone == IF disk[g] = {} THEN txn[w].removed ELSE txn[w].removed \cup {g}
<1>1. txn[w] \in Txns /\ Follows(txn[w]) /\ txn[w].at = "delete" /\ txn[w].kind = "clean" /\ txn[w].done \in {0, 1}
      /\ g \in Files("clean") /\ g \in ConfigFile
  <2>1. txn[w] \in Txns /\ Follows(txn[w]) /\ txn[w].at = "delete"
    BY DEF FilesInv, FileTypes, WhoWrites, Delete, At
  <2>2. txn[w].kind = "clean" /\ txn[w].done < 2 /\ (txn[w].done = 0 => g = "onebot") /\ (txn[w].done = 1 => g = "napcat")
    BY <2>1, DeleteOfKind DEF Delete, At
  <2>3. txn[w].done \in {0, 1}
    BY <2>1, <2>2 DEF Txns
  <2> QED
    BY <2>1, <2>2, <2>3, FilesOfKind DEF ConfigFile
<1>2. txn' = [txn EXCEPT ![w] = [txn[w] EXCEPT !.done = txn[w].done + 1, !.removed = gone]]
  BY DEF Delete, FilesInv, FileTypes
<1>3. txn'[w] = [txn[w] EXCEPT !.done = txn[w].done + 1, !.removed = gone]
  BY <1>2 DEF FilesInv, FileTypes
<1>4. /\ disk' = [disk EXCEPT ![g] = {}]
      /\ UNCHANGED <<baks, backups, second, listed, running, begun, crashes, failures, acked, harm, replaced>>
  BY DEF Delete
<1> HIDE DEF g
<1>5. gone \subseteq Files("clean") /\ gone \in SUBSET ConfigFile
  BY <1>1, FilesAreFiles DEF Follows, Kind
<1>6. txn[w].removed \subseteq gone
  OBVIOUS
<1> HIDE DEF gone
<1>7. [txn[w] EXCEPT !.done = txn[w].done + 1, !.removed = gone] \in Txns
  <2>1. txn[w].done + 1 \in 0 .. 2
    BY <1>1
  <2> QED
    BY <2>1, <1>1, <1>5 DEF Txns
<1>8. /\ txn'[w].kind = "clean" /\ txn'[w].payload = txn[w].payload
      /\ txn'[w].before = txn[w].before /\ txn'[w].clash = txn[w].clash /\ txn'[w].stamp = txn[w].stamp
      /\ txn'[w].at = "delete" /\ txn'[w].done = txn[w].done + 1 /\ txn'[w].removed = gone
  BY <1>1, <1>3 DEF Txns
<1>9. \A h \in ConfigFile : h # g => disk'[h] = disk[h]
  BY <1>4 DEF FilesInv, FileTypes
<1>10. disk'[g] = {}
  BY <1>1, <1>4 DEF FilesInv, FileTypes
<1>11. FileTypes'
  <2>1. disk' \in [ConfigFile -> Contents]
    BY <1>4 DEF FilesInv, FileTypes, Contents
  <2>2. txn' \in [AllWriters -> Txns]
    BY <1>2, <1>7 DEF FilesInv, FileTypes
  <2>3. Contents' = Contents /\ Txns' = Txns
    BY <1>4 DEF Contents, Txns
  <2> QED
    BY <1>4, <2>1, <2>2, <2>3 DEF FilesInv, FileTypes
<1>12. OwnStep(w)
  <2>1. txn' = [txn EXCEPT ![w] = txn'[w]]
    BY <1>2, <1>3
  <2>2. \A h \in ConfigFile \ Files(txn[w].kind) : disk'[h] = disk[h] /\ baks'[h] = baks[h]
    BY <1>1, <1>4, <1>9
  <2> QED
    BY <2>1, <2>2, <1>1, <1>4, <1>8 DEF OwnStep
<1>13. Follows(txn'[w])
  BY <1>1, <1>5, <1>8 DEF Follows, OneFile
<1>14. WhoWrites' /\ SaveIsOfTheList' /\ RivalsClash'
  BY <1>1, <1>8, <1>12, <1>13, OwnStepKeepsWriters
<1>15. ~txn[w].clash => AsBefore(w)'
  <2> SUFFICES ASSUME ~txn[w].clash PROVE AsBefore(w)'
    OBVIOUS
  <2>1. Written(w) = {} /\ Written(w)' = {}
    BY <1>1, <1>8, WrittenOfKind DEF Written, Writes
  <2>2. \A h \in Files("clean") : (h \notin txn[w].removed => disk[h] = txn[w].before[h])
                                  /\ (h \in txn[w].removed => txn[w].before[h] # {})
    BY <1>1, <2>1 DEF FilesInv, AsBefore
  <2>3. \A h \in Files("clean") : h \in ConfigFile
    BY FilesAreFiles DEF Kind
  <2>4. \A h \in Files("clean") : h \notin gone => disk'[h] = txn[w].before[h]
    BY <1>9, <1>10, <2>2, <2>3 DEF gone
  <2>5. \A h \in Files("clean") : h \in gone => txn[w].before[h] # {}
    BY <2>2 DEF gone
  <2> QED
    BY <1>8, <2>1, <2>4, <2>5 DEF AsBefore
<1>16. \A v \in AllWriters : ~txn'[v].clash => AsBefore(v)'
  BY <1>12, <1>15, OwnStepKeepsOthers
<1>17. CopiesAreBefore'
  BY <1>1, <1>4, <1>8, <1>12, OwnStepKeepsCopies
<1>18. ReportIsThere'
  BY <1>1, <1>12, OwnStepKeepsReport
<1>19. ListIsKept' /\ TornIsRecovered'
  BY <1>1, <1>4, <1>12, OthersLeaveTheList, OwnStepKeepsList
<1> QED
  BY <1>11, <1>14, <1>16, <1>17, <1>18, <1>19 DEF FilesInv

LEMMA DeleteFailsKeepsInv ==
    ASSUME FilesInv, NEW w \in AllWriters, DeleteFails(w)
    PROVE  FilesInv'
<1>1. txn[w] \in Txns /\ Follows(txn[w]) /\ txn[w].at = "delete" /\ txn[w].kind = "clean" /\ txn[w].done < 2
  <2>1. txn[w] \in Txns /\ Follows(txn[w]) /\ txn[w].at = "delete"
    BY DEF FilesInv, FileTypes, WhoWrites, DeleteFails, At
  <2> QED
    BY <2>1, DeleteOfKind DEF DeleteFails, At
<1>2. txn' = [txn EXCEPT ![w] = [txn[w] EXCEPT !.at = "undo"]]
  BY DEF DeleteFails, FilesInv, FileTypes
<1>3. txn'[w] = [txn[w] EXCEPT !.at = "undo"] /\ [txn[w] EXCEPT !.at = "undo"] \in Txns
  BY <1>1, <1>2 DEF FilesInv, FileTypes, Txns
<1>4. UNCHANGED <<disk, baks, backups, second, listed, running, begun, crashes, acked, harm, replaced>>
  BY DEF DeleteFails
<1>5. /\ txn'[w].kind = "clean" /\ txn'[w].payload = txn[w].payload
      /\ txn'[w].before = txn[w].before /\ txn'[w].clash = txn[w].clash /\ txn'[w].stamp = txn[w].stamp
      /\ txn'[w].at = "undo" /\ txn'[w].done = txn[w].done /\ txn'[w].removed = txn[w].removed
  BY <1>1, <1>3 DEF Txns
<1>6. FileTypes'
  <2>1. txn' \in [AllWriters -> Txns]
    BY <1>2, <1>3 DEF FilesInv, FileTypes
  <2>2. Contents' = Contents /\ Txns' = Txns
    BY <1>4 DEF Contents, Txns
  <2> QED
    BY <1>4, <2>1, <2>2 DEF FilesInv, FileTypes
<1>7. OwnStep(w)
  <2>1. txn' = [txn EXCEPT ![w] = txn'[w]]
    BY <1>2, <1>3
  <2> QED
    BY <2>1, <1>1, <1>4, <1>5 DEF OwnStep
<1>8. Follows(txn'[w])
  BY <1>1, <1>5 DEF Follows, OneFile
<1>9. WhoWrites' /\ SaveIsOfTheList' /\ RivalsClash'
  BY <1>1, <1>5, <1>7, <1>8, OwnStepKeepsWriters
<1>10. ~txn[w].clash => AsBefore(w)'
  <2>1. Written(w)' = Written(w)
    BY <1>1, <1>5 DEF Written
  <2> QED
    BY <1>1, <1>4, <1>5, <2>1 DEF FilesInv, AsBefore
<1>11. \A v \in AllWriters : ~txn'[v].clash => AsBefore(v)'
  BY <1>7, <1>10, OwnStepKeepsOthers
<1>12. CopiesAreBefore'
  BY <1>1, <1>4, <1>5, <1>7, OwnStepKeepsCopies
<1>13. ReportIsThere'
  BY <1>1, <1>7, OwnStepKeepsReport
<1>14. ListIsKept' /\ TornIsRecovered'
  BY <1>1, <1>4, <1>7, OthersLeaveTheList, OwnStepKeepsList
<1> QED
  BY <1>6, <1>9, <1>11, <1>12, <1>13, <1>14 DEF FilesInv

\* What a transaction that failed puts back: only files that it has written
\* or deleted.
LEMMA UndoRestoresOwn ==
    ASSUME FilesInv, NEW w \in AllWriters, Undo(w)
    PROVE  /\ disk' \in [ConfigFile -> Contents]
           /\ \A f \in ConfigFile : f \notin Written(w) \cup txn[w].removed => disk'[f] = disk[f]
           /\ Written(w) \cup txn[w].removed \subseteq Files(txn[w].kind)
           /\ txn[w].kind \in OneFile => Written(w) \cup txn[w].removed = {}
<1>1. txn[w] \in Txns /\ Follows(txn[w]) /\ txn[w].at = "undo" /\ disk \in [ConfigFile -> Contents]
  BY DEF FilesInv, FileTypes, WhoWrites, Undo, At
<1>2. Written(w) \cup txn[w].removed \subseteq Files(txn[w].kind)
  <2>1. txn[w].removed \subseteq Files(txn[w].kind)
    BY <1>1 DEF Follows, OneFile, Txns, Kind, Resting
  <2> QED
    BY <2>1, <1>1, WrittenOfKind
<1>3. txn[w].kind \in OneFile => Written(w) \cup txn[w].removed = {}
  BY <1>1, WrittenOfKind DEF Follows
<1>4. CASE txn[w].kind = "report"
  BY <1>1, <1>2, <1>3, <1>4 DEF Undo
<1>5. CASE txn[w].kind # "report"
  <2>1. disk' = Restored(w)
    BY <1>5 DEF Undo
  <2>2. txn[w].stamp \in DOMAIN backups => backups[txn[w].stamp].copy \in [ConfigFile -> Contents]
    BY DEF FilesInv, FileTypes
  <2>3. {} \in Contents
    BY DEF Contents
  <2>4. Restored(w) \in [ConfigFile -> Contents]
    BY <1>1, <2>2, <2>3 DEF Restored
  <2>5. \A f \in ConfigFile : f \notin Written(w) \cup txn[w].removed => Restored(w)[f] = disk[f]
    BY DEF Restored
  <2> QED
    BY <1>2, <1>3, <2>1, <2>4, <2>5
<1> QED
  BY <1>4, <1>5

LEMMA UndoKeepsInv ==
    ASSUME FilesInv, NEW w \in AllWriters, Undo(w)
    PROVE  FilesInv'
<1>1. txn[w] \in Txns /\ Follows(txn[w]) /\ txn[w].at = "undo" /\ txn[w].kind # "none"
  BY DEF FilesInv, FileTypes, WhoWrites, Undo, At, Follows, Resting
<1>2. txn' = [txn EXCEPT ![w] = [txn[w] EXCEPT !.at = "failed"]]
  BY DEF Undo, FilesInv, FileTypes
<1>3. txn'[w] = [txn[w] EXCEPT !.at = "failed"] /\ [txn[w] EXCEPT !.at = "failed"] \in Txns
  BY <1>1, <1>2 DEF FilesInv, FileTypes, Txns
<1>4. UNCHANGED <<baks, backups, second, listed, running, begun, crashes, acked, harm, replaced>>
  BY DEF Undo
<1>5. /\ txn'[w].kind = txn[w].kind /\ txn'[w].payload = txn[w].payload
      /\ txn'[w].before = txn[w].before /\ txn'[w].clash = txn[w].clash /\ txn'[w].stamp = txn[w].stamp
      /\ txn'[w].at = "failed" /\ txn'[w].done = txn[w].done /\ txn'[w].removed = txn[w].removed
  BY <1>1, <1>3 DEF Txns
<1>6. FileTypes'
  <2>1. txn' \in [AllWriters -> Txns]
    BY <1>2, <1>3 DEF FilesInv, FileTypes
  <2>2. Contents' = Contents /\ Txns' = Txns
    BY <1>4 DEF Contents, Txns
  <2>3. disk' \in [ConfigFile -> Contents]
    BY UndoRestoresOwn
  <2> QED
    BY <1>4, <2>1, <2>2, <2>3 DEF FilesInv, FileTypes
<1>7. OwnStep(w)
  <2>1. txn' = [txn EXCEPT ![w] = txn'[w]]
    BY <1>2, <1>3
  <2>2. \A f \in ConfigFile \ Files(txn[w].kind) : disk'[f] = disk[f]
    BY UndoRestoresOwn
  <2> QED
    BY <2>1, <2>2, <1>1, <1>4, <1>5 DEF OwnStep
<1>8. Follows(txn'[w])
  BY <1>1, <1>5 DEF Follows, OneFile
<1>9. WhoWrites' /\ SaveIsOfTheList' /\ RivalsClash'
  BY <1>1, <1>5, <1>7, <1>8, OwnStepKeepsWriters
<1>10. ~txn[w].clash => AsBefore(w)'
  <2>1. Written(w)' = Written(w)
    BY <1>1, <1>5 DEF Written
  <2>2. \A f \in Files(txn[w].kind) : f \in ConfigFile
    BY <1>1, FilesAreFiles DEF Txns
  <2> QED
    BY <1>1, <1>4, <1>5, <2>1, <2>2, UndoRestoresOwn DEF FilesInv, AsBefore
<1>11. \A v \in AllWriters : ~txn'[v].clash => AsBefore(v)'
  BY <1>7, <1>10, OwnStepKeepsOthers
<1>12. CopiesAreBefore'
  BY <1>1, <1>4, <1>5, <1>7, OwnStepKeepsCopies
<1>13. disk'["bot"] = disk["bot"] /\ disk'["report"] = disk["report"]
  <2>1. "bot" \notin Written(w) \cup txn[w].removed /\ "report" \notin Written(w) \cup txn[w].removed
    <3>1. CASE txn[w].kind \in OneFile
      BY <3>1, UndoRestoresOwn
    <3>2. CASE txn[w].kind \in {"render", "clean"}
      BY <3>2, UndoRestoresOwn, FilesOfKind
    <3> QED
      BY <1>1, <3>1, <3>2 DEF Txns, Kind, OneFile
  <2> QED
    BY <2>1, UndoRestoresOwn DEF ConfigFile
<1>14. ReportIsThere'
  <2>1. CASE txn[w].kind # "report"
    BY <2>1, <1>7, OwnStepKeepsReport
  <2>2. CASE txn[w].kind = "report"
    <3>1. \A v \in AllWriters : txn'[v].kind = txn[v].kind
      BY <1>2, <1>5 DEF FilesInv, FileTypes
    <3>2. \A v \in AllWriters : txn[v].kind = "report" => v = w
      BY <2>2, ReportIsOfTheStart
    <3> QED
      BY <1>1, <1>4, <1>5, <1>13, <3>1, <3>2 DEF FilesInv, ReportIsThere
  <2> QED
    BY <2>1, <2>2
<1>15. ListIsKept' /\ TornIsRecovered'
  BY <1>1, <1>4, <1>5, <1>7, <1>13, OwnStepKeepsList
<1> QED
  BY <1>6, <1>9, <1>11, <1>12, <1>14, <1>15 DEF FilesInv

\* The directory of this second is always among those that are kept.
LEMMA NewestHasThisSecond ==
    ASSUME NEW dirs, dirs \subseteq 1 .. second, second \in Nat \ {0}
    PROVE  /\ Newest(dirs \cup {second}) \subseteq dirs \cup {second}
           /\ second \in Newest(dirs \cup {second})
<1>1. {t \in dirs \cup {second} : t > second} = {}
  <2>1. \A t \in dirs \cup {second} : ~(t > second)
    OBVIOUS
  <2> QED
    BY <2>1
<1>2. Cardinality({t \in dirs \cup {second} : t > second}) < KeepBackups
  BY <1>1, FS_EmptySet, KeepAssumption
<1> QED
  BY <1>2 DEF Newest

LEMMA OpenKeepsInv ==
    ASSUME FilesInv, NEW w \in AllWriters, Open(w)
    PROVE  FilesInv'
<1> DEFINE dirs == Newest(DOMAIN backups \cup {second})
           blank == [users |-> 0, copy |-> [f \in ConfigFile |-> {}]]
<1>1. txn[w] \in Txns /\ Follows(txn[w]) /\ txn[w].at = "open" /\ txn[w].kind \notin {"none", "report"} /\ second \in Nat \ {0}
  BY DEF FilesInv, FileTypes, WhoWrites, Open, At, Follows, Resting
<1>2. txn' = [txn EXCEPT ![w] = [txn[w] EXCEPT !.at = "snapshot", !.stamp = second]]
  BY DEF Open, FilesInv, FileTypes
<1>3. txn'[w] = [txn[w] EXCEPT !.at = "snapshot", !.stamp = second]
      /\ [txn[w] EXCEPT !.at = "snapshot", !.stamp = second] \in Txns
  <2>1. second \in 0 .. second
    BY <1>1
  <2> QED
    BY <1>1, <1>2, <2>1 DEF FilesInv, FileTypes, Txns
<1>4. /\ backups' = [s \in dirs |-> IF s \in DOMAIN backups THEN backups[s] ELSE blank]
      /\ UNCHANGED <<disk, baks, second, listed, running, begun, crashes, acked, harm, replaced>>
  BY DEF Open
<1>5. dirs \subseteq DOMAIN backups \cup {second} /\ second \in dirs
  <2>1. DOMAIN backups \subseteq 1 .. second
    BY DEF FilesInv, FileTypes
  <2> QED
    BY <1>1, <2>1, NewestHasThisSecond
<1> HIDE DEF dirs
<1>6. /\ txn'[w].kind = txn[w].kind /\ txn'[w].payload = txn[w].payload
      /\ txn'[w].before = txn[w].before /\ txn'[w].clash = txn[w].clash /\ txn'[w].stamp = second
      /\ txn'[w].at = "snapshot" /\ txn'[w].done = txn[w].done /\ txn'[w].removed = txn[w].removed
  BY <1>1, <1>3 DEF Txns
<1>7. FileTypes'
  <2>1. txn' \in [AllWriters -> Txns]
    BY <1>2, <1>3 DEF FilesInv, FileTypes
  <2>2. Contents' = Contents /\ Txns' = Txns
    BY <1>4 DEF Contents, Txns
  <2>3. blank \in [users : Nat, copy : [ConfigFile -> Contents]]
    BY DEF Contents
  <2>4. \A s \in DOMAIN backups' : s \in 1 .. second /\ backups'[s] \in [users : Nat, copy : [ConfigFile -> Contents]]
    <3> HIDE DEF blank
    <3> SUFFICES ASSUME NEW s \in dirs
                 PROVE  s \in 1 .. second /\ backups'[s] \in [users : Nat, copy : [ConfigFile -> Contents]]
      BY <1>4
    <3>1. CASE s \in DOMAIN backups
      <4>1. backups'[s] = backups[s]
        BY <1>4, <3>1
      <4> QED
        BY <3>1, <4>1 DEF FilesInv, FileTypes
    <3>2. CASE s \notin DOMAIN backups
      <4>1. backups'[s] = blank /\ s = second
        BY <1>4, <1>5, <3>2
      <4> QED
        BY <1>1, <2>3, <4>1
    <3> QED
      BY <3>1, <3>2
  <2> QED
    BY <1>4, <2>1, <2>2, <2>4 DEF FilesInv, FileTypes
<1>8. OwnStep(w)
  <2>1. txn' = [txn EXCEPT ![w] = txn'[w]]
    BY <1>2, <1>3
  <2> QED
    BY <2>1, <1>1, <1>4, <1>6 DEF OwnStep
<1>9. Follows(txn'[w])
  BY <1>1, <1>6 DEF Follows, OneFile
<1>10. WhoWrites' /\ SaveIsOfTheList' /\ RivalsClash'
  BY <1>1, <1>6, <1>8, <1>9, OwnStepKeepsWriters
<1>11. ~txn[w].clash => AsBefore(w)'
  <2>1. Written(w)' = Written(w)
    BY <1>1, <1>6 DEF Written
  <2> QED
    BY <1>1, <1>4, <1>6, <2>1 DEF FilesInv, AsBefore
<1>12. \A v \in AllWriters : ~txn'[v].clash => AsBefore(v)'
  BY <1>8, <1>11, OwnStepKeepsOthers
<1>13. \A v \in AllWriters \ {w} : txn'[v] = txn[v]
  BY <1>2 DEF FilesInv, FileTypes
<1>14. DOMAIN backups' = dirs
  BY <1>4
<1>15. ASSUME NEW v \in AllWriters, txn'[v].kind \notin {"none", "report"}, txn'[v].at # "open",
              txn'[v].stamp \notin DOMAIN backups'
       PROVE  txn'[v].stamp < second'
  <2>1. v # w
    BY <1>5, <1>6, <1>14, <1>15
  <2>2. txn'[v] = txn[v] /\ txn[v] \in Txns
    BY <1>13, <2>1 DEF FilesInv, FileTypes
  <2>3. txn[v].stamp # second /\ txn[v].stamp \in 0 .. second
    BY <1>5, <1>14, <1>15, <2>2 DEF Txns
  <2> QED
    BY <1>1, <1>4, <2>2, <2>3
<1>16. ASSUME NEW v \in AllWriters, Copied(v)', txn'[v].stamp \in DOMAIN backups'
       PROVE  /\ backups'[txn'[v].stamp].users # 0
              /\ (backups'[txn'[v].stamp].users = 1 /\ ~txn'[v].clash) =>
                    \A f \in Files(txn'[v].kind) : backups'[txn'[v].stamp].copy[f] = txn'[v].before[f]
  <2>1. v # w
    BY <1>6, <1>16 DEF Copied
  <2>2. txn'[v] = txn[v] /\ txn[v] \in Txns
    BY <1>13, <2>1 DEF FilesInv, FileTypes
  <2>3. Copied(v)
    BY <1>16, <2>2 DEF Copied
  <2>4. txn[v].stamp \in DOMAIN backups
    <3> SUFFICES ASSUME txn[v].stamp \notin DOMAIN backups PROVE FALSE
      OBVIOUS
    <3>1. txn[v].stamp < second
      BY <2>3 DEF FilesInv, CopiesAreBefore, Copied
    <3>2. txn[v].stamp = second
      BY <1>5, <1>14, <1>16, <2>2
    <3> QED
      BY <1>1, <3>1, <3>2
  <2>5. backups'[txn[v].stamp] = backups[txn[v].stamp]
    BY <1>4, <1>14, <1>16, <2>2, <2>4
  <2> QED
    BY <2>2, <2>3, <2>4, <2>5 DEF FilesInv, CopiesAreBefore
<1>17. ASSUME NEW s \in DOMAIN backups', backups'[s].users = 0
       PROVE  backups'[s].copy = [f \in ConfigFile |-> {}]
  <2>1. s \in DOMAIN backups => backups'[s] = backups[s]
    BY <1>4, <1>14
  <2>2. s \notin DOMAIN backups => backups'[s] = blank
    BY <1>4, <1>14
  <2>3. CASE s \in DOMAIN backups
    BY <1>17, <2>1, <2>3 DEF FilesInv, CopiesAreBefore
  <2>4. CASE s \notin DOMAIN backups
    <3>1. blank.copy = [f \in ConfigFile |-> {}]
      OBVIOUS
    <3> QED
      BY <2>2, <2>4, <3>1
  <2> QED
    BY <2>3, <2>4
<1>18. CopiesAreBefore'
  <2> HIDE DEF blank
  <2> QED
    BY <1>15, <1>16, <1>17 DEF CopiesAreBefore
<1>19. ReportIsThere'
  BY <1>1, <1>8, OwnStepKeepsReport
<1>20. ListIsKept' /\ TornIsRecovered'
  BY <1>1, <1>4, <1>6, <1>8, OwnStepKeepsList
<1> QED
  BY <1>7, <1>10, <1>12, <1>18, <1>19, <1>20 DEF FilesInv

LEMMA CopyOldKeepsInv ==
    ASSUME FilesInv, NEW w \in AllWriters, CopyOld(w)
    PROVE  FilesInv'
<1> DEFINE s == txn[w].stamp
           there == {f \in Files(txn[w].kind) : disk[f] # {}}
           first == IF MoreWrites(txn[w].kind, 0) THEN "move" ELSE "delete"
           next == IF s \in DOMAIN backups \/ there = {} THEN first ELSE "failed"
           copies == [f \in ConfigFile |-> IF f \in there THEN disk[f] ELSE backups[s].copy[f]]
<1>1. txn[w] \in Txns /\ Follows(txn[w]) /\ txn[w].at = "snapshot" /\ txn[w].kind \notin {"none", "report"}
      /\ txn[w].done = 0 /\ txn[w].removed = {}
  <2>1. txn[w] \in Txns /\ Follows(txn[w]) /\ txn[w].at = "snapshot" /\ txn[w].kind \notin {"none", "report"}
    BY DEF FilesInv, FileTypes, WhoWrites, CopyOld, At, Follows, Resting
  <2> QED
    BY <2>1 DEF Follows, Txns, Kind, OneFile
<1>2. txn' = [txn EXCEPT ![w] = [txn[w] EXCEPT !.at = next]]
  BY DEF CopyOld, FilesInv, FileTypes
<1>3. /\ s \in DOMAIN backups => backups' = [backups EXCEPT ![s] = [users |-> backups[s].users + 1, copy |-> copies]]
      /\ s \notin DOMAIN backups => backups' = backups
      /\ UNCHANGED <<disk, baks, second, listed, running, begun, crashes, acked, harm, replaced>>
  BY DEF CopyOld
<1>4. first = IF txn[w].kind = "clean" THEN "delete" ELSE "move"
  BY <1>1, WriteOfKind DEF Txns, Kind, OneFile
<1>5. next \in {"move", "delete", "failed"} /\ (next = "delete" => txn[w].kind = "clean") /\ (next = "move" => txn[w].kind # "clean")
  BY <1>4
<1>6. \A f \in Files(txn[w].kind) : f \in ConfigFile
  BY <1>1, FilesAreFiles DEF Txns
<1> HIDE DEF next, copies, there
<1>7. txn'[w] = [txn[w] EXCEPT !.at = next] /\ [txn[w] EXCEPT !.at = next] \in Txns
  BY <1>1, <1>2, <1>5 DEF FilesInv, FileTypes, Txns
<1>8. /\ txn'[w].kind = txn[w].kind /\ txn'[w].payload = txn[w].payload
      /\ txn'[w].before = txn[w].before /\ txn'[w].clash = txn[w].clash /\ txn'[w].stamp = s
      /\ txn'[w].at = next /\ txn'[w].done = 0 /\ txn'[w].removed = {}
  BY <1>1, <1>7 DEF Txns
<1>9. s \in DOMAIN backups => backups[s].users \in Nat /\ backups[s].copy \in [ConfigFile -> Contents]
  BY DEF FilesInv, FileTypes
<1>10. s \in DOMAIN backups => copies \in [ConfigFile -> Contents]
  BY <1>9 DEF FilesInv, FileTypes, copies
<1>11. DOMAIN backups' = DOMAIN backups
       /\ \A r \in DOMAIN backups : r # s => backups'[r] = backups[r]
  BY <1>3
<1>12. s \in DOMAIN backups => backups'[s].users = backups[s].users + 1 /\ backups'[s].copy = copies
  BY <1>3
<1>13. FileTypes'
  <2>1. txn' \in [AllWriters -> Txns]
    BY <1>2, <1>7 DEF FilesInv, FileTypes
  <2>2. Contents' = Contents /\ Txns' = Txns
    BY <1>3 DEF Contents, Txns
  <2>3. \A r \in DOMAIN backups' : r \in 1 .. second /\ backups'[r] \in [users : Nat, copy : [ConfigFile -> Contents]]
    <3>1. s \in DOMAIN backups => [users |-> backups[s].users + 1, copy |-> copies] \in [users : Nat, copy : [ConfigFile -> Contents]]
      BY <1>9, <1>10
    <3> QED
      BY <1>3, <1>11, <3>1 DEF FilesInv, FileTypes
  <2> QED
    BY <1>3, <2>1, <2>2, <2>3 DEF FilesInv, FileTypes
<1>14. OwnStep(w)
  <2>1. txn' = [txn EXCEPT ![w] = txn'[w]]
    BY <1>2, <1>7
  <2> QED
    BY <2>1, <1>1, <1>3, <1>8 DEF OwnStep
<1>15. Follows(txn'[w])
  BY <1>1, <1>5, <1>8 DEF Follows, OneFile
<1>16. WhoWrites' /\ SaveIsOfTheList' /\ RivalsClash'
  BY <1>1, <1>5, <1>8, <1>14, <1>15, OwnStepKeepsWriters
<1>17. Written(w) = {} /\ Written(w)' = {}
  BY <1>1, <1>8 DEF Written
<1>18. ~txn[w].clash => \A f \in Files(txn[w].kind) : disk[f] = txn[w].before[f]
  BY <1>1, <1>17 DEF FilesInv, AsBefore
<1>19. ~txn[w].clash => AsBefore(w)'
  BY <1>3, <1>5, <1>8, <1>17, <1>18 DEF AsBefore
<1>20. \A v \in AllWriters : ~txn'[v].clash => AsBefore(v)'
  BY <1>14, <1>19, OwnStepKeepsOthers
<1>21. \A v \in AllWriters \ {w} : txn'[v] = txn[v]
  BY <1>2 DEF FilesInv, FileTypes
<1>22. ASSUME NEW v \in AllWriters, txn'[v].kind \notin {"none", "report"}, txn'[v].at # "open",
              txn'[v].stamp \notin DOMAIN backups'
       PROVE  txn'[v].stamp < second'
  <2>1. txn'[v].kind = txn[v].kind /\ txn'[v].stamp = txn[v].stamp /\ txn[v].at # "open"
    BY <1>1, <1>8, <1>21, <1>22
  <2> QED
    BY <1>3, <1>11, <1>22, <2>1 DEF FilesInv, CopiesAreBefore
<1>23. ASSUME NEW v \in AllWriters, Copied(v)', txn'[v].stamp \in DOMAIN backups'
       PROVE  /\ backups'[txn'[v].stamp].users # 0
              /\ (backups'[txn'[v].stamp].users = 1 /\ ~txn'[v].clash) =>
                    \A f \in Files(txn'[v].kind) : backups'[txn'[v].stamp].copy[f] = txn'[v].before[f]
  <2>1. CASE v = w
    <3>1. backups'[s].users = backups[s].users + 1 /\ backups[s].users \in Nat /\ s \in DOMAIN backups
      BY <1>8, <1>9, <1>11, <1>12, <1>23, <2>1
    <3>2. ASSUME backups'[s].users = 1, ~txn[w].clash, NEW f \in Files(txn[w].kind)
          PROVE  backups'[s].copy[f] = txn[w].before[f]
      <4>1. backups[s].copy = [e \in ConfigFile |-> {}]
        <5>1. backups[s].users = 0
          BY <3>1, <3>2
        <5> QED
          BY <3>1, <5>1 DEF FilesInv, CopiesAreBefore
      <4>2. copies[f] = disk[f]
        BY <1>6, <4>1 DEF copies, there
      <4> QED
        BY <1>12, <1>18, <3>1, <3>2, <4>2
    <3> QED
      BY <1>8, <2>1, <3>1, <3>2
  <2>2. CASE v # w
    <3>1. txn'[v] = txn[v]
      BY <1>21, <2>2
    <3>2. Copied(v) /\ txn[v].stamp \in DOMAIN backups
      BY <1>11, <1>23, <3>1 DEF Copied
    <3>3. /\ backups[txn[v].stamp].users # 0
          /\ (backups[txn[v].stamp].users = 1 /\ ~txn[v].clash) =>
                    \A f \in Files(txn[v].kind) : backups[txn[v].stamp].copy[f] = txn[v].before[f]
      BY <3>2 DEF FilesInv, CopiesAreBefore
    <3>4. CASE txn[v].stamp = s
      <4>1. backups'[s].users # 0 /\ backups'[s].users # 1
        BY <1>9, <1>12, <3>2, <3>3, <3>4
      <4> QED
        BY <3>1, <3>4, <4>1
    <3>5. CASE txn[v].stamp # s
      BY <1>11, <3>1, <3>2, <3>3, <3>5
    <3> QED
      BY <3>4, <3>5
  <2> QED
    BY <2>1, <2>2
<1>24. ASSUME NEW r \in DOMAIN backups', backups'[r].users = 0
       PROVE  backups'[r].copy = [f \in ConfigFile |-> {}]
  <2>1. r # s
    BY <1>9, <1>11, <1>12, <1>24
  <2> QED
    BY <1>11, <1>24, <2>1 DEF FilesInv, CopiesAreBefore
<1>25. CopiesAreBefore'
  BY <1>22, <1>23, <1>24 DEF CopiesAreBefore
<1>26. ReportIsThere'
  BY <1>1, <1>14, OwnStepKeepsReport
<1>27. ListIsKept' /\ TornIsRecovered'
  BY <1>1, <1>3, <1>5, <1>8, <1>14, OwnStepKeepsList
<1> QED
  BY <1>13, <1>16, <1>20, <1>25, <1>26, <1>27 DEF FilesInv

LEMMA Onward ==
    ASSUME NEW a \in Nat, NEW b, b \in {a, a + 1}
    PROVE  b \in Nat /\ 0 .. a \subseteq 0 .. b /\ 0 .. a + 9 \subseteq 0 .. b + 9 /\ 10 .. a + 9 \subseteq 10 .. b + 9
<1>1. CASE b = a
  BY <1>1
<1>2. CASE b = a + 1
  <2>1. a + 9 <= b + 9 /\ b + 9 \in Int /\ a + 9 \in Int /\ b \in Nat /\ a <= b
    BY <1>2
  <2> QED
    BY <2>1
<1> QED
  BY <1>1, <1>2

\* What is known to be a content stays one.
LEMMA ContentsGrow ==
    ASSUME FilesInv, begun' \in {begun, begun + 1}, second' \in {second, second + 1}
    PROVE  /\ Contents \subseteq Contents' /\ Txns \subseteq Txns'
           /\ [ConfigFile -> Contents] \subseteq [ConfigFile -> Contents']
           /\ Seq(Contents \ {{}}) \subseteq Seq(Contents' \ {{}})
<1>1. begun \in Nat /\ second \in Nat
  BY TransactionsAssumption DEF FilesInv, FileTypes
<1>2. Contents \subseteq Contents'
  <2>1. 0 .. begun + 9 \subseteq 0 .. begun' + 9
    BY <1>1, Onward
  <2> QED
    BY <2>1 DEF Contents
<1>3. 0 .. second \subseteq 0 .. second'
  BY <1>1, Onward
<1> HIDE DEF Contents
<1>4. Txns \subseteq Txns'
  <2> DEFINE Befores == {<<>>} \cup [{"bot"} -> Contents] \cup [{"report"} -> Contents] \cup [{"onebot", "napcat"} -> Contents]
  <2>1. Befores \subseteq Befores'
    BY <1>2
  <2> SUFFICES ASSUME NEW t \in Txns PROVE t \in Txns'
    OBVIOUS
  <2>2. t.before \in Befores'
    BY <2>1 DEF Txns
  <2> HIDE DEF Befores
  <2>3. Txns' = [kind : Kind \cup {"none"},
         at : {"rest", "open", "snapshot", "move", "install", "delete", "undo", "failed"},
         payload : Contents', stamp : 0 .. second', done : 0 .. 2,
         removed : SUBSET ConfigFile, moved : BOOLEAN, clash : BOOLEAN, before : Befores']
    BY DEF Txns, Befores
  <2>4. t \in [kind : Kind \cup {"none"},
         at : {"rest", "open", "snapshot", "move", "install", "delete", "undo", "failed"},
         payload : Contents, stamp : 0 .. second, done : 0 .. 2,
         removed : SUBSET ConfigFile, moved : BOOLEAN, clash : BOOLEAN, before : Befores]
    BY DEF Txns, Befores
  <2> QED
    BY <1>2, <1>3, <2>2, <2>3, <2>4
<1>5. Seq(Contents \ {{}}) \subseteq Seq(Contents' \ {{}})
  BY <1>2, SeqMonotonic
<1> QED
  BY <1>2, <1>4, <1>5

\* A record that is a transaction, whatever contents and seconds there are.
Admitted(t) ==
    \A P, n, B : (t.payload \in P /\ {} \in P /\ n \in Nat /\ t.before \in B /\ <<>> \in B) =>
        t \in [kind : Kind \cup {"none"},
               at : {"rest", "open", "snapshot", "move", "install", "delete", "undo", "failed"},
               payload : P, stamp : 0 .. n, done : 0 .. 2, removed : SUBSET ConfigFile,
               moved : BOOLEAN, clash : BOOLEAN, before : B]

\* A transaction begins: the others are what they were, but may know of a
\* rival now.
LEMMA EnterFacts ==
    ASSUME FilesInv, NEW w \in AllWriters, NEW kind \in Kind, NEW payload, Enter(w, kind, payload)
    PROVE  /\ DOMAIN txn' = AllWriters
           /\ txn'[w].kind = kind /\ txn'[w].payload = payload /\ txn'[w].stamp = 0
           /\ txn'[w].at = IF kind = "report" THEN "move" ELSE "open"
           /\ txn'[w].done = 0 /\ txn'[w].removed = {} /\ txn'[w].moved = FALSE
           /\ txn'[w].clash \in BOOLEAN
           /\ txn'[w].before = [f \in Files(kind) |-> disk[f]]
           /\ Admitted(txn'[w])
           /\ \A v \in AllWriters \ {w} :
                 /\ txn'[v] = txn[v] \/ (txn[v].kind # "none" /\ txn'[v] = [txn[v] EXCEPT !.clash = TRUE])
                 /\ Files(txn[v].kind) \cap Files(kind) # {} => txn'[v].clash /\ txn'[w].clash
<1> DEFINE rivals == {v \in AllWriters : Active(v) /\ Files(txn[v].kind) \cap Files(kind) # {}}
           mine == [Resting EXCEPT !.kind = kind, !.payload = payload,
                                   !.at = IF kind = "report" THEN "move" ELSE "open",
                                   !.clash = (rivals # {}),
                                   !.before = [f \in Files(kind) |-> disk[f]]]
<1>1. txn' = [v \in AllWriters |-> IF v = w THEN mine
                                   ELSE IF v \in rivals THEN [txn[v] EXCEPT !.clash = TRUE] ELSE txn[v]]
  BY DEF Enter
<1>2. \A v \in AllWriters : Files(txn[v].kind) \cap Files(kind) # {} => v \in rivals
  BY FilesOfKind DEF Active
<1>3. \A v \in AllWriters : v \in rivals => txn[v].kind # "none" /\ txn[v] \in Txns
  BY DEF Active, FilesInv, FileTypes
<1> HIDE DEF rivals
<1> DEFINE crowded == rivals # {}
<1> HIDE DEF crowded
<1> DEFINE first == IF kind = "report" THEN "move" ELSE "open"
           old == [f \in Files(kind) |-> disk[f]]
<1>4. mine = [Resting EXCEPT !.kind = kind, !.payload = payload, !.at = first, !.clash = crowded, !.before = old]
  BY DEF crowded
<1>11. crowded \in BOOLEAN /\ first \in {"open", "move"}
  BY DEF crowded
<1> HIDE DEF first, old
<1> HIDE DEF mine
<1>12. /\ mine.kind = kind /\ mine.payload = payload /\ mine.stamp = 0 /\ mine.at = first
       /\ mine.done = 0 /\ mine.removed = {} /\ mine.moved = FALSE /\ mine.clash = crowded /\ mine.before = old
  BY <1>4 DEF Resting
<1>13. Admitted(mine)
  <2> SUFFICES ASSUME NEW P, NEW n \in Nat, NEW B, mine.payload \in P, {} \in P, mine.before \in B, <<>> \in B
               PROVE  mine \in [kind : Kind \cup {"none"},
                                at : {"rest", "open", "snapshot", "move", "install", "delete", "undo", "failed"},
                                payload : P, stamp : 0 .. n, done : 0 .. 2, removed : SUBSET ConfigFile,
                                moved : BOOLEAN, clash : BOOLEAN, before : B]
    BY DEF Admitted
  <2>1. Resting \in [kind : Kind \cup {"none"},
                    at : {"rest", "open", "snapshot", "move", "install", "delete", "undo", "failed"},
                    payload : P, stamp : 0 .. n, done : 0 .. 2, removed : SUBSET ConfigFile,
                    moved : BOOLEAN, clash : BOOLEAN, before : B]
    BY DEF Resting
  <2> QED
    BY <1>4, <1>11, <1>12, <2>1
<1> HIDE DEF mine, rivals
<1>5. txn'[w] = mine /\ DOMAIN txn' = AllWriters
  BY <1>1
<1>6. \A v \in AllWriters \ {w} : txn'[v] = IF v \in rivals THEN [txn[v] EXCEPT !.clash = TRUE] ELSE txn[v]
  BY <1>1
<1>7. \A v \in AllWriters \ {w} :
         /\ txn'[v] = txn[v] \/ (txn[v].kind # "none" /\ txn'[v] = [txn[v] EXCEPT !.clash = TRUE])
         /\ v \in rivals => txn'[v].clash
  BY <1>3, <1>6 DEF Txns
<1>8. crowded \in BOOLEAN /\ \A v \in AllWriters : v \in rivals => crowded
  BY DEF crowded
<1>10. \A v \in AllWriters \ {w} : Files(txn[v].kind) \cap Files(kind) # {} => txn'[v].clash /\ txn'[w].clash
  BY <1>2, <1>5, <1>7, <1>8, <1>12
<1> QED
  BY <1>5, <1>7, <1>8, <1>10, <1>12, <1>13 DEF first, old

LEMMA EnterKeepsInv ==
    ASSUME FilesInv, NEW w \in AllWriters, NEW kind \in Kind, NEW payload \in Contents', payload # {},
           Enter(w, kind, payload),
           txn[w].kind = "none" \/ (txn[w].kind = "migrate" /\ kind = "report"),
           UNCHANGED <<disk, baks, backups, second, running, acked, harm, replaced>>,
           begun' \in {begun, begun + 1}, begun' <= MaxTransactions,
           w = Boot => kind \in {"migrate", "report"} /\ running = FALSE,
           w # Boot => kind \in {"save", "render", "clean", "import"} /\ running = TRUE,
           kind # "save" => listed' = listed,
           kind = "save" =>
              /\ \A v \in AllWriters : txn[v].kind # "save"
              /\ listed' # NotLoaded
              /\ \E k \in 10 .. begun' + 9 : payload = listed' \cup {k} /\ \A j \in listed' : j < k
              /\ listed' = listed \/ (listed = NotLoaded /\ listed' = disk["bot"]),
           kind = "migrate" /\ harm = {} => acked = {}
    PROVE  FilesInv'
<1>1. /\ DOMAIN txn' = AllWriters
      /\ txn'[w].kind = kind /\ txn'[w].payload = payload /\ txn'[w].stamp = 0
      /\ txn'[w].at = IF kind = "report" THEN "move" ELSE "open"
      /\ txn'[w].done = 0 /\ txn'[w].removed = {} /\ txn'[w].moved = FALSE
      /\ txn'[w].clash \in BOOLEAN
      /\ txn'[w].before = [f \in Files(kind) |-> disk[f]]
  BY EnterFacts
<1>2. \A v \in AllWriters \ {w} :
         /\ txn'[v] = txn[v] \/ (txn[v].kind # "none" /\ txn'[v] = [txn[v] EXCEPT !.clash = TRUE])
         /\ Files(txn[v].kind) \cap Files(kind) # {} => txn'[v].clash /\ txn'[w].clash
  BY EnterFacts
<1>3. ASSUME NEW v \in AllWriters \ {w}
      PROVE
         /\ txn'[v].kind = txn[v].kind /\ txn'[v].at = txn[v].at /\ txn'[v].payload = txn[v].payload
         /\ txn'[v].stamp = txn[v].stamp /\ txn'[v].done = txn[v].done /\ txn'[v].removed = txn[v].removed
         /\ txn'[v].moved = txn[v].moved /\ txn'[v].before = txn[v].before
         /\ txn[v].clash => txn'[v].clash
         /\ txn[v].kind = "none" => txn'[v] = txn[v]
         /\ txn'[v] \in Txns
  <2>1. txn[v] \in Txns
    BY DEF FilesInv, FileTypes
  <2>2. CASE txn'[v] = txn[v]
    BY <2>1, <2>2
  <2>3. CASE txn[v].kind # "none" /\ txn'[v] = [txn[v] EXCEPT !.clash = TRUE]
    BY <2>1, <2>3 DEF Txns
  <2> QED
    BY <1>2, <2>2, <2>3
<1>4. /\ Contents \subseteq Contents' /\ Txns \subseteq Txns'
      /\ [ConfigFile -> Contents] \subseteq [ConfigFile -> Contents']
      /\ Seq(Contents \ {{}}) \subseteq Seq(Contents' \ {{}})
  BY ContentsGrow
<1>5. begun \in Nat /\ begun' \in 0 .. MaxTransactions /\ second \in Nat \ {0}
  BY TransactionsAssumption DEF FilesInv, FileTypes
<1>6. txn'[w] \in Txns'
  <2>1. \A f \in Files(kind) : disk[f] \in Contents'
    BY <1>4, FilesAreFiles DEF FilesInv, FileTypes
  <2>2. txn'[w].before \in [{"bot"} -> Contents'] \cup [{"report"} -> Contents'] \cup [{"onebot", "napcat"} -> Contents']
    BY <1>1, <2>1, FilesOfKind DEF Kind
  <2>3. {} \in Contents' /\ second \in Nat
    BY <1>5 DEF Contents
  <2> DEFINE B == {<<>>} \cup [{"bot"} -> Contents'] \cup [{"report"} -> Contents']
                         \cup [{"onebot", "napcat"} -> Contents']
             T == [kind : Kind \cup {"none"},
                   at : {"rest", "open", "snapshot", "move", "install", "delete", "undo", "failed"},
                   payload : Contents', stamp : 0 .. second, done : 0 .. 2,
                   removed : SUBSET ConfigFile, moved : BOOLEAN, clash : BOOLEAN, before : B]
  <2>4. Txns' = T
    BY DEF Txns
  <2>5. txn'[w].before \in B /\ <<>> \in B
    BY <2>2
  <2> HIDE DEF Contents, B
  <2>6. txn'[w] \in T
    <3>1. Admitted(txn'[w]) /\ txn'[w].payload \in Contents'
      BY <1>1, EnterFacts
    <3> QED
      BY <2>3, <2>5, <3>1 DEF Admitted
  <2> HIDE DEF T
  <2> QED
    BY <2>4, <2>6
<1>7. FileTypes'
  <2>1. \A v \in AllWriters : txn'[v] \in Txns'
    BY <1>3, <1>4, <1>6
  <2>2. txn' \in [AllWriters -> Txns']
    <3>1. txn' = [v \in AllWriters |-> txn'[v]]
      BY DEF Enter
    <3> QED
      BY <2>1, <3>1
  <2>3. disk' \in [ConfigFile -> Contents'] /\ baks' \in [ConfigFile -> Seq(Contents' \ {{}})]
    BY <1>4 DEF FilesInv, FileTypes
  <2>4. \A s \in DOMAIN backups' : s \in 1 .. second' /\ backups'[s] \in [users : Nat, copy : [ConfigFile -> Contents']]
    BY <1>4 DEF FilesInv, FileTypes
  <2>5. listed' \in Contents' \cup {NotLoaded}
    BY <1>4 DEF FilesInv, FileTypes, ConfigFile
  <2>6. acked' \subseteq 10 .. begun' + 9
    <3>1. 10 .. begun + 9 \subseteq 10 .. begun' + 9
      BY <1>5, Onward
    <3> QED
      BY <3>1 DEF FilesInv, FileTypes
  <2> QED
    BY <1>5, <2>2, <2>3, <2>4, <2>5, <2>6 DEF FilesInv, FileTypes
<1>8. WhoWrites'
  <2>1. Follows(txn'[w])
    <3>1. DOMAIN txn'[w].before = Files(kind)
      BY <1>1
    <3> QED
      BY <1>1, <3>1 DEF Follows, OneFile, Kind
  <2>2. \A v \in AllWriters \ {w} : Follows(txn'[v])
    BY <1>3 DEF FilesInv, WhoWrites, Follows
  <2>3. txn'[Boot].kind \in {"none", "migrate", "report"}
    BY <1>1, <1>3 DEF FilesInv, WhoWrites, AllWriters
  <2>4. \A v \in ConfigWriters : txn'[v].kind \in {"none", "save", "render", "clean", "import"}
    BY <1>1, <1>3, BootAssumption DEF FilesInv, WhoWrites, AllWriters
  <2>5. running' => txn'[Boot] = Resting
    <3> SUFFICES ASSUME running = TRUE PROVE txn'[Boot] = Resting
      BY DEF FilesInv, FileTypes
    <3>1. w # Boot /\ Boot \in AllWriters \ {w} /\ txn[Boot] = Resting
      BY DEF FilesInv, WhoWrites, AllWriters
    <3> QED
      BY <3>1, <1>3 DEF Resting
  <2>6. ~running' => listed' = NotLoaded /\ \A v \in ConfigWriters : txn'[v] = Resting
    <3> SUFFICES ASSUME running = FALSE PROVE listed' = NotLoaded /\ \A v \in ConfigWriters : txn'[v] = Resting
      BY DEF FilesInv, FileTypes
    <3>1. w = Boot /\ listed = NotLoaded /\ \A v \in ConfigWriters : txn[v] = Resting
      BY DEF FilesInv, WhoWrites
    <3>2. \A v \in ConfigWriters : v \in AllWriters \ {w} /\ txn[v].kind = "none"
      BY <3>1, BootAssumption DEF AllWriters, Resting
    <3> QED
      BY <1>3, <3>1, <3>2
  <2>7. \A u, v \in AllWriters : txn'[u].kind = "save" /\ txn'[v].kind = "save" => u = v
    BY <1>1, <1>3 DEF FilesInv, WhoWrites
  <2>8. \A v \in AllWriters :
          txn'[v].kind = "import" /\ txn'[v].at \in {"install", "delete"} => "imported" \in harm'
    BY <1>1, <1>3 DEF FilesInv, WhoWrites
  <2> QED
    BY <2>1, <2>2, <2>3, <2>4, <2>5, <2>6, <2>7, <2>8 DEF WhoWrites
<1>9. SaveIsOfTheList'
  <2> SUFFICES ASSUME NEW v \in AllWriters, txn'[v].kind = "save"
               PROVE  /\ listed' # NotLoaded
                      /\ \E k \in 10 .. begun' + 9 : txn'[v].payload = listed' \cup {k} /\ \A j \in listed' : j < k
    BY DEF SaveIsOfTheList
  <2>1. CASE v = w
    BY <1>1, <2>1
  <2>2. CASE v # w
    <3>1. txn[v].kind = "save" /\ txn'[v].payload = txn[v].payload /\ listed' = listed
      BY <1>3, <2>2
    <3>2. listed # NotLoaded /\ \E k \in 10 .. begun + 9 : txn[v].payload = listed \cup {k} /\ \A j \in listed : j < k
      BY <3>1 DEF FilesInv, SaveIsOfTheList
    <3>3. 10 .. begun + 9 \subseteq 10 .. begun' + 9
      BY <1>5, Onward
    <3> QED
      BY <3>1, <3>2, <3>3
  <2> QED
    BY <2>1, <2>2
<1>10. ReportIsThere'
  <2>1. \A v \in AllWriters : txn'[v].kind = "report" /\ txn'[v].at = "install" =>
          v # w /\ txn[v].kind = "report" /\ txn[v].at = "install" /\ txn'[v].moved = txn[v].moved
    BY <1>1, <1>3
  <2>2. \A v \in AllWriters : txn[v].kind = "report" /\ txn[v].at = "install" =>
          txn'[v].kind = "report" /\ txn'[v].at = "install" /\ txn'[v].moved = txn[v].moved
    BY <1>3
  <2>3. \A v \in AllWriters : txn'[v].kind = "migrate" /\ harm = {} => acked = {}
    BY <1>1, <1>3 DEF FilesInv, ReportIsThere
  <2> QED
    BY <2>1, <2>2, <2>3 DEF FilesInv, ReportIsThere
<1>11. \A v \in AllWriters : (Holds(v)' => v # w /\ Holds(v)) /\ (HasWritten(v)' => v # w /\ HasWritten(v))
  BY <1>1, <1>3 DEF Holds, HasWritten
<1>12. ListIsKept'
  <2>1. \A v \in AllWriters : Holds(v)' /\ "imported" \notin harm' => disk'["bot"] = {}
    BY <1>11 DEF FilesInv, ListIsKept
  <2>2. \A v \in AllWriters : HasWritten(v)' /\ "imported" \notin harm' => disk'["bot"] = txn'[v].payload
    BY <1>3, <1>11 DEF FilesInv, ListIsKept
  <2>3. ASSUME harm' = {}, \A v \in AllWriters : ~Holds(v)' /\ ~HasWritten(v)'
        PROVE  acked' \subseteq disk'["bot"] /\ listed' \in {NotLoaded, disk'["bot"]}
    <3>1. CASE txn[w].kind = "none"
      <4>1. \A v \in AllWriters : ~Holds(v) /\ ~HasWritten(v)
        BY <1>3, <2>3, <3>1 DEF Holds, HasWritten
      <4> QED
        BY <2>3, <4>1 DEF FilesInv, ListIsKept
    <3>2. CASE txn[w].kind = "migrate" /\ kind = "report"
      <4>1. acked = {} /\ listed = NotLoaded
        BY <2>3, <3>2, ReportIsOfTheStart DEF FilesInv, ReportIsThere, WhoWrites
      <4> QED
        BY <3>2, <4>1
    <3> QED
      BY <3>1, <3>2
  <2>4. \A v \in AllWriters : txn'[v].kind = "save" /\ txn'[v].at \in {"install", "delete"} =>
           /\ v # w /\ txn[v].kind = "save" /\ txn[v].at = txn'[v].at /\ txn'[v].moved = txn[v].moved
           /\ listed' = listed
    BY <1>1, <1>3
  <2>5. harm' = {} => \A v \in AllWriters : txn'[v].kind = "save" /\ txn'[v].at = "install" =>
                /\ acked' \subseteq listed'
                /\ txn'[v].moved => baks'["bot"] # <<>> /\ Last(baks'["bot"]) = listed'
                /\ ~txn'[v].moved => listed' = {}
    BY <2>4 DEF FilesInv, ListIsKept
  <2>6. harm' = {} => \A v \in AllWriters : txn'[v].kind = "save" /\ txn'[v].at = "delete" => acked' \subseteq listed'
    BY <2>4 DEF FilesInv, ListIsKept
  <2> QED
    BY <2>1, <2>2, <2>3, <2>5, <2>6 DEF ListIsKept
<1>13. TornIsRecovered'
  BY DEF FilesInv, TornIsRecovered, Behind
<1>14. RivalsClash'
  <2> SUFFICES ASSUME NEW u \in AllWriters, NEW v \in AllWriters, u # v,
                      Files(txn'[u].kind) \cap Files(txn'[v].kind) # {}
               PROVE  txn'[v].clash
    BY DEF RivalsClash
  <2>1. CASE v = w
    BY <1>1, <1>2, <1>3, <2>1
  <2>2. CASE u = w
    BY <1>1, <1>2, <1>3, <2>2
  <2>3. CASE u # w /\ v # w
    BY <1>3, <2>3 DEF FilesInv, RivalsClash
  <2> QED
    BY <2>1, <2>2, <2>3
<1>15. \A v \in AllWriters : ~txn'[v].clash => AsBefore(v)'
  <2> SUFFICES ASSUME NEW v \in AllWriters, ~txn'[v].clash PROVE AsBefore(v)'
    OBVIOUS
  <2>1. CASE v = w
    <3>1. txn'[w].at # "install" /\ txn'[w].removed = {}
      BY <1>1
    <3>2. \A f \in Files(kind) : disk'[f] = txn'[w].before[f]
      BY <1>1
    <3> QED
      BY <1>1, <2>1, <3>1, <3>2 DEF AsBefore
  <2>2. CASE v # w
    <3>1. Written(v)' = Written(v) /\ WriteAt(v)' = WriteAt(v)
      BY <1>3, <2>2 DEF Written, WriteAt
    <3>2. ~txn[v].clash /\ AsBefore(v)
      BY <1>3, <2>2 DEF FilesInv
    <3> QED
      BY <1>3, <2>2, <3>1, <3>2 DEF AsBefore
  <2> QED
    BY <2>1, <2>2
<1>16. CopiesAreBefore'
  <2>1. \A v \in AllWriters : (Copied(v)' => v # w /\ Copied(v)) /\
            (txn'[v].kind \notin {"none", "report"} /\ txn'[v].at # "open" => v # w)
    BY <1>1, <1>3 DEF Copied
  <2>2. ASSUME NEW v \in AllWriters, txn'[v].kind \notin {"none", "report"}, txn'[v].at # "open",
               txn'[v].stamp \notin DOMAIN backups'
        PROVE  txn'[v].stamp < second'
    BY <1>3, <2>1, <2>2 DEF FilesInv, CopiesAreBefore
  <2>3. ASSUME NEW v \in AllWriters, Copied(v)', txn'[v].stamp \in DOMAIN backups'
        PROVE  /\ backups'[txn'[v].stamp].users # 0
               /\ (backups'[txn'[v].stamp].users = 1 /\ ~txn'[v].clash) =>
                    \A f \in Files(txn'[v].kind) : backups'[txn'[v].stamp].copy[f] = txn'[v].before[f]
    BY <1>3, <2>1, <2>3 DEF FilesInv, CopiesAreBefore
  <2>4. \A s \in DOMAIN backups' : backups'[s].users = 0 => backups'[s].copy = [f \in ConfigFile |-> {}]
    BY DEF FilesInv, CopiesAreBefore
  <2> QED
    BY <2>2, <2>3, <2>4 DEF CopiesAreBefore
<1> QED
  BY <1>7, <1>8, <1>9, <1>10, <1>12, <1>13, <1>14, <1>15, <1>16 DEF FilesInv

LEMMA SaveKeepsInv ==
    ASSUME FilesInv, NEW w \in ConfigWriters, Save(w)
    PROVE  FilesInv'
<1> DEFINE bots == IF listed = NotLoaded THEN disk["bot"] ELSE listed
<1>1. /\ w \in AllWriters /\ w # Boot /\ txn[w].kind = "none" /\ running = TRUE
      /\ begun < MaxTransactions /\ begun' = begun + 1
      /\ \A v \in AllWriters : txn[v].kind # "save"
      /\ listed' = bots /\ Enter(w, "save", bots \cup {begun + 10})
      /\ UNCHANGED <<disk, baks, backups, second, running, crashes, failures, acked, harm, replaced>>
  BY BootAssumption DEF Save, NewRequest, Active, RequestId, AllWriters, FilesInv, FileTypes
<1>2. begun \in Nat /\ MaxTransactions \in Nat
  BY TransactionsAssumption DEF FilesInv, FileTypes
<1>3. bots \in Contents
  BY DEF FilesInv, FileTypes, ConfigFile
<1>4. listed = NotLoaded \/ listed' = listed
  BY <1>1
<1> HIDE DEF bots
<1>5. bots \subseteq 0 .. begun + 9
  BY <1>3 DEF Contents
<1>6. bots \cup {begun + 10} \in Contents' /\ bots \cup {begun + 10} # {}
  <2>1. begun' + 9 = begun + 10
    BY <1>1, <1>2
  <2>2. bots \cup {begun + 10} \subseteq 0 .. begun' + 9
    BY <1>2, <1>5, <2>1
  <2> QED
    BY <2>2 DEF Contents
<1>7. bots # NotLoaded
  BY <1>2, <1>5 DEF NotLoaded
<1>8. begun + 10 \in 10 .. begun' + 9 /\ \A j \in bots : j < begun + 10
  BY <1>1, <1>2, <1>5
<1>9. listed' = listed \/ (listed = NotLoaded /\ listed' = disk["bot"])
  BY <1>1, <1>4 DEF bots
<1>10. begun' \in {begun, begun + 1} /\ begun' <= MaxTransactions
  BY <1>1, <1>2
<1>11. "save" \in Kind
  BY DEF Kind
<1> QED
  BY <1>1, <1>6, <1>7, <1>8, <1>9, <1>10, <1>11, EnterKeepsInv

LEMMA RenderOrImportKeepsInv ==
    ASSUME FilesInv, NEW w \in ConfigWriters, NEW kind, RenderOrImport(w, kind)
    PROVE  FilesInv'
<1>1. /\ w \in AllWriters /\ w # Boot /\ txn[w].kind = "none" /\ running = TRUE
      /\ begun < MaxTransactions /\ begun' = begun + 1 /\ kind \in {"render", "clean", "import"}
      /\ Enter(w, kind, {begun + 10})
      /\ UNCHANGED <<disk, baks, backups, second, listed, running, crashes, failures, acked, harm, replaced>>
  BY BootAssumption DEF RenderOrImport, NewRequest, Active, RequestId, AllWriters, FilesInv, FileTypes
<1>2. begun \in Nat /\ MaxTransactions \in Nat
  BY TransactionsAssumption DEF FilesInv, FileTypes
<1>3. {begun + 10} \in Contents' /\ {begun + 10} # {}
  <2>1. {begun + 10} \subseteq 0 .. begun' + 9
    BY <1>1, <1>2
  <2> QED
    BY <2>1 DEF Contents
<1>4. begun' \in {begun, begun + 1} /\ begun' <= MaxTransactions
  BY <1>1, <1>2
<1>5. kind \in Kind
  BY <1>1 DEF Kind
<1> QED
  BY <1>1, <1>3, <1>4, <1>5, EnterKeepsInv

\* What the start-up writes has nothing to do with requests.
LEMMA StartWritesContents ==
    ASSUME FilesInv, begun' = begun
    PROVE  LegacyBots \in Contents' /\ LegacyBots # {}
           /\ \A r \in {"migrated", "failed", "clean"} : ReportOf[r] \in Contents' /\ ReportOf[r] # {}
<1>1. begun' \in Nat
  BY DEF FilesInv, FileTypes
<1>2. {0} \subseteq 0 .. begun' + 9 /\ {1} \subseteq 0 .. begun' + 9 /\ {2} \subseteq 0 .. begun' + 9 /\ {3} \subseteq 0 .. begun' + 9
  BY <1>1
<1> QED
  BY <1>2 DEF Contents, LegacyBots, ReportOf

\* Where no file and no transaction changes, the files stay as they were.
LEMMA AsBeforeStays ==
    ASSUME FilesInv, UNCHANGED <<disk, baks, txn>>
    PROVE  \A w \in AllWriters : ~txn'[w].clash => AsBefore(w)'
<1> SUFFICES ASSUME NEW w \in AllWriters, ~txn'[w].clash PROVE AsBefore(w)'
  OBVIOUS
<1>1. Written(w)' = Written(w) /\ WriteAt(w)' = WriteAt(w)
  BY DEF Written, WriteAt
<1>2. AsBefore(w)
  BY DEF FilesInv
<1> QED
  BY <1>1, <1>2 DEF AsBefore

LEMMA BootLookKeepsInv ==
    ASSUME FilesInv, BootLook
    PROVE  FilesInv'
<1>1. /\ running = FALSE /\ txn[Boot].kind = "none" /\ Boot \in AllWriters
      /\ UNCHANGED <<disk, baks, backups, second, listed, begun, crashes, failures, acked, harm, replaced>>
  BY DEF BootLook, Active, AllWriters, FilesInv, FileTypes
<1>2. LegacyBots \in Contents' /\ LegacyBots # {} /\ ReportOf.clean \in Contents' /\ ReportOf.clean # {}
  BY <1>1, StartWritesContents DEF ReportOf
<1>3. begun' \in {begun, begun + 1} /\ begun' <= MaxTransactions
  BY <1>1 DEF FilesInv, FileTypes
<1>4. CASE disk["report"] # {} /\ disk["report"] = ReportOf.clean
  <2>1. running' = TRUE /\ UNCHANGED txn
    BY <1>4 DEF BootLook
  <2>2. Contents' = Contents /\ Txns' = Txns
    BY <1>1 DEF Contents, Txns
  <2>3. FileTypes'
    BY <1>1, <2>1, <2>2 DEF FilesInv, FileTypes
  <2>4. txn'[Boot] = Resting
    BY <1>1, <2>1 DEF FilesInv, WhoWrites, Follows
  <2>5. WhoWrites'
    BY <1>1, <2>1, <2>4 DEF FilesInv, WhoWrites
  <2>6. SaveIsOfTheList' /\ ListIsKept' /\ TornIsRecovered' /\ RivalsClash' /\ CopiesAreBefore'
    BY <1>1, <2>1 DEF FilesInv, SaveIsOfTheList, ListIsKept, TornIsRecovered, RivalsClash, CopiesAreBefore,
                      Holds, HasWritten, Behind, Copied
  <2>7. ReportIsThere'
    BY <1>1, <1>4, <2>1 DEF FilesInv, ReportIsThere
  <2>8. \A w \in AllWriters : ~txn'[w].clash => AsBefore(w)'
    BY <1>1, <2>1, AsBeforeStays
  <2> QED
    BY <2>3, <2>5, <2>6, <2>7, <2>8 DEF FilesInv
<1>5. CASE disk["report"] # {} /\ disk["report"] # ReportOf.clean
  <2>1. Enter(Boot, "report", ReportOf.clean) /\ UNCHANGED running
    BY <1>5 DEF BootLook
  <2>2. "report" \in Kind
    BY DEF Kind
  <2> QED
    BY <1>1, <1>2, <1>3, <2>1, <2>2, EnterKeepsInv
<1>6. CASE disk["report"] = {}
  <2>1. Enter(Boot, "migrate", LegacyBots) /\ UNCHANGED running
    BY <1>6 DEF BootLook
  <2>2. harm = {} => acked = {}
    <3>1. \A w \in AllWriters : txn[w].kind # "report"
      BY <1>1, ReportIsOfTheStart
    <3> QED
      BY <1>6, <3>1 DEF FilesInv, ReportIsThere
  <2>3. "migrate" \in Kind
    BY DEF Kind
  <2> QED
    BY <1>1, <1>2, <1>3, <2>1, <2>2, <2>3, EnterKeepsInv
<1> QED
  BY <1>4, <1>5, <1>6

LEMMA BootReportKeepsInv ==
    ASSUME FilesInv, BootReport
    PROVE  FilesInv'
<1> DEFINE report == IF At(Boot, "failed") THEN ReportOf.failed ELSE ReportOf.migrated
<1>1. /\ txn[Boot].kind = "migrate" /\ Boot \in AllWriters /\ Enter(Boot, "report", report)
      /\ UNCHANGED <<disk, baks, backups, second, listed, running, begun, crashes, failures, acked, harm, replaced>>
  BY DEF BootReport, AllWriters
<1>2. report \in Contents' /\ report # {}
  BY <1>1, StartWritesContents DEF ReportOf
<1> HIDE DEF report
<1>3. running = FALSE
  BY <1>1, ReportIsOfTheStart
<1>4. begun' \in {begun, begun + 1} /\ begun' <= MaxTransactions
  BY <1>1 DEF FilesInv, FileTypes
<1>5. "report" \in Kind
  BY DEF Kind
<1> QED
  BY <1>1, <1>2, <1>3, <1>4, <1>5, EnterKeepsInv

-----------------------------------------------------------------------------
\* A transaction ends: its writer rests, and nothing on disk changes.
LEMMA LeaveKeepsFiles ==
    ASSUME FilesInv, NEW w \in AllWriters, txn' = [txn EXCEPT ![w] = Resting],
           UNCHANGED <<disk, baks, backups, second, begun>>
    PROVE  /\ Contents' = Contents /\ Txns' = Txns /\ txn' \in [AllWriters -> Txns]
           /\ \A v \in AllWriters \ {w} : txn'[v] = txn[v]
           /\ txn'[w] = Resting
           /\ \A v \in AllWriters : Follows(txn'[v])
           /\ RivalsClash' /\ (\A v \in AllWriters : ~txn'[v].clash => AsBefore(v)') /\ CopiesAreBefore'
<1>1. Contents' = Contents /\ Txns' = Txns
  BY DEF Contents, Txns
<1>2. Resting \in Txns
  BY DEF Resting, Txns, Contents, FilesInv, FileTypes
<1>3. txn' \in [AllWriters -> Txns] /\ txn'[w] = Resting /\ \A v \in AllWriters \ {w} : txn'[v] = txn[v]
  BY <1>2 DEF FilesInv, FileTypes
<1>4. Follows(Resting)
  BY DEF Follows, Resting, OneFile
<1>5. txn'[w].kind = "none" /\ Files("none") = {}
  BY <1>3, FilesOfKind DEF Resting
<1>6. RivalsClash'
  BY <1>3, <1>5 DEF FilesInv, RivalsClash
<1>7. ASSUME NEW v \in AllWriters, ~txn'[v].clash
      PROVE  AsBefore(v)'
  <2>1. CASE v = w
    BY <1>5, <2>1 DEF AsBefore
  <2>2. CASE v # w
    <3>1. txn'[v] = txn[v]
      BY <1>3, <2>2
    <3>2. Written(v)' = Written(v) /\ WriteAt(v)' = WriteAt(v)
      BY <3>1 DEF Written, WriteAt
    <3> QED
      BY <1>7, <3>1, <3>2 DEF FilesInv, AsBefore
  <2> QED
    BY <2>1, <2>2
<1>8. CopiesAreBefore'
  <2>1. \A v \in AllWriters : txn'[v].kind \notin {"none", "report"} => v # w /\ txn'[v] = txn[v]
    BY <1>3, <1>5
  <2>2. \A v \in AllWriters : Copied(v)' => Copied(v) /\ txn'[v] = txn[v]
    BY <2>1 DEF Copied
  <2>3. ASSUME NEW v \in AllWriters, txn'[v].kind \notin {"none", "report"}, txn'[v].at # "open",
               txn'[v].stamp \notin DOMAIN backups'
        PROVE  txn'[v].stamp < second'
    BY <2>1, <2>3 DEF FilesInv, CopiesAreBefore
  <2>4. ASSUME NEW v \in AllWriters, Copied(v)', txn'[v].stamp \in DOMAIN backups'
        PROVE  /\ backups'[txn'[v].stamp].users # 0
               /\ (backups'[txn'[v].stamp].users = 1 /\ ~txn'[v].clash) =>
                    \A f \in Files(txn'[v].kind) : backups'[txn'[v].stamp].copy[f] = txn'[v].before[f]
    BY <2>2, <2>4 DEF FilesInv, CopiesAreBefore
  <2>5. \A s \in DOMAIN backups' : backups'[s].users = 0 => backups'[s].copy = [f \in ConfigFile |-> {}]
    BY DEF FilesInv, CopiesAreBefore
  <2> QED
    BY <2>3, <2>4, <2>5 DEF CopiesAreBefore
<1> QED
  BY <1>1, <1>3, <1>4, <1>6, <1>7, <1>8 DEF FilesInv, WhoWrites
\* A request that ends without having changed the list.
LEMMA LeaveKeepsInv ==
    ASSUME FilesInv, NEW w \in ConfigWriters, txn' = [txn EXCEPT ![w] = Resting],
           UNCHANGED <<disk, baks, backups, second, listed, running, begun, acked, harm, replaced>>,
           ~Holds(w), ~HasWritten(w)
    PROVE  FilesInv'
<1>1. w \in AllWriters /\ w # Boot
  BY BootAssumption DEF AllWriters
<1>2. /\ Contents' = Contents /\ Txns' = Txns /\ txn' \in [AllWriters -> Txns]
      /\ \A v \in AllWriters \ {w} : txn'[v] = txn[v]
      /\ txn'[w] = Resting /\ \A v \in AllWriters : Follows(txn'[v])
      /\ RivalsClash' /\ (\A v \in AllWriters : ~txn'[v].clash => AsBefore(v)') /\ CopiesAreBefore'
  BY <1>1, LeaveKeepsFiles
<1>3. Resting.kind = "none"
  BY DEF Resting
<1>4. FileTypes'
  BY <1>2 DEF FilesInv, FileTypes
<1>5. WhoWrites'
  <2>1. txn'[Boot] = txn[Boot]
    BY <1>1, <1>2 DEF AllWriters
  <2>2. txn'[Boot].kind \in {"none", "migrate", "report"}
        /\ (running' => txn'[Boot] = Resting)
    BY <2>1 DEF FilesInv, WhoWrites
  <2>3. \A v \in ConfigWriters : txn'[v].kind \in {"none", "save", "render", "clean", "import"}
    BY <1>2, <1>3 DEF FilesInv, WhoWrites, AllWriters
  <2>4. ~running' => listed' = NotLoaded /\ \A v \in ConfigWriters : txn'[v] = Resting
    BY <1>2 DEF FilesInv, WhoWrites, AllWriters
  <2>5. \A u, v \in AllWriters : txn'[u].kind = "save" /\ txn'[v].kind = "save" => u = v
    BY <1>2, <1>3 DEF FilesInv, WhoWrites
  <2>6. \A v \in AllWriters :
          txn'[v].kind = "import" /\ txn'[v].at \in {"install", "delete"} => "imported" \in harm'
    BY <1>2, <1>3 DEF FilesInv, WhoWrites
  <2> QED
    BY <1>2, <2>2, <2>3, <2>4, <2>5, <2>6 DEF WhoWrites
<1>6. SaveIsOfTheList'
  BY <1>2, <1>3 DEF FilesInv, SaveIsOfTheList
<1>7. ReportIsThere'
  <2>1. \A v \in AllWriters : txn'[v].kind # "none" => txn'[v] = txn[v]
    BY <1>2, <1>3
  <2>2. \A v \in AllWriters : txn[v].kind = "report" => txn'[v] = txn[v]
    BY <1>1, <1>2, ReportIsOfTheStart
  <2> QED
    BY <2>1, <2>2 DEF FilesInv, ReportIsThere
<1>8. \A v \in AllWriters : Holds(v)' = Holds(v) /\ HasWritten(v)' = HasWritten(v)
  BY <1>2, <1>3 DEF Holds, HasWritten
<1>9. ListIsKept'
  <2>1. \A v \in AllWriters : txn'[v].kind # "none" => txn'[v] = txn[v]
    BY <1>2, <1>3
  <2>2. \A v \in AllWriters : Holds(v)' /\ "imported" \notin harm' => disk'["bot"] = {}
    BY <1>8 DEF FilesInv, ListIsKept
  <2>3. \A v \in AllWriters : HasWritten(v)' /\ "imported" \notin harm' => disk'["bot"] = txn'[v].payload
    BY <1>8, <2>1 DEF FilesInv, ListIsKept, HasWritten
  <2>4. ASSUME harm' = {}, \A v \in AllWriters : ~Holds(v)' /\ ~HasWritten(v)'
        PROVE  acked' \subseteq disk'["bot"] /\ listed' \in {NotLoaded, disk'["bot"]}
    BY <1>8, <2>4 DEF FilesInv, ListIsKept
  <2>5. harm' = {} => \A v \in AllWriters : txn'[v].kind = "save" /\ txn'[v].at = "install" =>
                /\ acked' \subseteq listed'
                /\ txn'[v].moved => baks'["bot"] # <<>> /\ Last(baks'["bot"]) = listed'
                /\ ~txn'[v].moved => listed' = {}
    BY <2>1 DEF FilesInv, ListIsKept
  <2>6. harm' = {} => \A v \in AllWriters : txn'[v].kind = "save" /\ txn'[v].at = "delete" => acked' \subseteq listed'
    BY <2>1 DEF FilesInv, ListIsKept
  <2> QED
    BY <2>2, <2>3, <2>4, <2>5, <2>6 DEF ListIsKept
<1>10. TornIsRecovered'
  BY DEF FilesInv, TornIsRecovered, Behind
<1> QED
  BY <1>2, <1>4, <1>5, <1>6, <1>7, <1>9, <1>10 DEF FilesInv

LEMMA ReturnErrKeepsInv ==
    ASSUME FilesInv, NEW w \in ConfigWriters, ReturnErr(w)
    PROVE  FilesInv'
<1>1. ~Holds(w) /\ ~HasWritten(w)
  BY DEF ReturnErr, At, Holds, HasWritten
<1> QED
  BY <1>1, LeaveKeepsInv DEF ReturnErr

\* The change a save acknowledges is the newest one in its list.
LEMMA SaveAcknowledges ==
    ASSUME FilesInv, NEW w \in AllWriters, txn[w].kind = "save"
    PROVE  /\ listed \subseteq txn[w].payload
           /\ (CHOOSE k \in txn[w].payload : \A j \in txn[w].payload : j <= k)
                 \in txn[w].payload \cap (10 .. begun + 9)
<1> DEFINE payload == txn[w].payload
           newest == CHOOSE k \in payload : \A j \in payload : j <= k
<1>1. PICK k \in 10 .. begun + 9 : payload = listed \cup {k} /\ \A j \in listed : j < k
  BY DEF FilesInv, SaveIsOfTheList
<1>2. payload \subseteq Nat
  BY DEF FilesInv, FileTypes, Txns, Contents
<1>3. k \in payload /\ \A j \in payload : j <= k
  BY <1>1, <1>2
<1>4. newest \in payload /\ \A j \in payload : j <= newest
  BY <1>3
<1> HIDE DEF newest
<1>5. newest = k
  BY <1>2, <1>3, <1>4
<1> QED
  BY <1>1, <1>3, <1>5 DEF newest

LEMMA ReturnOkKeepsInv ==
    ASSUME FilesInv, NEW w \in ConfigWriters, ReturnOk(w)
    PROVE  FilesInv'
<1>1. /\ w \in AllWriters /\ w # Boot /\ txn[w].at = "delete" /\ txn' = [txn EXCEPT ![w] = Resting]
      /\ UNCHANGED <<disk, baks, backups, second, running, begun, crashes, failures, harm, replaced>>
  BY BootAssumption DEF ReturnOk, At, AllWriters
<1>2. CASE txn[w].kind # "save"
  <2>1. UNCHANGED <<listed, acked>>
    BY <1>2 DEF ReturnOk
  <2>2. ~Holds(w) /\ ~HasWritten(w)
    BY <1>2 DEF Holds, HasWritten, FilesInv, WhoWrites
  <2> QED
    BY <1>1, <2>1, <2>2, LeaveKeepsInv
<1>3. CASE txn[w].kind = "save"
  <2> DEFINE newest == CHOOSE k \in txn[w].payload : \A j \in txn[w].payload : j <= k
  <2>1. listed' = txn[w].payload /\ acked' = acked \cup {newest}
    BY <1>3 DEF ReturnOk
  <2>2. listed \subseteq txn[w].payload /\ newest \in txn[w].payload /\ newest \in 10 .. begun + 9
    BY <1>1, <1>3, SaveAcknowledges
  <2> HIDE DEF newest
  <2>3. /\ Contents' = Contents /\ Txns' = Txns /\ txn' \in [AllWriters -> Txns]
        /\ \A v \in AllWriters \ {w} : txn'[v] = txn[v]
        /\ txn'[w] = Resting /\ \A v \in AllWriters : Follows(txn'[v])
        /\ RivalsClash' /\ (\A v \in AllWriters : ~txn'[v].clash => AsBefore(v)') /\ CopiesAreBefore'
    BY <1>1, LeaveKeepsFiles
  <2>4. Resting.kind = "none"
    BY DEF Resting
  <2>5. running = TRUE
    BY <1>1, <1>3, <2>4 DEF FilesInv, FileTypes, WhoWrites
  <2>6. \A v \in AllWriters : txn'[v].kind # "none" => v # w /\ txn'[v] = txn[v]
    BY <2>3, <2>4
  <2>7. \A v \in AllWriters : txn'[v].kind \notin {"save", "migrate", "report"}
    <3>1. \A v \in AllWriters : txn[v].kind \notin {"migrate", "report"}
      BY <2>5, ReportIsOfTheStart
    <3>2. \A v \in AllWriters : txn[v].kind = "save" => v = w
      BY <1>1, <1>3 DEF FilesInv, WhoWrites
    <3> QED
      BY <2>6, <3>1, <3>2
  <2>8. FileTypes'
    <3>1. listed' \in Contents /\ acked' \subseteq 10 .. begun + 9
      BY <1>1, <2>1, <2>2 DEF FilesInv, FileTypes, Txns
    <3> QED
      BY <1>1, <2>3, <3>1 DEF FilesInv, FileTypes
  <2>9. WhoWrites'
    <3>1. txn'[Boot] = txn[Boot]
      BY <1>1, <2>3 DEF AllWriters
    <3>2. txn'[Boot].kind \in {"none", "migrate", "report"} /\ (running' => txn'[Boot] = Resting)
      BY <1>1, <3>1 DEF FilesInv, WhoWrites
    <3>3. \A v \in ConfigWriters : txn'[v].kind \in {"none", "save", "render", "clean", "import"}
      BY <2>3, <2>4 DEF FilesInv, WhoWrites, AllWriters
    <3>4. running' = TRUE
      BY <1>1, <2>5
    <3>5. \A v \in AllWriters :
            txn'[v].kind = "import" /\ txn'[v].at \in {"install", "delete"} => "imported" \in harm'
      BY <1>1, <2>6 DEF FilesInv, WhoWrites
    <3> QED
      BY <2>3, <2>7, <3>2, <3>3, <3>4, <3>5 DEF WhoWrites
  <2>10. SaveIsOfTheList'
    BY <2>7 DEF SaveIsOfTheList
  <2>11. ReportIsThere'
    <3>1. ~(harm = {} /\ disk["report"] = {})
      <4>1. \A v \in AllWriters : txn[v].kind # "report"
        BY <2>5, ReportIsOfTheStart
      <4> QED
        BY <2>5, <4>1 DEF FilesInv, ReportIsThere
    <3> QED
      BY <1>1, <2>7, <3>1 DEF ReportIsThere
  <2>12. HasWritten(w)
    BY <1>1, <1>3 DEF HasWritten
  <2>13. ListIsKept'
    <3>1. \A v \in AllWriters : ~Holds(v)' /\ ~HasWritten(v)'
      BY <2>7 DEF Holds, HasWritten
    <3>2. harm' = {} => acked' \subseteq disk'["bot"] /\ listed' \in {NotLoaded, disk'["bot"]}
      <4>1. harm = {} => disk["bot"] = txn[w].payload /\ acked \subseteq listed
        BY <1>1, <1>3, <2>12 DEF FilesInv, ListIsKept
      <4> QED
        BY <1>1, <2>1, <2>2, <4>1
    <3> QED
      BY <2>7, <3>1, <3>2 DEF ListIsKept
  <2>14. TornIsRecovered'
    <3>1. harm = {"torn"} => disk["bot"] = txn[w].payload
      BY <1>1, <2>12 DEF FilesInv, ListIsKept
    <3>2. Behind' = Behind /\ baks'["bot"] = baks["bot"] /\ disk' = disk
      BY <1>1 DEF Behind
    <3>3. (harm = {"torn"} /\ replaced <= KeepBaks) => acked' \subseteq disk["bot"] \cup NewestOf(baks["bot"], Behind)
      BY <2>1, <2>2, <3>1 DEF FilesInv, TornIsRecovered
    <3> QED
      BY <1>1, <3>2, <3>3 DEF FilesInv, TornIsRecovered
  <2> QED
    BY <2>3, <2>8, <2>9, <2>10, <2>11, <2>13, <2>14 DEF FilesInv
<1> QED
  BY <1>2, <1>3

LEMMA BootDoneKeepsInv ==
    ASSUME FilesInv, BootDone
    PROVE  FilesInv'
<1>1. /\ txn[Boot].kind = "report" /\ txn' = [txn EXCEPT ![Boot] = Resting] /\ Boot \in AllWriters
      /\ running' = TRUE /\ harm' = IF disk["report"] = {} THEN harm \cup {"unreported"} ELSE harm
      /\ UNCHANGED <<disk, baks, backups, second, listed, begun, crashes, failures, acked, replaced>>
  BY DEF BootDone, AllWriters
<1>2. /\ Contents' = Contents /\ Txns' = Txns /\ txn' \in [AllWriters -> Txns]
      /\ \A v \in AllWriters \ {Boot} : txn'[v] = txn[v]
      /\ txn'[Boot] = Resting /\ \A v \in AllWriters : Follows(txn'[v])
      /\ RivalsClash' /\ (\A v \in AllWriters : ~txn'[v].clash => AsBefore(v)') /\ CopiesAreBefore'
  BY <1>1, LeaveKeepsFiles
<1>3. running = FALSE
  BY <1>1, ReportIsOfTheStart
<1>4. listed = NotLoaded /\ \A v \in AllWriters : txn'[v] = Resting
  BY <1>2, <1>3 DEF FilesInv, WhoWrites, AllWriters
<1>5. Resting.kind = "none"
  BY DEF Resting
<1>6. FileTypes'
  <2>1. harm' \subseteq {"torn", "imported", "unreported"}
    BY <1>1 DEF FilesInv, FileTypes
  <2> QED
    BY <1>1, <1>2, <2>1 DEF FilesInv, FileTypes
<1>7. WhoWrites'
  <2>1. Boot \in AllWriters /\ ConfigWriters \subseteq AllWriters
    BY DEF AllWriters
  <2> QED
    BY <1>1, <1>2, <1>4, <1>5, <2>1 DEF WhoWrites
<1>8. SaveIsOfTheList'
  BY <1>4, <1>5 DEF SaveIsOfTheList
<1>9. ReportIsThere'
  BY <1>1, <1>4, <1>5 DEF ReportIsThere
<1>10. ListIsKept'
  <2>1. \A v \in AllWriters : ~Holds(v)' /\ ~HasWritten(v)'
    BY <1>4, <1>5 DEF Holds, HasWritten
  <2>2. \A v \in AllWriters : ~Holds(v) /\ ~HasWritten(v)
    BY <1>1, <1>2, <1>4, <1>5 DEF Holds, HasWritten
  <2>3. harm' = {} => acked' \subseteq disk'["bot"] /\ listed' \in {NotLoaded, disk'["bot"]}
    BY <1>1, <2>2 DEF FilesInv, ListIsKept
  <2> QED
    BY <1>4, <1>5, <2>1, <2>3 DEF ListIsKept
<1>11. TornIsRecovered'
  <2>1. harm' = {"torn"} => harm = {"torn"}
    BY <1>1
  <2>2. "torn" \in harm => "torn" \in harm'
    BY <1>1
  <2>3. Behind' = Behind /\ baks' = baks /\ disk' = disk /\ acked' = acked /\ replaced' = replaced
    BY <1>1 DEF Behind
  <2> QED
    BY <2>1, <2>2, <2>3 DEF FilesInv, TornIsRecovered
<1> QED
  BY <1>2, <1>6, <1>7, <1>8, <1>9, <1>10, <1>11 DEF FilesInv

\* At any moment every acknowledged save is in bot.json, or a save is between
\* its two renames and they are in the newest sibling.
LEMMA ListIsSomewhere ==
    ASSUME FilesInv, harm = {}
    PROVE  \/ acked \subseteq disk["bot"]
           \/ \E w \in AllWriters :
                 /\ txn[w].kind = "save" /\ txn[w].at = "install" /\ txn[w].moved
                 /\ disk["bot"] = {} /\ baks["bot"] # <<>> /\ acked \subseteq Last(baks["bot"])
<1>1. CASE \A w \in AllWriters : ~Holds(w) /\ ~HasWritten(w)
  BY <1>1 DEF FilesInv, ListIsKept
<1>2. ASSUME NEW w \in AllWriters, HasWritten(w)
      PROVE  acked \subseteq disk["bot"]
  <2>1. disk["bot"] = txn[w].payload
    BY <1>2 DEF FilesInv, ListIsKept
  <2>2. CASE txn[w].kind = "save"
    BY <1>2, <2>1, <2>2, SaveAcknowledges DEF FilesInv, ListIsKept, HasWritten
  <2>3. CASE txn[w].kind = "migrate"
    BY <2>3 DEF FilesInv, ReportIsThere
  <2> QED
    BY <1>2, <2>2, <2>3 DEF HasWritten
<1>3. ASSUME NEW w \in AllWriters, Holds(w)
      PROVE  \/ acked \subseteq disk["bot"]
             \/ /\ txn[w].kind = "save" /\ txn[w].at = "install" /\ txn[w].moved
                /\ disk["bot"] = {} /\ baks["bot"] # <<>> /\ acked \subseteq Last(baks["bot"])
  <2>1. disk["bot"] = {}
    BY <1>3 DEF FilesInv, ListIsKept
  <2>2. CASE txn[w].kind = "save"
    <3>1. /\ acked \subseteq listed
          /\ txn[w].moved => baks["bot"] # <<>> /\ Last(baks["bot"]) = listed
          /\ ~txn[w].moved => listed = {}
      BY <1>3, <2>2 DEF FilesInv, ListIsKept, Holds
    <3> QED
      BY <1>3, <2>1, <2>2, <3>1 DEF Holds
  <2>3. CASE txn[w].kind = "migrate"
    BY <2>3 DEF FilesInv, ReportIsThere
  <2> QED
    BY <1>3, <2>2, <2>3 DEF Holds
<1> QED
  BY <1>1, <1>2, <1>3

LEMMA CrashKeepsInv ==
    ASSUME FilesInv, Crash
    PROVE  FilesInv'
<1> DEFINE torn == \E w \in AllWriters : At(w, "install") /\ txn[w].moved /\ disk[WriteAt(w)] = {}
                                         /\ WriteAt(w) \in {"bot", "report"}
<1>1. /\ running' = FALSE /\ listed' = NotLoaded /\ txn' = [w \in AllWriters |-> Resting]
      /\ harm' = IF torn THEN harm \cup {"torn"} ELSE harm
      /\ UNCHANGED <<disk, baks, backups, second, begun, failures, acked, replaced>>
  BY DEF Crash
<1>2. ASSUME NEW w \in AllWriters, txn[w].kind \in {"save", "report"}, txn[w].at = "install", txn[w].moved,
             \A f \in Files(txn[w].kind) : disk[f] = {}
      PROVE  torn
  <2>1. txn[w] \in Txns /\ Follows(txn[w])
    BY DEF FilesInv, FileTypes, WhoWrites
  <2>2. txn[w].kind \in OneFile /\ txn[w].done = 0
    BY <1>2, <2>1 DEF Follows, OneFile
  <2>3. Files(txn[w].kind) = {WriteAt(w)}
    BY <2>1, <2>2, WriteOfKind
  <2>4. WriteAt(w) \in {"bot", "report"}
    BY <1>2, <2>3, FilesOfKind
  <2> QED
    BY <1>2, <2>3, <2>4 DEF At
<1> HIDE DEF torn
<1>3. Contents' = Contents /\ Txns' = Txns
  BY <1>1 DEF Contents, Txns
<1>4. Resting \in Txns /\ Follows(Resting) /\ Resting.kind = "none" /\ Files(Resting.kind) = {}
  BY FilesOfKind DEF Resting, Txns, Contents, FilesInv, FileTypes, Follows, OneFile
<1>5. \A w \in AllWriters : txn'[w] = Resting
  BY <1>1
<1>6. FileTypes'
  <2>1. harm' \subseteq {"torn", "imported", "unreported"} /\ running' \in BOOLEAN
    BY <1>1 DEF FilesInv, FileTypes
  <2>2. txn' \in [AllWriters -> Txns]
    BY <1>1, <1>4
  <2> QED
    BY <1>1, <1>3, <2>1, <2>2 DEF FilesInv, FileTypes
<1>7. WhoWrites'
  <2>1. Boot \in AllWriters /\ ConfigWriters \subseteq AllWriters
    BY DEF AllWriters
  <2> QED
    BY <1>1, <1>4, <1>5, <2>1 DEF WhoWrites
<1>8. SaveIsOfTheList' /\ RivalsClash'
  BY <1>4, <1>5 DEF SaveIsOfTheList, RivalsClash
<1>9. \A w \in AllWriters : ~txn'[w].clash => AsBefore(w)'
  BY <1>4, <1>5 DEF AsBefore
<1>10. CopiesAreBefore'
  <2>1. \A w \in AllWriters : txn'[w].kind = "none"
    BY <1>4, <1>5
  <2> QED
    BY <1>1, <2>1 DEF FilesInv, CopiesAreBefore, Copied
<1>11. ReportIsThere'
  <2>1. ASSUME harm' = {}, disk'["report"] = {}
        PROVE  acked' = {} /\ ~running'
    <3>1. harm = {} /\ ~torn
      BY <1>1, <2>1
    <3>2. ASSUME NEW w \in AllWriters, txn[w].kind = "report", txn[w].at = "install", txn[w].moved
          PROVE  FALSE
      BY <1>1, <1>2, <2>1, <3>1, <3>2, FilesOfKind
    <3>3. acked = {} /\ ~running
      BY <1>1, <2>1, <3>1, <3>2 DEF FilesInv, ReportIsThere
    <3> QED
      BY <1>1, <3>3
  <2> QED
    BY <1>4, <1>5, <2>1 DEF ReportIsThere
<1>12. ListIsKept'
  <2>1. \A w \in AllWriters : ~Holds(w)' /\ ~HasWritten(w)'
    BY <1>4, <1>5 DEF Holds, HasWritten
  <2>2. ASSUME harm' = {}
        PROVE  acked' \subseteq disk'["bot"] /\ listed' \in {NotLoaded, disk'["bot"]}
    <3>1. harm = {} /\ ~torn
      BY <1>1, <2>2
    <3>2. ASSUME NEW w \in AllWriters, txn[w].kind = "save", txn[w].at = "install", txn[w].moved,
                 disk["bot"] = {}
          PROVE  FALSE
      BY <1>2, <3>1, <3>2, FilesOfKind
    <3>3. acked \subseteq disk["bot"]
      BY <3>1, <3>2, ListIsSomewhere
    <3> QED
      BY <1>1, <3>3
  <2> QED
    BY <1>4, <1>5, <2>1, <2>2 DEF ListIsKept
<1>13. TornIsRecovered'
  <2>1. "torn" \notin harm' => replaced' = 0
    BY <1>1 DEF FilesInv, TornIsRecovered
  <2>2. Behind' = Behind /\ baks' = baks /\ disk' = disk /\ acked' = acked /\ replaced' = replaced
    BY <1>1 DEF Behind
  <2>3. CASE harm = {"torn"}
    <3>1. (harm = {"torn"} /\ replaced <= KeepBaks) =>
              acked \subseteq disk["bot"] \cup NewestOf(baks["bot"], Behind)
      BY DEF FilesInv, TornIsRecovered
    <3> QED
      BY <2>1, <2>2, <2>3, <3>1 DEF TornIsRecovered
  <2>4. CASE harm = {}
    <3>1. replaced = 0
      BY <2>4 DEF FilesInv, TornIsRecovered
    <3>2. ASSUME disk["bot"] = {}, baks["bot"] # <<>>, acked \subseteq Last(baks["bot"])
          PROVE  acked \subseteq NewestOf(baks["bot"], Behind)
      <4>1. Behind = 1
        BY <3>1, <3>2 DEF Behind
      <4>2. baks["bot"] \in Seq(Contents \ {{}})
        BY DEF FilesInv, FileTypes, ConfigFile
      <4>3. Len(baks["bot"]) \in DOMAIN baks["bot"] /\ Len(baks["bot"]) \in Nat
        BY <3>2, <4>2, EmptySeq, LenProperties
      <4>4. Last(baks["bot"]) = baks["bot"][Len(baks["bot"])]
        BY DEF Last
      <4>5. Len(baks["bot"]) > Len(baks["bot"]) - 1
        BY <4>3
      <4> QED
        BY <3>2, <4>1, <4>3, <4>4, <4>5 DEF NewestOf
    <3>3. acked \subseteq disk["bot"] \cup NewestOf(baks["bot"], Behind)
      BY <2>4, <3>2, ListIsSomewhere
    <3> QED
      BY <2>1, <2>2, <3>3 DEF TornIsRecovered
  <2>5. CASE harm # {} /\ harm # {"torn"}
    <3>1. harm' # {"torn"}
      BY <1>1, <2>5
    <3> QED
      BY <2>1, <3>1 DEF TornIsRecovered
  <2> QED
    BY <2>3, <2>4, <2>5
<1> QED
  BY <1>6, <1>7, <1>8, <1>9, <1>10, <1>11, <1>12, <1>13 DEF FilesInv

LEMMA TickKeepsInv ==
    ASSUME FilesInv, Tick
    PROVE  FilesInv'
<1>1. /\ second' = second + 1
      /\ UNCHANGED <<disk, baks, backups, txn, listed, running, begun, crashes, failures, acked, harm, replaced>>
  BY DEF Tick
<1>2. second \in Nat
  BY DEF FilesInv, FileTypes
<1>3. Contents' = Contents /\ Txns \subseteq Txns'
  BY <1>1, ContentsGrow DEF Contents
<1>4. FileTypes'
  <2>1. second' \in Nat \ {0} /\ 1 .. second \subseteq 1 .. second'
    BY <1>1, <1>2
  <2>2. txn' \in [AllWriters -> Txns']
    BY <1>1, <1>3 DEF FilesInv, FileTypes
  <2>3. \A s \in DOMAIN backups' :
          s \in 1 .. second' /\ backups'[s] \in [users : Nat, copy : [ConfigFile -> Contents']]
    BY <1>1, <1>3, <2>1 DEF FilesInv, FileTypes
  <2> QED
    BY <1>1, <1>3, <2>1, <2>2, <2>3 DEF FilesInv, FileTypes
<1>5. WhoWrites' /\ SaveIsOfTheList' /\ ReportIsThere' /\ RivalsClash'
  BY <1>1 DEF FilesInv, WhoWrites, SaveIsOfTheList, ReportIsThere, RivalsClash
<1>6. ListIsKept' /\ TornIsRecovered'
  BY <1>1 DEF FilesInv, ListIsKept, TornIsRecovered, Holds, HasWritten, Behind
<1>7. \A w \in AllWriters : ~txn'[w].clash => AsBefore(w)'
  BY <1>1, AsBeforeStays
<1>8. CopiesAreBefore'
  <2>1. \A w \in AllWriters : txn[w].stamp \in Nat
    BY <1>2 DEF FilesInv, FileTypes, Txns
  <2>2. \A w \in AllWriters : txn[w].stamp < second => txn'[w].stamp < second'
    BY <1>1, <1>2, <2>1
  <2>3. \A w \in AllWriters : Copied(w)' = Copied(w)
    BY <1>1 DEF Copied
  <2> QED
    BY <1>1, <2>2, <2>3 DEF FilesInv, CopiesAreBefore
<1> QED
  BY <1>4, <1>5, <1>6, <1>7, <1>8 DEF FilesInv
LEMMA FilesInitInv == ConfigInit => FilesInv
<1> SUFFICES ASSUME ConfigInit PROVE FilesInv
  OBVIOUS
<1>1. /\ baks = [f \in ConfigFile |-> <<>>] /\ backups = <<>> /\ second = 1
      /\ txn = [w \in AllWriters |-> Resting] /\ listed = NotLoaded /\ running = FALSE
      /\ begun = 0 /\ acked = {} /\ harm = {} /\ replaced = 0
  BY DEF ConfigInit
<1>2. \A w \in AllWriters : txn[w] = Resting
  BY <1>1
<1>3. Resting \in Txns /\ Follows(Resting) /\ Resting.kind = "none" /\ Files(Resting.kind) = {}
  BY <1>1, FilesOfKind DEF Resting, Txns, Contents, Follows, OneFile
<1>4. DOMAIN backups = {}
  <2>1. DOMAIN <<>> = {}
    OBVIOUS
  <2> QED
    BY <1>1, <2>1
<1>5. FileTypes
  <2>1. disk \in [ConfigFile -> Contents]
    <3>1. {} \in Contents /\ {0} \in Contents /\ {1} \in Contents
      BY <1>1 DEF Contents
    <3> HIDE DEF Contents
    <3> QED
      BY <3>1 DEF ConfigInit, LegacyBots, ReportOf
  <2>2. <<>> \in Seq(Contents \ {{}})
    OBVIOUS
  <2>3. txn \in [AllWriters -> Txns]
    BY <1>1, <1>3
  <2>4. begun \in 0 .. MaxTransactions
    BY <1>1, TransactionsAssumption
  <2>5. baks \in [ConfigFile -> Seq(Contents \ {{}})]
    BY <1>1, <2>2
  <2>6. \A s \in DOMAIN backups : s \in 1 .. second /\ backups[s] \in [users : Nat, copy : [ConfigFile -> Contents]]
    BY <1>4
  <2>7. listed \in Contents \cup {NotLoaded} /\ running \in BOOLEAN
    BY <1>1
  <2>8. second \in Nat \ {0} /\ replaced \in Nat
    BY <1>1
  <2>9. harm \subseteq {"torn", "imported", "unreported"} /\ acked \subseteq 10 .. begun + 9
    BY <1>1
  <2> QED
    BY <2>1, <2>3, <2>4, <2>5, <2>6, <2>7, <2>8, <2>9 DEF FileTypes
<1>6. WhoWrites
  <2>1. Boot \in AllWriters /\ ConfigWriters \subseteq AllWriters
    BY DEF AllWriters
  <2> QED
    BY <1>1, <1>2, <1>3, <2>1 DEF WhoWrites
<1>7. SaveIsOfTheList /\ RivalsClash /\ ReportIsThere
  BY <1>1, <1>2, <1>3 DEF SaveIsOfTheList, RivalsClash, ReportIsThere
<1>8. ListIsKept /\ TornIsRecovered
  BY <1>1, <1>2, <1>3 DEF ListIsKept, TornIsRecovered, Holds, HasWritten
<1>9. \A w \in AllWriters : ~txn[w].clash => AsBefore(w)
  BY <1>2, <1>3 DEF AsBefore
<1>10. CopiesAreBefore
  <2>1. \A w \in AllWriters : txn[w].kind = "none"
    BY <1>2, <1>3
  <2> QED
    BY <1>4, <2>1 DEF CopiesAreBefore, Copied
<1> QED
  BY <1>5, <1>6, <1>7, <1>8, <1>9, <1>10 DEF FilesInv

\* A step that leaves all of the configuration files' state alone.
LEMMA FilesRest ==
    ASSUME FilesInv, UNCHANGED configVars
    PROVE  FilesInv'
<1>1. UNCHANGED <<disk, baks, backups, second, txn, listed, running, begun, acked, harm, replaced>>
  BY DEF configVars
<1>2. Contents' = Contents /\ Txns' = Txns
  BY <1>1 DEF Contents, Txns
<1>3. FileTypes'
  BY <1>1, <1>2 DEF FilesInv, FileTypes
<1>4. WhoWrites' /\ SaveIsOfTheList' /\ ReportIsThere' /\ RivalsClash'
  BY <1>1 DEF FilesInv, WhoWrites, SaveIsOfTheList, ReportIsThere, RivalsClash
<1>5. ListIsKept' /\ TornIsRecovered'
  BY <1>1 DEF FilesInv, ListIsKept, TornIsRecovered, Holds, HasWritten, Behind
<1>6. \A w \in AllWriters : ~txn'[w].clash => AsBefore(w)'
  BY <1>1, AsBeforeStays
<1>7. CopiesAreBefore'
  BY <1>1 DEF FilesInv, CopiesAreBefore, Copied
<1> QED
  BY <1>3, <1>4, <1>5, <1>6, <1>7 DEF FilesInv

LEMMA FilesStepInv == FilesInv /\ [ConfigNext]_configVars => FilesInv'
<1> SUFFICES ASSUME FilesInv, [ConfigNext]_configVars PROVE FilesInv'
  OBVIOUS
<1>1. ASSUME NEW w \in ConfigWriters,
             \/ Save(w) \/ (\E kind \in {"render", "clean", "import"} : RenderOrImport(w, kind))
             \/ ReturnOk(w) \/ ReturnErr(w)
      PROVE  FilesInv'
  <2>1. CASE Save(w)
    BY <2>1, SaveKeepsInv
  <2>2. CASE \E kind \in {"render", "clean", "import"} : RenderOrImport(w, kind)
    BY <2>2, RenderOrImportKeepsInv
  <2>3. CASE ReturnOk(w) \/ ReturnErr(w)
    BY <2>3, ReturnOkKeepsInv, ReturnErrKeepsInv
  <2> QED
    BY <1>1, <2>1, <2>2, <2>3
<1>2. ASSUME NEW w \in AllWriters, FileStep(w) \/ ReplaceFails(w) \/ DeleteFails(w)
      PROVE  FilesInv'
  BY <1>2, OpenKeepsInv, CopyOldKeepsInv, MoveAsideKeepsInv, InstallKeepsInv, DeleteKeepsInv, UndoKeepsInv,
     ReplaceFailsKeepsInv, DeleteFailsKeepsInv DEF FileStep
<1>3. CASE BootLook \/ BootReport \/ BootDone
  BY <1>3, BootLookKeepsInv, BootReportKeepsInv, BootDoneKeepsInv
<1>4. CASE Crash \/ Tick
  BY <1>4, CrashKeepsInv, TickKeepsInv
<1>5. CASE UNCHANGED configVars
  BY <1>5, FilesRest
<1> QED
  BY <1>1, <1>2, <1>3, <1>4, <1>5 DEF ConfigNext

\* The invariant of the configuration files holds in every behaviour of the
\* transactions, the start-up, the failures, the crashes and the clock.
THEOREM FilesInvariance == ConfigSpec => []FilesInv
  BY FilesInitInv, FilesStepInv, PTL DEF ConfigSpec

\* The types of the files, the backup directories, the transactions and the
\* cache.
THEOREM FilesTypeCorrect == ConfigSpec => []ConfigTypeOK
<1>1. FilesInv => ConfigTypeOK
  <2> SUFFICES ASSUME FilesInv PROVE ConfigTypeOK
    OBVIOUS
  <2>1. Contents \subseteq FileContent /\ 10 .. begun + 9 \subseteq 10 .. MaxTransactions + 10
    <3>1. begun \in Nat /\ MaxTransactions \in Nat /\ begun <= MaxTransactions
      BY TransactionsAssumption DEF FilesInv, FileTypes
    <3>2. begun + 9 <= MaxTransactions + 10 /\ begun + 9 \in Int /\ MaxTransactions + 10 \in Int
      BY <3>1
    <3>3. 0 .. begun + 9 \subseteq 0 .. MaxTransactions + 10 /\ 10 .. begun + 9 \subseteq 10 .. MaxTransactions + 10
      BY <3>2
    <3> QED
      BY <3>3 DEF Contents, FileContent
  <2> HIDE DEF Contents, FileContent
  <2>2. [ConfigFile -> Contents] \subseteq [ConfigFile -> FileContent]
    BY <2>1
  <2>3. disk \in [ConfigFile -> FileContent]
    BY <2>2 DEF FilesInv, FileTypes
  <2>4. \A f \in ConfigFile : baks[f] \in Seq(FileContent)
    <3>1. \A f \in ConfigFile : baks[f] \in Seq(Contents \ {{}})
      BY DEF FilesInv, FileTypes
    <3>2. Contents \ {{}} \subseteq FileContent
      BY <2>1
    <3> QED
      BY <3>1, <3>2, SeqMonotonic
  <2>5. \A s \in DOMAIN backups : s \in 1 .. second /\ backups[s].copy \in [ConfigFile -> FileContent]
    BY <2>2 DEF FilesInv, FileTypes
  <2>6. \A w \in AllWriters :
          /\ txn[w].kind \in Kind \cup {"none"}
          /\ txn[w].at \in {"rest", "open", "snapshot", "move", "install", "delete", "undo", "failed"}
          /\ txn[w].done \in 0 .. 2
          /\ txn[w].payload \in FileContent
    BY <2>1 DEF FilesInv, FileTypes, Txns
  <2>7. listed \in FileContent \cup {NotLoaded} /\ harm \subseteq {"torn", "imported", "unreported"}
        /\ acked \subseteq 10 .. MaxTransactions + 10
    BY <2>1 DEF FilesInv, FileTypes
  <2> QED
    BY <2>3, <2>4, <2>5, <2>6, <2>7 DEF ConfigTypeOK
<1> QED
  BY <1>1, FilesInvariance, PTL

\* For any number of writers, siblings and backup directories, any number of
\* requests, failures and crashes: whenever nobody writes bot.json every
\* acknowledged save is in it and in the cache, and after a torn write, until
\* more lists have been installed than siblings are kept, in bot.json or in a
\* sibling.
THEOREM SavesAreKept == ConfigSpec => []AcknowledgedSaveIsKept
<1>1. FilesInv => AcknowledgedSaveIsKept
  <2> SUFFICES ASSUME FilesInv, Settled("bot")
               PROVE  /\ harm = {} => acked \subseteq disk["bot"] /\ listed \in {NotLoaded, disk["bot"]}
                      /\ (harm = {"torn"} /\ replaced <= KeepBaks) =>
                            acked \subseteq disk["bot"] \cup UNION Range(baks["bot"])
    BY DEF AcknowledgedSaveIsKept
  <2>1. \A w \in AllWriters : ~Holds(w) /\ ~HasWritten(w)
    BY FilesOfKind DEF Settled, Holds, HasWritten
  <2>2. harm = {} => acked \subseteq disk["bot"] /\ listed \in {NotLoaded, disk["bot"]}
    BY <2>1 DEF FilesInv, ListIsKept
  <2>3. (harm = {"torn"} /\ replaced <= KeepBaks) => acked \subseteq disk["bot"] \cup UNION Range(baks["bot"])
    <3>1. NewestOf(baks["bot"], Behind) \subseteq UNION Range(baks["bot"])
      BY NewestAreSiblings
    <3> QED
      BY <3>1 DEF FilesInv, TornIsRecovered
  <2> QED
    BY <2>2, <2>3
<1> QED
  BY <1>1, FilesInvariance, PTL

\* Only its own restore_transaction_state takes a transaction from its failure
\* to its end.
LEMMA OnlyUndoFails ==
    ASSUME FilesInv, [ConfigNext]_configVars, NEW w \in AllWriters, At(w, "undo"), txn'[w].at = "failed"
    PROVE  Undo(w)
<1>1. txn \in [AllWriters -> Txns] /\ txn[w].at = "undo"
  BY DEF FilesInv, FileTypes, At
<1>2. ASSUME NEW v \in AllWriters, NEW kind \in Kind, NEW payload, Enter(v, kind, payload)
      PROVE  FALSE
  <2>1. CASE v = w
    BY <1>2, <2>1, EnterFacts
  <2>2. CASE v # w
    <3>1. txn'[w] = txn[w] \/ txn'[w] = [txn[w] EXCEPT !.clash = TRUE]
      BY <1>2, <2>2, EnterFacts
    <3>2. txn'[w].at = txn[w].at
      BY <1>1, <3>1 DEF Txns
    <3> QED
      BY <1>1, <3>2
  <2> QED
    BY <2>1, <2>2
<1>3. {"save", "render", "clean", "import", "migrate", "report"} \subseteq Kind /\ Boot \in AllWriters
      /\ ConfigWriters \subseteq AllWriters /\ Resting.at = "rest"
  BY DEF Kind, AllWriters, Resting
<1>4. ASSUME NEW v \in ConfigWriters,
             \/ Save(v) \/ (\E kind \in {"render", "clean", "import"} : RenderOrImport(v, kind))
      PROVE  FALSE
  BY <1>2, <1>3, <1>4 DEF Save, RenderOrImport
<1>5. ASSUME NEW v \in AllWriters, txn' = [txn EXCEPT ![v] = Resting]
      PROVE  FALSE
  BY <1>1, <1>3, <1>5
<1>6. ASSUME NEW v \in ConfigWriters, ReturnOk(v) \/ ReturnErr(v)
      PROVE  FALSE
  BY <1>3, <1>5, <1>6 DEF ReturnOk, ReturnErr
<1>7. ASSUME NEW v \in AllWriters, FileStep(v) \/ ReplaceFails(v) \/ DeleteFails(v), v # w
      PROVE  FALSE
  <2>1. txn'[w] = txn[w]
    <3>1. CASE Open(v)
      BY <1>1, <1>7, <3>1 DEF Open
    <3>2. CASE CopyOld(v)
      <4>1. PICK pc : txn' = [txn EXCEPT ![v].at = pc]
        BY <3>2 DEF CopyOld
      <4> QED
        BY <1>1, <1>7, <4>1
    <3>3. CASE MoveAside(v)
      BY <1>1, <1>7, <3>3 DEF MoveAside
    <3>4. CASE Install(v)
      BY <1>1, <1>7, <3>4 DEF Install
    <3>5. CASE Delete(v)
      BY <1>1, <1>7, <3>5 DEF Delete
    <3>6. CASE Undo(v)
      BY <1>1, <1>7, <3>6 DEF Undo
    <3>7. CASE ReplaceFails(v)
      BY <1>1, <1>7, <3>7 DEF ReplaceFails
    <3>8. CASE DeleteFails(v)
      BY <1>1, <1>7, <3>8 DEF DeleteFails
    <3> QED
      BY <1>7, <3>1, <3>2, <3>3, <3>4, <3>5, <3>6, <3>7, <3>8 DEF FileStep
  <2> QED
    BY <1>1, <2>1
<1>8. FileStep(w) \/ ReplaceFails(w) \/ DeleteFails(w) => Undo(w)
  BY <1>1 DEF FileStep, Open, CopyOld, MoveAside, Install, Delete, ReplaceFails, DeleteFails, At
<1>9. BootLook => UNCHANGED txn
  BY <1>2, <1>3 DEF BootLook
<1>10. ~BootReport
  BY <1>2, <1>3 DEF BootReport
<1>11. ~BootDone
  BY <1>3, <1>5 DEF BootDone
<1>12. ~Crash
  BY <1>3 DEF Crash
<1>13. ~UNCHANGED txn
  BY <1>1
<1>14. ~Tick /\ ~UNCHANGED configVars
  BY <1>13 DEF Tick, configVars
<1> QED
  BY <1>4, <1>6, <1>7, <1>8, <1>9, <1>10, <1>11, <1>12, <1>13, <1>14 DEF ConfigNext

\* A transaction that fails leaves every file it touches as it was before it,
\* when it had its backup directory for itself and no rival.
THEOREM RollbackCorrect == ConfigSpec => RollbackIsComplete
<1> DEFINE Complete == \A w \in AllWriters :
          (/\ At(w, "undo") /\ txn'[w].at = "failed"
           /\ txn[w].kind # "report" => /\ txn[w].stamp \in DOMAIN backups
                                        /\ backups[txn[w].stamp].users = 1
           /\ ~txn[w].clash)
          => \A f \in Files(txn[w].kind) : disk'[f] = txn[w].before[f]
<1>1. FilesInv /\ [ConfigNext]_configVars => [Complete]_configVars
  <2> SUFFICES ASSUME FilesInv, [ConfigNext]_configVars, NEW w \in AllWriters,
                      At(w, "undo"), txn'[w].at = "failed",
                      txn[w].kind # "report" => txn[w].stamp \in DOMAIN backups /\ backups[txn[w].stamp].users = 1,
                      ~txn[w].clash, NEW f \in Files(txn[w].kind)
               PROVE  disk'[f] = txn[w].before[f]
    OBVIOUS
  <2>1. Undo(w)
    BY OnlyUndoFails
  <2>2. AsBefore(w) /\ txn[w].at = "undo" /\ txn[w] \in Txns /\ Follows(txn[w])
    BY DEF FilesInv, At, FileTypes, WhoWrites
  <2>3. f \in ConfigFile
    BY <2>2, FilesAreFiles DEF Txns
  <2>4. /\ f \notin Written(w) \cup txn[w].removed => disk[f] = txn[w].before[f]
        /\ f \in txn[w].removed => txn[w].before[f] # {}
    BY <2>2 DEF AsBefore
  <2>5. f \notin Written(w) \cup txn[w].removed => disk'[f] = disk[f]
    BY <2>1, <2>3, UndoRestoresOwn
  <2>6. CASE f \notin Written(w) \cup txn[w].removed
    BY <2>4, <2>5, <2>6
  <2>7. CASE f \in Written(w) \cup txn[w].removed
    <3>1. txn[w].kind \notin OneFile
      BY <2>1, <2>7, UndoRestoresOwn
    <3>2. txn[w].kind \notin {"none", "report"}
      BY <2>2, <3>1 DEF OneFile, Follows, Resting
    <3>3. Copied(w) /\ txn[w].stamp \in DOMAIN backups /\ backups[txn[w].stamp].users = 1
      BY <2>2, <3>2 DEF Copied
    <3>4. backups[txn[w].stamp].copy[f] = txn[w].before[f]
      BY <3>3 DEF FilesInv, CopiesAreBefore
    <3>5. disk' = Restored(w)
      BY <2>1, <3>2 DEF Undo
    <3>6. disk'[f] = IF backups[txn[w].stamp].copy[f] # {} THEN backups[txn[w].stamp].copy[f]
                     ELSE IF f \in Written(w) THEN {} ELSE disk[f]
      BY <2>3, <2>7, <3>3, <3>5 DEF Restored
    <3> QED
      BY <2>4, <2>7, <3>4, <3>6
  <2> QED
    BY <2>6, <2>7
<1> QED
  BY <1>1, FilesInvariance, PTL DEF ConfigSpec, RollbackIsComplete
=============================================================================

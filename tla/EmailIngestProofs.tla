--------------------------- MODULE EmailIngestProofs ---------------------------
(***************************************************************************)
(* Theorems about EmailIngest, for any messages, settings and programs     *)
(* side by side, and any number of failures and kills.                     *)
(***************************************************************************)
EXTENDS EmailIngest, TLAPS

-------------------------------------------------------------------------------
(* Types. *)

\* The end of a run leaves the locals well typed.
LEMMA StopType ==
  ASSUME TypeOK, NEW p \in Programs, Stop(p)
  PROVE  /\ pc' \in [Programs -> {"idle", "fetch", "scan", "read", "open", "close", "mark", "save"}]
         /\ todo' \in [Readers -> SUBSET Mails]
         /\ picked' \in [Readers -> SUBSET Mails]
         /\ listed' \subseteq Mails
         /\ rows' \in [Programs -> SUBSET Mails]
         /\ at' \in [Programs -> Frames]
         /\ base' \in [Programs -> SUBSET Mails]
         /\ pc'["feed"] \in {"idle", "read", "open", "close"} /\ at'["feed"] = "news"
<1> USE DEF TypeOK, Stop, Goto, Programs, Readers, Frames
<1>1. CASE p \in Readers
  BY <1>1
<1>2. CASE p \notin Readers
  BY <1>2
<1> QED
  BY <1>1, <1>2

LEMMA TypeInit == Init => TypeOK
<1> SUFFICES ASSUME Init
             PROVE  TypeOK
  OBVIOUS
<1>1. faults \in 0 .. MaxFaults
  BY BoundsAssumption DEF Init
<1>2. pc["feed"] \in {"idle", "read", "open", "close"} /\ at["feed"] = "news"
  BY DEF Init, Programs
<1> QED
  BY <1>1, <1>2 DEF Init, TypeOK, Frames

\* A step of a reader other than a write keeps the types.
LEMMA TypeReads ==
  ASSUME TypeOK, NEW p \in Readers, Reads(p)
  PROVE  TypeOK'
<1> USE MailsAssumption, BoundsAssumption
    DEF mailbox, folder, data, local, Goto, Fault
<1>0. p \in Programs /\ p # "feed" /\ "feed" \in Programs
  BY DEF Programs, Readers
<1>1. CASE Search(p)
  <2>1. Newest(Matched) \subseteq Mails
    BY DEF Newest, Matched, TypeOK
  <2> QED
    BY <1>0, <1>1, <2>1 DEF TypeOK, Search
<1>2. CASE SkipMail(p)
  BY <1>2 DEF TypeOK, SkipMail
<1>3. CASE SaveMail(p)
  <2>1. PICK m \in Allowed : SaveMail(p)!2!(m)
    BY <1>3 DEF SaveMail
  <2>2. m \in Mails
    OBVIOUS
  <2>3. file' \in [Mails -> {"none", "torn", "whole"}]
    BY <2>1, <2>2 DEF TypeOK
  <2> QED
    BY <1>3, <2>1, <2>2, <2>3 DEF TypeOK, SaveMail
<1>4. CASE SaveFails(p)
  BY <1>4 DEF TypeOK, SaveFails
<1>5. CASE EndSync(p)
  BY <1>0, <1>5 DEF TypeOK, EndSync
<1>6. CASE ScanFails(p)
  BY <1>0, <1>6, StopType DEF TypeOK, ScanFails
<1>7. CASE Scan(p)
  <2>1. Batch(p) \subseteq Mails /\ Files \subseteq Mails
    BY DEF Batch, Files, TypeOK
  <2>2. listed' \subseteq Mails /\ todo' \in [Readers -> SUBSET Mails]
        /\ picked' \in [Readers -> SUBSET Mails]
    BY <1>7, <2>1 DEF Scan, TypeOK
  <2>3. rows' \in [Programs -> SUBSET Mails] /\ aside' \subseteq Mails
    BY <1>7, <2>1 DEF Scan, TypeOK
  <2>4. pc' \in [Programs -> {"idle", "fetch", "scan", "read", "open", "close", "mark", "save"}]
        /\ pc'["feed"] = pc["feed"]
    BY <1>0, <1>7 DEF Scan, TypeOK
  <2>5. at' \in [Programs -> Frames] /\ at'["feed"] = at["feed"]
    BY <1>0, <1>7 DEF Scan, TypeOK, Frames
  <2> QED
    BY <1>7, <2>2, <2>3, <2>4, <2>5 DEF Scan, TypeOK
<1>8. CASE Mark(p)
  <2>1. todo[p] \subseteq Mails
    BY DEF TypeOK
  <2> QED
    BY <1>8 DEF TypeOK, Mark, Turn
<1>9. CASE EndMark(p)
  BY <1>0, <1>9, StopType DEF TypeOK, EndMark
<1>10. CASE p = "watch" /\ NothingNew
  BY <1>0, <1>10 DEF TypeOK, NothingNew, Files
<1>11. CASE p = "watch" /\ SaveState
  BY <1>0, <1>11, StopType DEF TypeOK, SaveState
<1> QED
  BY <1>1, <1>2, <1>3, <1>4, <1>5, <1>6, <1>7, <1>8, <1>9, <1>10, <1>11 DEF Reads

\* A step of a program that writes keeps the types.
LEMMA TypeWrites ==
  ASSUME TypeOK, NEW p \in Programs, Writes(p)
  PROVE  TypeOK'
<1> USE DEF mailbox, folder, data, local, Goto
<1>0. "feed" \in Programs /\ "feed" \notin Readers /\ "news" \in Frames /\ "events" \in Frames
  BY DEF Programs, Readers, Frames
<1>1. CASE ReadFrame(p)
  BY <1>0, <1>1 DEF TypeOK, ReadFrame
<1>2. CASE ReadFails(p)
  BY <1>2, StopType DEF TypeOK, ReadFails
<1>3. CASE OpenFrame(p)
  BY <1>0, <1>3 DEF TypeOK, OpenFrame
<1>4. CASE CloseFrame(p)
  <2>1. RowsHere(p) \subseteq Mails /\ Merged(p) \subseteq Mails
    BY DEF RowsHere, Merged, TypeOK
  <2>2. frame' \in [Frames -> SUBSET Mails] /\ torn' \subseteq Frames
        /\ stored' \in [Frames -> SUBSET Mails]
    BY <1>4, <2>1 DEF CloseFrame, TypeOK
  <2>3. pc' \in [Programs -> {"idle", "fetch", "scan", "read", "open", "close", "mark", "save"}]
        /\ pc'["feed"] \in {"idle", "read", "open", "close"}
    BY <1>0, <1>4 DEF CloseFrame, GoesOn, TypeOK
  <2>4. at' \in [Programs -> Frames] /\ at'["feed"] = "news"
    BY <1>0, <1>4 DEF CloseFrame, GoesOn, TypeOK
  <2>5. rows' \in [Programs -> SUBSET Mails] /\ base' \in [Programs -> SUBSET Mails]
    BY <1>4 DEF CloseFrame, TypeOK
  <2> QED
    BY <1>4, <2>2, <2>3, <2>4, <2>5 DEF CloseFrame, TypeOK
<1> QED
  BY <1>1, <1>2, <1>3, <1>4 DEF Writes

LEMMA TypeDies ==
  ASSUME TypeOK, NEW p \in Programs, Dies(p)
  PROVE  TypeOK'
<1>1. faults' \in 0 .. MaxFaults
  BY BoundsAssumption DEF Dies, Fault, TypeOK
<1>2. file' \in [Mails -> {"none", "torn", "whole"}] /\ unsaved' \subseteq Mails
      /\ recorded' \subseteq Mails
  BY MailsAssumption DEF Dies, folder, TypeOK
<1> QED
  BY <1>1, <1>2, StopType DEF Dies, TypeOK, mailbox, data

\* The types are kept by every step.
LEMMA TypeStep == TypeOK /\ [Next]_vars => TypeOK'
<1> SUFFICES ASSUME TypeOK, [Next]_vars
             PROVE  TypeOK'
  OBVIOUS
<1>1. CASE UNCHANGED vars
  BY <1>1 DEF TypeOK, vars, mailbox, folder, data, local
<1>2. CASE Arrive
  BY <1>2 DEF TypeOK, Arrive, folder, data, local
<1>3. CASE FeedBegins
  BY <1>3 DEF TypeOK, FeedBegins, Goto, Programs, mailbox, folder, data, local
<1>4. CASE \E p \in Readers : Reads(p)
  BY <1>4, TypeReads
<1>5. CASE \E p \in Programs : Writes(p) \/ Dies(p)
  BY <1>5, TypeWrites, TypeDies
<1> QED
  BY <1>1, <1>2, <1>3, <1>4, <1>5 DEF Next

\* Every state is well typed.
THEOREM TypeCorrect == Spec => []TypeOK
<1>1. Init => TypeOK
  BY TypeInit
<1>2. TypeOK /\ [Next]_vars => TypeOK'
  BY TypeStep
<1> QED
  BY <1>1, <1>2, PTL DEF Spec

-------------------------------------------------------------------------------
(* What a step leaves alone. *)

\* The histories only grow.
LEMMA HistoryGrows ==
  ASSUME TypeOK, [Next]_vars
  PROVE  /\ \A f \in Frames : stored[f] \subseteq stored'[f]
         /\ Lost \subseteq Lost'
         /\ crossed => crossed'
<1>1. CASE UNCHANGED vars
  BY <1>1 DEF vars, data, folder, Lost
<1>2. CASE Arrive
  BY <1>2 DEF Arrive, data, folder, Lost
<1>3. CASE FeedBegins
  BY <1>3 DEF FeedBegins, data, folder, Lost
<1>4. ASSUME NEW p \in Readers, Reads(p)
      PROVE  UNCHANGED <<stored, crossed>> /\ Lost \subseteq Lost'
  BY <1>4 DEF Reads, Search, SkipMail, SaveMail, SaveFails, EndSync, ScanFails, Scan,
              Mark, EndMark, NothingNew, SaveState, data, folder, Lost
<1>5. ASSUME NEW p \in Programs, Writes(p)
      PROVE  /\ \A f \in Frames : stored[f] \subseteq stored'[f]
             /\ Lost' = Lost
             /\ crossed => crossed'
  BY <1>5 DEF TypeOK, Writes, ReadFrame, ReadFails, OpenFrame, CloseFrame, data, folder, Lost
<1>6. ASSUME NEW p \in Programs, Dies(p)
      PROVE  UNCHANGED <<stored, crossed>> /\ Lost \subseteq Lost'
  BY <1>6 DEF Dies, data, folder, Lost
<1> QED
  BY <1>1, <1>2, <1>3, <1>4, <1>5, <1>6 DEF Next

\* What is stored stays so, and what has to be stored does not grow.
LEMMA StoredStays ==
  ASSUME TypeOK, [Next]_vars, NEW m, Stored(m)
  PROVE  Stored(m)'
  BY HistoryGrows DEF Stored, Frames

\* Flags are set by Mark only, the state file changes at the end of a run.
LEMMA FlagsAndState ==
  ASSUME [Next]_vars
  PROVE  /\ seen' = seen \/ \E p \in Readers : Mark(p)
         /\ recorded' \in {recorded, {}} \/ SaveState
<1>1. CASE UNCHANGED vars
  BY <1>1 DEF vars, mailbox
<1>2. CASE Arrive \/ FeedBegins
  BY <1>2 DEF Arrive, FeedBegins, mailbox
<1>3. ASSUME NEW p \in Readers, Reads(p)
      PROVE  /\ seen' = seen \/ Mark(p)
             /\ recorded' = recorded \/ SaveState
  BY <1>3 DEF Reads, Search, SkipMail, SaveMail, SaveFails, EndSync, ScanFails, Scan,
              Mark, EndMark, NothingNew, SaveState, mailbox
<1>4. ASSUME NEW p \in Programs, Writes(p) \/ Dies(p)
      PROVE  seen' = seen /\ recorded' \in {recorded, {}}
  BY <1>4 DEF Writes, ReadFrame, ReadFails, OpenFrame, CloseFrame, Dies, mailbox, folder
<1> QED
  BY <1>1, <1>2, <1>3, <1>4 DEF Next

-------------------------------------------------------------------------------
(* Flagged and listed messages. *)

LEMMA SeenStep ==
  ASSUME IndInv, [Next]_vars
  PROVE  SeenWasStored'
<1>1. SUFFICES ASSUME NEW m \in (seen' \cap Telling) \ Lost'
               PROVE  Stored(m)'
  BY DEF SeenWasStored
<1>2. TypeOK /\ m \in Telling \ Lost
  BY HistoryGrows DEF IndInv
<1>3. CASE m \in seen
  BY <1>2, <1>3, StoredStays DEF IndInv, SeenWasStored
<1>4. CASE m \notin seen
  <2>1. PICK p \in Readers : Mark(p)
    BY <1>1, <1>4, FlagsAndState
  <2>2. m \in todo[p] /\ pc[p] = "mark"
    BY <1>1, <1>4, <2>1 DEF Mark, Turn
  <2>3. m \in Due(p)
    BY <1>2, <2>2 DEF Due
  <2>4. Stored(m)
    BY <2>2, <2>3 DEF IndInv, DueIsInHand, InHand
  <2> QED
    BY <1>2, <2>4, StoredStays
<1> QED
  BY <1>3, <1>4

LEMMA RecordedStep ==
  ASSUME IndInv, [Next]_vars
  PROVE  RecordedWasStored'
<1>1. SUFFICES ASSUME NEW m \in (recorded' \cap Telling) \ Lost'
               PROVE  Stored(m)'
  BY DEF RecordedWasStored
<1>2. TypeOK /\ m \in Telling \ Lost
  BY HistoryGrows DEF IndInv
<1>3. CASE m \in recorded
  BY <1>2, <1>3, StoredStays DEF IndInv, RecordedWasStored
<1>4. CASE m \notin recorded
  <2>1. SaveState
    BY <1>1, <1>4, FlagsAndState
  <2>2. m \in listed /\ pc["watch"] = "save" /\ "watch" \in Readers
    BY <1>1, <2>1 DEF SaveState, Readers
  <2>3. m \in Due("watch")
    BY <1>2, <2>2 DEF Due
  <2>4. Stored(m)
    BY <2>2, <2>3 DEF IndInv, DueIsInHand, InHand
  <2> QED
    BY <1>2, <2>4, StoredStays
<1> QED
  BY <1>3, <1>4

-------------------------------------------------------------------------------
(* The folder and the selections. *)

LEMMA SelectionStep ==
  ASSUME IndInv, [Next]_vars
  PROVE  SelectionIsSaved'
<1> USE DEF SelectionIsSaved, Files, mailbox, folder, data, local, Goto
<1>0. TypeOK /\ SelectionIsSaved /\ Readers \subseteq Programs
  BY DEF IndInv, Programs
<1>1. CASE UNCHANGED vars
  BY <1>0, <1>1 DEF vars
<1>2. CASE Arrive
  BY <1>0, <1>2 DEF Arrive
<1>3. CASE FeedBegins
  BY <1>0, <1>3 DEF FeedBegins, Readers, TypeOK
<1>4. ASSUME NEW p \in Readers, Reads(p)
      PROVE  SelectionIsSaved'
  <2>1. CASE Search(p) \/ SkipMail(p) \/ EndSync(p)
    <3>1. \A q \in Readers : pc'[q] = "scan" => todo'[q] = {}
      BY <1>0, <2>1 DEF Search, SkipMail, EndSync, TypeOK
    <3> QED
      BY <1>0, <2>1, <3>1 DEF Search, SkipMail, EndSync
  <2>2. CASE SaveMail(p)
    BY <1>0, <2>2, MailsAssumption DEF SaveMail, TypeOK
  <2>3. CASE SaveFails(p)
    BY <1>0, <2>3, MailsAssumption DEF SaveFails, TypeOK
  <2>4. CASE ScanFails(p) \/ EndMark(p) \/ SaveState
    BY <1>0, <2>4 DEF ScanFails, EndMark, SaveState, Stop, Readers, TypeOK
  <2>5. CASE Scan(p)
    BY <1>0, <2>5 DEF Scan, TypeOK
  <2>6. CASE Mark(p)
    BY <1>0, <2>6 DEF Mark, TypeOK
  <2>7. CASE NothingNew
    BY <1>0, <2>7 DEF NothingNew, TypeOK
  <2> QED
    BY <1>4, <2>1, <2>2, <2>3, <2>4, <2>5, <2>6, <2>7 DEF Reads
<1>5. ASSUME NEW p \in Programs, Writes(p)
      PROVE  SelectionIsSaved'
  <2>1. CASE ReadFrame(p) \/ OpenFrame(p)
    BY <1>0, <2>1 DEF ReadFrame, OpenFrame, TypeOK
  <2>2. CASE ReadFails(p)
    BY <1>0, <2>2 DEF ReadFails, Stop, TypeOK
  <2>3. CASE CloseFrame(p)
    BY <1>0, <2>3 DEF CloseFrame, TypeOK
  <2> QED
    BY <1>5, <2>1, <2>2, <2>3 DEF Writes
<1>6. ASSUME NEW p \in Programs, Dies(p)
      PROVE  SelectionIsSaved'
  <2>1. \A q \in Readers : picked'[q] \subseteq picked[q]
    BY <1>0, <1>6 DEF Dies, Stop, TypeOK
  <2>2. \A q \in Readers : pc'[q] = "scan" => pc[q] = "scan" /\ todo'[q] = todo[q]
    BY <1>0, <1>6 DEF Dies, Stop, TypeOK
  <2>3. Files \subseteq Files' /\ unsaved \subseteq unsaved'
        /\ \A m \in Mails : file'[m] = "torn" => m \in unsaved'
    BY <1>0, <1>6, MailsAssumption DEF Dies, TypeOK
  <2> QED
    BY <1>0, <2>1, <2>2, <2>3
<1> QED
  BY <1>1, <1>2, <1>3, <1>4, <1>5, <1>6 DEF Next

-------------------------------------------------------------------------------
(* The rows in hand. *)

\* A step that leaves the locals of a reader alone leaves its rows in hand.
LEMMA InHandStays ==
  ASSUME IndInv, [Next]_vars, NEW q \in Readers,
         pc'[q] = pc[q], rows'[q] = rows[q], todo'[q] = todo[q], at'[q] = at[q],
         q = "watch" => listed' = listed
  PROVE  InHand(q)'
<1>1. TypeOK /\ InHand(q) /\ "news" \in Frames
  BY DEF IndInv, DueIsInHand, Frames
<1>2. Due(q)' \subseteq Due(q)
  BY <1>1, HistoryGrows DEF Due
<1>3. \A m : Stored(m) => Stored(m)'
  BY <1>1, StoredStays
<1>4. stored["news"] \subseteq stored'["news"]
  BY <1>1, HistoryGrows
<1> QED
  BY <1>1, <1>2, <1>3, <1>4 DEF InHand

\* A run that ends has nothing due.
LEMMA InHandStops ==
  ASSUME TypeOK, NEW p \in Readers, Stop(p)
  PROVE  InHand(p)'
<1>1. pc'[p] = "idle"
  BY DEF Stop, Goto, TypeOK, Programs
<1> QED
  BY <1>1 DEF InHand

LEMMA InHandReads ==
  ASSUME IndInv, [Next]_vars, NEW p \in Readers, Reads(p)
  PROVE  InHand(p)'
<1> USE DEF Goto
<1>0. TypeOK /\ InHand(p) /\ p \in Programs
  BY DEF IndInv, DueIsInHand, Programs
<1>1. CASE Search(p) \/ SkipMail(p) \/ SaveMail(p) \/ SaveFails(p) \/ EndSync(p)
  <2>1. pc'[p] \in {"fetch", "scan"}
    BY <1>0, <1>1 DEF Search, SkipMail, SaveMail, SaveFails, EndSync, TypeOK
  <2> QED
    BY <2>1 DEF InHand
<1>2. CASE ScanFails(p) \/ (p = "watch" /\ SaveState)
  BY <1>0, <1>2, InHandStops DEF ScanFails, SaveState
<1>3. CASE p = "watch" /\ NothingNew
  <2>1. pc'[p] = "save" /\ todo'[p] = {} /\ listed' = Files /\ Files \subseteq recorded
    BY <1>0, <1>3 DEF NothingNew, Batch, TypeOK, IndInv, SelectionIsSaved
  <2>2. \A m \in Due(p)' : Stored(m)
    BY <1>0, <2>1, HistoryGrows DEF Due, IndInv, RecordedWasStored
  <2> QED
    BY <1>0, <2>1, <2>2, StoredStays DEF InHand
<1>4. CASE Scan(p)
  <2>1. PICK out \in SUBSET (Batch(p) \cap Unsteady),
             cut \in SUBSET {m \in Batch(p) : file[m] = "torn"} :
          /\ rows' = [rows EXCEPT ![p] = (Batch(p) \cap Telling) \ (out \cup cut)]
          /\ aside' = aside \cup out
    BY <1>4 DEF Scan
  <2>2. rows'[p] = (Batch(p) \cap Telling) \ (out \cup cut)
    BY <1>0, <2>1 DEF TypeOK
  <2>3. ASSUME NEW m \in Due(p)'
        PROVE  m \in rows'[p] \/ Stored(m)
    <3>1. m \in picked[p] \/ (p = "watch" /\ m \in Files)
      BY <1>0, <1>4 DEF Scan, Due, TypeOK
    <3>2. m \in Telling /\ m \notin unsaved /\ m \notin out /\ m \in Mails
      BY <1>0, <1>4, <2>1, MailsAssumption DEF Scan, Due, Lost, folder, TypeOK
    <3>3. m \notin cut
      BY <1>0, <2>1, <3>2 DEF IndInv, SelectionIsSaved
    <3>4. CASE m \in Batch(p)
      BY <2>2, <3>2, <3>3, <3>4
    <3>5. CASE m \notin Batch(p)
      <4>1. p = "watch" /\ m \in Files
        BY <3>1, <3>2, <3>5 DEF Batch, IndInv, SelectionIsSaved
      <4>2. m \in recorded
        BY <3>5, <4>1 DEF Batch
      <4>3. m \notin Lost
        BY <1>0, HistoryGrows DEF Due
      <4> QED
        BY <3>2, <4>2, <4>3 DEF IndInv, RecordedWasStored
    <3> QED
      BY <3>4, <3>5
  <2>4. at'[p] = "events" => rows'[p] \subseteq Gated
    BY <1>0, <1>4 DEF Scan, TypeOK
  <2>5. pc'[p] = IF rows'[p] = {} THEN "mark" ELSE "read"
    BY <1>0, <1>4 DEF Scan, TypeOK
  <2> QED
    BY <1>0, <2>3, <2>4, <2>5, StoredStays DEF InHand
<1>5. CASE Mark(p)
  <2>1. pc'[p] = "mark" /\ pc[p] = "mark" /\ Due(p)' \subseteq Due(p)
    BY <1>0, <1>5, HistoryGrows DEF Mark, Due, TypeOK
  <2> QED
    BY <1>0, <2>1, StoredStays DEF InHand
<1>6. CASE EndMark(p)
  <2>1. CASE p = "watch"
    <3>1. pc'[p] = "save" /\ pc[p] = "mark" /\ Due(p)' \subseteq Due(p)
      BY <1>0, <1>6, <2>1, HistoryGrows DEF EndMark, Due, TypeOK, local
    <3> QED
      BY <1>0, <3>1, StoredStays DEF InHand
  <2>2. CASE p # "watch"
    BY <1>0, <1>6, <2>2, InHandStops DEF EndMark
  <2> QED
    BY <2>1, <2>2
<1> QED
  BY <1>1, <1>2, <1>3, <1>4, <1>5, <1>6 DEF Reads

LEMMA InHandWrites ==
  ASSUME IndInv, [Next]_vars, NEW p \in Readers, Writes(p)
  PROVE  InHand(p)'
<1> USE DEF Goto
<1>0. TypeOK /\ InHand(p) /\ p \in Programs /\ p # "feed" /\ "news" \in Frames /\ "events" \in Frames
  BY DEF IndInv, DueIsInHand, Programs, Readers, Frames
<1>1. CASE ReadFrame(p) \/ OpenFrame(p)
  <2>1. /\ pc[p] \in {"read", "open"} /\ pc'[p] \in {"open", "close"}
        /\ UNCHANGED <<rows, at, stored>> /\ Due(p)' = Due(p)
    BY <1>0, <1>1 DEF ReadFrame, OpenFrame, Due, Lost, folder, local, TypeOK
  <2> QED
    BY <1>0, <2>1, StoredStays DEF InHand
<1>2. CASE ReadFails(p)
  BY <1>0, <1>2, InHandStops DEF ReadFails
<1>3. CASE CloseFrame(p)
  <2>1. pc[p] = "close" /\ Due(p)' = Due(p) /\ stored'[at[p]] = stored[at[p]] \cup RowsHere(p)
    BY <1>0, <1>3 DEF CloseFrame, Due, Lost, folder, TypeOK
  <2>2. CASE at[p] = "news"
    <3>1. pc'[p] = "read" /\ rows' = rows
      BY <1>0, <1>3, <2>2 DEF CloseFrame, GoesOn, TypeOK
    <3>2. \A m \in rows[p] : m \in Gated \/ m \in stored'["news"]
      BY <2>1, <2>2 DEF RowsHere
    <3> QED
      BY <1>0, <2>1, <3>1, <3>2, StoredStays DEF InHand
  <2>3. CASE at[p] = "events"
    <3>1. pc'[p] = "mark"
      BY <1>0, <1>3, <2>3 DEF CloseFrame, GoesOn, TypeOK
    <3>2. ASSUME NEW m \in Due(p), m \in rows[p]
          PROVE  Stored(m)'
      <4>1. m \in stored'["events"]
        BY <2>1, <2>3, <3>2 DEF RowsHere
      <4>2. m \in Gated \/ m \in stored'["news"]
        BY <1>0, <2>1, <2>3, <3>2, HistoryGrows DEF InHand
      <4> QED
        BY <4>1, <4>2 DEF Stored
    <3>3. \A m \in Due(p) : Stored(m)'
      BY <1>0, <2>1, <3>2, StoredStays DEF InHand
    <3> QED
      BY <2>1, <3>1, <3>3 DEF InHand
  <2> QED
    BY <1>0, <2>2, <2>3 DEF TypeOK, Frames
<1> QED
  BY <1>1, <1>2, <1>3 DEF Writes

\* The programs do not touch each other's locals.
LEMMA OwnLocals ==
  ASSUME TypeOK, NEW p \in Programs, NEW q \in Readers, q # p,
         (FeedBegins /\ p = "feed") \/ (p \in Readers /\ Reads(p)) \/ Writes(p) \/ Dies(p)
  PROVE  /\ pc'[q] = pc[q] /\ rows'[q] = rows[q] /\ todo'[q] = todo[q] /\ at'[q] = at[q]
         /\ q = "watch" => listed' = listed
<1> USE DEF TypeOK, Goto, local
<1>0. q \in Programs
  BY DEF Programs
<1>1. CASE Stop(p)
  BY <1>0, <1>1 DEF Stop
<1>2. CASE p \in Readers /\ Reads(p) /\ ~Stop(p)
  BY <1>0, <1>2 DEF Reads, Search, SkipMail, SaveMail, SaveFails, EndSync, ScanFails, Scan,
                    Mark, EndMark, NothingNew, SaveState
<1>3. CASE Writes(p) /\ ~Stop(p)
  BY <1>0, <1>3 DEF Writes, ReadFrame, ReadFails, OpenFrame, CloseFrame
<1>4. CASE Dies(p)
  BY <1>1, <1>4 DEF Dies
<1>5. CASE FeedBegins /\ p = "feed"
  BY <1>0, <1>5 DEF FeedBegins
<1> QED
  BY <1>1, <1>2, <1>3, <1>4, <1>5

LEMMA DueStep ==
  ASSUME IndInv, [Next]_vars
  PROVE  DueIsInHand'
<1> SUFFICES ASSUME NEW q \in Readers
             PROVE  InHand(q)'
  BY DEF DueIsInHand
<1>0. TypeOK /\ q \in Programs /\ q # "feed" /\ "feed" \in Programs
  BY DEF IndInv, Programs, Readers
<1>1. CASE UNCHANGED vars \/ Arrive
  BY <1>1, InHandStays DEF vars, local, Arrive
<1>2. CASE FeedBegins
  BY <1>0, <1>2, OwnLocals, InHandStays
<1>3. ASSUME NEW p \in Readers, Reads(p)
      PROVE  InHand(q)'
  <2>1. p \in Programs
    BY DEF Programs
  <2> QED
    BY <1>0, <1>3, <2>1, InHandReads, OwnLocals, InHandStays
<1>4. ASSUME NEW p \in Programs, Writes(p)
      PROVE  InHand(q)'
  BY <1>0, <1>4, InHandWrites, OwnLocals, InHandStays
<1>5. ASSUME NEW p \in Programs, Dies(p)
      PROVE  InHand(q)'
  BY <1>0, <1>5, InHandStops, OwnLocals, InHandStays DEF Dies
<1> QED
  BY <1>1, <1>2, <1>3, <1>4, <1>5 DEF Next

-------------------------------------------------------------------------------
(* Rewriting the frames. *)

\* Steps that write no frame and leave no program in the middle of a rewrite
\* that was not there before.
LEMMA RewriteStays ==
  ASSUME IndInv, UNCHANGED <<frame, stored, crossed, base>>,
         torn \subseteq torn',
         \A p \in Programs : pc'[p] \in {"open", "close"} => pc[p] \in {"open", "close"} /\ at'[p] = at[p]
  PROVE  RewriteIsComplete' /\ SerialWritersKeepRows'
  BY DEF IndInv, RewriteIsComplete, SerialWritersKeepRows, Rewrites

LEMMA RewriteStep ==
  ASSUME IndInv, [Next]_vars
  PROVE  RewriteIsComplete' /\ SerialWritersKeepRows'
<1> USE DEF Goto, data, local
<1>0. TypeOK /\ RewriteIsComplete /\ SerialWritersKeepRows /\ Readers \subseteq Programs /\ "feed" \in Programs
  BY DEF IndInv, Programs
<1>1. CASE UNCHANGED vars \/ Arrive
  BY <1>1, RewriteStays DEF vars, Arrive
<1>2. CASE FeedBegins
  BY <1>0, <1>2, RewriteStays DEF FeedBegins, TypeOK
<1>3. ASSUME NEW p \in Programs, Stop(p), UNCHANGED data
      PROVE  RewriteIsComplete' /\ SerialWritersKeepRows'
  BY <1>0, <1>3 DEF Stop, TypeOK, RewriteIsComplete, SerialWritersKeepRows, Rewrites
<1>4. ASSUME NEW p \in Readers, Reads(p)
      PROVE  RewriteIsComplete' /\ SerialWritersKeepRows'
  <2>1. CASE Stop(p)
    BY <1>0, <1>3, <1>4, <2>1 DEF Reads, Search, SkipMail, SaveMail, SaveFails, EndSync, ScanFails,
                                  Scan, Mark, EndMark, NothingNew, SaveState
  <2>2. CASE ~Stop(p)
    <3>1. UNCHANGED <<frame, torn, stored, crossed, base>>
      BY <1>4, <2>2 DEF Reads, Search, SkipMail, SaveMail, SaveFails, EndSync, ScanFails,
                        Scan, Mark, EndMark, NothingNew, SaveState
    <3>2. \A q \in Programs : pc'[q] \in {"open", "close"} => pc[q] \in {"open", "close"} /\ at'[q] = at[q]
      BY <1>0, <1>4, <2>2 DEF Reads, Search, SkipMail, SaveMail, SaveFails, EndSync, ScanFails,
                              Scan, Mark, EndMark, NothingNew, SaveState, TypeOK
    <3> QED
      BY <3>1, <3>2, RewriteStays
  <2> QED
    BY <2>1, <2>2
<1>5. ASSUME NEW p \in Programs, Writes(p)
      PROVE  RewriteIsComplete' /\ SerialWritersKeepRows'
  <2>1. CASE ReadFrame(p)
    BY <1>0, <2>1 DEF ReadFrame, TypeOK, RewriteIsComplete, SerialWritersKeepRows, Rewrites
  <2>2. CASE ReadFails(p)
    BY <1>3, <2>2 DEF ReadFails
  <2>3. CASE OpenFrame(p)
    BY <1>0, <2>3 DEF OpenFrame, TypeOK, RewriteIsComplete, SerialWritersKeepRows, Rewrites
  <2>4. CASE CloseFrame(p)
    <3> DEFINE f == at[p]
    <3>1. pc[p] = "close" /\ f \in Frames /\ crossed' = crossed
      BY <1>0, <2>4 DEF CloseFrame, TypeOK
    <3>2. crossed \/ stored[f] \subseteq base[p]
      BY <1>0, <3>1 DEF RewriteIsComplete
    <3>3. /\ frame' = [frame EXCEPT ![f] = base[p] \cup RowsHere(p)]
          /\ stored' = [stored EXCEPT ![f] = @ \cup RowsHere(p)]
          /\ torn' \in {torn, torn \ {f}}
      BY <2>4 DEF CloseFrame, Merged
    <3>4. SerialWritersKeepRows'
      BY <1>0, <3>1, <3>2, <3>3 DEF TypeOK, SerialWritersKeepRows
    <3>5. \A q \in Programs : q # p => pc'[q] = pc[q] /\ at'[q] = at[q] /\ base'[q] = base[q]
      BY <1>0, <2>4 DEF CloseFrame, TypeOK
    <3>6. pc'[p] \notin {"open", "close"}
      BY <1>0, <2>4 DEF CloseFrame, TypeOK
    <3>7. RewriteIsComplete'
      BY <1>0, <3>1, <3>3, <3>5, <3>6 DEF TypeOK, RewriteIsComplete, Rewrites
    <3> QED
      BY <3>4, <3>7
  <2> QED
    BY <1>5, <2>1, <2>2, <2>3, <2>4 DEF Writes
<1>6. ASSUME NEW p \in Programs, Dies(p)
      PROVE  RewriteIsComplete' /\ SerialWritersKeepRows'
  BY <1>3, <1>6 DEF Dies
<1> QED
  BY <1>1, <1>2, <1>4, <1>5, <1>6 DEF Next

-------------------------------------------------------------------------------
(* The invariants. *)

\* IndInv holds at first and is kept by every step.
THEOREM Inductive == Spec => []IndInv
<1>1. Init => IndInv
  <2> SUFFICES ASSUME Init
               PROVE  IndInv
    OBVIOUS
  <2>1. TypeOK
    BY TypeInit
  <2>2. SeenWasStored /\ RecordedWasStored /\ SerialWritersKeepRows /\ SelectionIsSaved
    BY DEF Init, SeenWasStored, RecordedWasStored, SerialWritersKeepRows, SelectionIsSaved
  <2>3. DueIsInHand /\ RewriteIsComplete
    BY DEF Init, DueIsInHand, InHand, RewriteIsComplete, Programs
  <2> QED
    BY <2>1, <2>2, <2>3 DEF IndInv
<1>2. IndInv /\ [Next]_vars => IndInv'
  BY TypeStep, SeenStep, RecordedStep, SelectionStep, DueStep, RewriteStep DEF IndInv
<1> QED
  BY <1>1, <1>2, PTL DEF Spec

\* A message is flagged as seen only after its rows were written, unless it was
\* not saved or was set aside.
THEOREM FlaggedMailIsStored == Spec => []SeenWasStored
<1>1. IndInv => SeenWasStored
  BY DEF IndInv
<1> QED
  BY <1>1, Inductive, PTL

\* The watcher's state file lists a file only after its rows were written, with
\* the same exceptions.
THEOREM RecordedMailIsStored == Spec => []RecordedWasStored
<1>1. IndInv => RecordedWasStored
  BY DEF IndInv
<1> QED
  BY <1>1, Inductive, PTL

\* Rows leave a readable frame only if two programs rewrote a frame at once.
THEOREM RowsAreKept == Spec => []SerialWritersKeepRows
<1>1. IndInv => SerialWritersKeepRows
  BY DEF IndInv
<1> QED
  BY <1>1, Inductive, PTL

(***************************************************************************)
(* The length of a run                                                     *)
(***************************************************************************)
\* The last step of a run.
LEMMA StopIsIdle == ASSUME TypeOK, NEW p \in Programs, Stop(p) PROVE pc'[p] = "idle"
BY DEF Stop, Goto, TypeOK

\* The end of the loop over the messages, and the reading of the files.
LEMMA ReadIsNearer ==
    ASSUME TypeOK, NEW p \in Readers,
           EndSync(p) \/ Scan(p) \/ EndMark(p) \/ (p = "watch" /\ (NothingNew \/ SaveState))
    PROVE  Nearer(p)
<1>0. p \in Programs /\ pc \in [Programs -> {"idle", "fetch", "scan", "read", "open", "close", "mark", "save"}]
  BY DEF TypeOK, Programs
<1>1. CASE EndSync(p)
  BY <1>0, <1>1 DEF EndSync, Goto, Nearer, Ahead, Ordered
<1>2. CASE Scan(p)
  <2>1. pc[p] = "scan" /\ pc'[p] \in {"mark", "read"}
    BY <1>0, <1>2 DEF Scan, Goto
  <2> QED BY <2>1 DEF Nearer, Ahead, Ordered
<1>3. CASE EndMark(p)
  <2>1. pc[p] = "mark" /\ pc'[p] \in {"save", "idle"}
    BY <1>0, <1>3, StopIsIdle DEF EndMark, Goto
  <2> QED BY <2>1 DEF Nearer, Ahead, Ordered
<1>4. CASE p = "watch" /\ NothingNew
  BY <1>0, <1>4 DEF NothingNew, Goto, Nearer, Ahead, Ordered
<1>5. CASE p = "watch" /\ SaveState
  BY <1>0, <1>5, StopIsIdle DEF SaveState, Nearer
<1> QED BY <1>1, <1>2, <1>3, <1>4, <1>5

\* A turn of a loop takes one message from those ahead.
LEMMA TurnIsNearer ==
    ASSUME TypeOK, NEW p \in Readers,
           SkipMail(p) \/ SaveMail(p) \/ SaveFails(p) \/ Mark(p)
    PROVE  Nearer(p)
<1>1. PICK m \in todo[p] : todo' = [todo EXCEPT ![p] = @ \ {m}]
  BY DEF SkipMail, SaveMail, SaveFails, Mark, Turn
<1>2. todo'[p] = todo[p] \ {m}
  BY <1>1 DEF TypeOK
<1>3. pc' = pc /\ at' = at
  BY DEF SkipMail, SaveMail, SaveFails, Mark
<1> QED BY <1>1, <1>2, <1>3 DEF Nearer, Ahead

\* The writes of the frames.
LEMMA WriteIsNearer ==
    ASSUME TypeOK, NEW p \in Programs, Writes(p)
    PROVE  Nearer(p)
<1>0. pc \in [Programs -> {"idle", "fetch", "scan", "read", "open", "close", "mark", "save"}]
      /\ at \in [Programs -> Frames]
  BY DEF TypeOK
<1>1. CASE ReadFrame(p)
  BY <1>0, <1>1 DEF ReadFrame, Goto, Nearer, Ahead, Ordered
<1>2. CASE ReadFails(p)
  BY <1>2, StopIsIdle DEF ReadFails, Nearer
<1>3. CASE OpenFrame(p)
  BY <1>0, <1>3 DEF OpenFrame, Goto, local, Nearer, Ahead, Ordered
<1>4. CASE CloseFrame(p) /\ GoesOn(p)
  <2>1. pc[p] = "close" /\ at[p] = "news" /\ pc'[p] = "read" /\ at'[p] = "events"
    BY <1>0, <1>4 DEF CloseFrame, Goto, GoesOn
  <2> QED BY <2>1 DEF Nearer, Ahead, Ordered
<1>5. CASE CloseFrame(p) /\ ~GoesOn(p)
  <2>1. pc[p] = "close" /\ pc'[p] \in {"idle", "mark"}
    BY <1>0, <1>5 DEF CloseFrame, Goto
  <2>2. Ahead(p) \in {3, 6}
    BY <2>1 DEF Ahead, Ordered
  <2>3. Ahead(p)' \in {0, 2}
    BY <2>1 DEF Ahead, Ordered
  <2> QED BY <2>2, <2>3 DEF Nearer
<1> QED BY <1>1, <1>2, <1>3, <1>4, <1>5 DEF Writes

\* Every step of a run under way.
LEMMA OwnIsNearer ==
    ASSUME TypeOK, NEW p \in Programs, Own(p), pc[p] # "idle"
    PROVE  Nearer(p)
<1>1. CASE p \in Readers /\ Reads(p)
  <2>1. ~Search(p)
    BY DEF Search
  <2>2. CASE ScanFails(p)
    BY <2>2, StopIsIdle DEF ScanFails, Nearer
  <2> QED BY <1>1, <2>1, <2>2, ReadIsNearer, TurnIsNearer DEF Reads
<1>2. CASE Writes(p)
  BY <1>2, WriteIsNearer
<1>3. CASE Dies(p)
  BY <1>3, StopIsIdle DEF Dies, Nearer
<1> QED BY <1>1, <1>2, <1>3 DEF Own

\* The last step of another program.
LEMMA StopOther ==
    ASSUME TypeOK, NEW p \in Programs, NEW q \in Programs \ {p}, Stop(q)
    PROVE  /\ pc'[p] = pc[p] /\ at'[p] = at[p]
           /\ p \in Readers => todo'[p] = todo[p]
BY DEF Stop, Goto, TypeOK

\* Another program's step leaves p where it is.
LEMMA OtherStays ==
    ASSUME TypeOK, NEW p \in Programs, NEW q \in Programs \ {p}, Own(q)
    PROVE  /\ pc'[p] = pc[p] /\ at'[p] = at[p]
           /\ p \in Readers => todo'[p] = todo[p]
<1> DEFINE Stays == /\ pc'[p] = pc[p] /\ at'[p] = at[p]
                    /\ p \in Readers => todo'[p] = todo[p]
<1>1. CASE q \in Readers /\ (Search(q) \/ SkipMail(q) \/ SaveMail(q) \/ SaveFails(q) \/ EndSync(q))
  BY <1>1 DEF Search, SkipMail, SaveMail, SaveFails, EndSync, Goto, TypeOK, local
<1>2. CASE q \in Readers /\ (Scan(q) \/ Mark(q))
  BY <1>2 DEF Scan, Mark, Goto, TypeOK
<1>3. CASE q = "watch" /\ NothingNew
  BY <1>3 DEF NothingNew, Goto, TypeOK
<1>4. CASE EndMark(q) /\ q = "watch"
  BY <1>4 DEF EndMark, Goto, TypeOK, local
<1>5. CASE ScanFails(q) \/ (EndMark(q) /\ q # "watch") \/ (q = "watch" /\ SaveState) \/ ReadFails(q) \/ Dies(q)
  <2>1. Stop(q)
    BY <1>5 DEF ScanFails, EndMark, SaveState, ReadFails, Dies
  <2> QED BY <2>1, StopOther
<1>6. CASE ReadFrame(q) \/ OpenFrame(q) \/ CloseFrame(q)
  BY <1>6 DEF ReadFrame, OpenFrame, CloseFrame, Goto, TypeOK, local
<1> QED BY <1>1, <1>2, <1>3, <1>4, <1>5, <1>6 DEF Own, Reads, Writes

\* A run of the watcher, the import or the feed is finite: each step of the
\* program takes it nearer its end, with the messages of a loop counted down,
\* and the other programs do not take it back.  EveryMailIsStored adds that the
\* programs go on, and begin again.
THEOREM RunsAreFinite == Spec => RunsRunDown
<1> DEFINE Down ==
    \A p \in Programs : pc[p] # "idle" =>
          IF Own(p) THEN Nearer(p)
          ELSE /\ pc'[p] = pc[p] /\ at'[p] = at[p]
               /\ p \in Readers => todo'[p] = todo[p]
<1>1. ASSUME TypeOK, [Next]_vars PROVE [Down]_vars
  <2> SUFFICES ASSUME Next, NEW p \in Programs, pc[p] # "idle", ~Own(p)
               PROVE  /\ pc'[p] = pc[p] /\ at'[p] = at[p]
                      /\ p \in Readers => todo'[p] = todo[p]
    BY <1>1, OwnIsNearer
  <2>1. CASE Arrive
    BY <2>1 DEF Arrive, local
  <2>2. CASE FeedBegins
    BY <1>1, <2>2 DEF FeedBegins, Goto, TypeOK, local
  <2>3. CASE \E q \in Programs : Own(q)
    BY <1>1, <2>3, OtherStays
  <2> QED BY <2>1, <2>2, <2>3 DEF Next, Own, Programs
<1>2. Spec => [][Down]_vars
  BY TypeCorrect, <1>1, PTL DEF Spec
<1> QED BY <1>2 DEF RunsRunDown
===============================================================================

-------------------------- MODULE MembershipProofs --------------------------
(***************************************************************************)
(* Theorems about notes and their revisions, decisions on memberships and  *)
(* honorary grants, for any number of officers, persons and calls.  In     *)
(* each of the three, a call reads and another statement writes; what      *)
(* makes it right is that a version that is still current was not written  *)
(* over since the call read it.                                            *)
(***************************************************************************)
EXTENDS Memberships, RankingProofs

-----------------------------------------------------------------------------
(* Notes.  The inductive invariant: an edit whose version is still the     *)
(* note's has read the text the note has, so what it replaces is what it   *)
(* has kept as a revision.                                                 *)

NoteRow == [person : Nat, body : Nat, version : Nat, at : Nat]
Notes == Seq(NoteRow)
Revisions == Seq([note : Nat, body : Nat])
Texts == [note : Nat, body : Nat]
Edits == [note : Nat, version : Nat, old : Nat, new : Nat, kept : BOOLEAN]

Events == Seq(Seq(Nat))

NotesTyped ==
  /\ persons \in Events
  /\ notes \in Notes /\ revisions \in Revisions
  /\ texts \subseteq Texts /\ editing \subseteq Edits /\ edits \in Nat

IsRevision(note, body) ==
  \E r \in DOMAIN revisions : revisions[r].note = note /\ revisions[r].body = body

\* Every text is the note's now or a revision's.
TextStands(t) ==
  /\ t.note \in DOMAIN notes
  /\ notes[t.note].body = t.body \/ IsRevision(t.note, t.body)

\* An edit whose version is still the note's has read the note's text, and
\* one that has kept what it read finds it among the revisions.
EditKnowsText(call) ==
  /\ call.note \in DOMAIN notes
  /\ call.version <= notes[call.note].version
  /\ call.version = notes[call.note].version => notes[call.note].body = call.old
  /\ call.kept => IsRevision(call.note, call.old)

NotesInv ==
  /\ NotesTyped
  /\ \A t \in texts : TextStands(t)
  /\ \A call \in editing : EditKnowsText(call)

-----------------------------------------------------------------------------

LEMMA TextsStandMeansNoneIsLost ==
  ASSUME NotesInv
  PROVE  NoTextIsLost
<1>1. SUFFICES ASSUME NEW t \in texts
               PROVE  t.body \in Kept(t.note)
  BY DEF NoTextIsLost
<1>2. TextStands(t)
  BY DEF NotesInv
<1>3. CASE notes[t.note].body = t.body
  BY <1>3 DEF Kept
<1>4. CASE IsRevision(t.note, t.body)
  BY <1>4 DEF IsRevision, Kept
<1>5. QED
  BY <1>2, <1>3, <1>4 DEF TextStands

LEMMA NotesInvInit ==
  ASSUME Init
  PROVE  NotesInv
<1>1. notes \in Notes /\ revisions \in Revisions /\ persons \in Events
  BY DEF Init, Notes, Revisions, Events
<1>2. texts = {} /\ editing = {} /\ edits = 0
  BY DEF Init
<1>3. QED
  BY <1>1, <1>2 DEF NotesInv, NotesTyped

\* What a step does to the texts of notes, by the call that takes it.
NotesStand ==
  /\ NotesInv
  /\ UNCHANGED <<notes, revisions, texts, editing>>
  /\ persons' \in Events /\ edits' \in Nat

LEMMA NotesStandHold ==
  ASSUME NotesStand
  PROVE  NotesInv'
<1>1. NotesTyped'
  BY DEF NotesStand, NotesInv, NotesTyped
<1>2. \A t \in texts' : TextStands(t)'
  BY DEF NotesStand, NotesInv, TextStands, IsRevision
<1>3. \A call \in editing' : EditKnowsText(call)'
  BY DEF NotesStand, NotesInv, EditKnowsText, IsRevision
<1>4. QED
  BY <1>1, <1>2, <1>3 DEF NotesInv

LEMMA OthersLeaveNotes ==
  ASSUME NotesInv,
         PersonStep \/ MembershipStep \/ DecisionStep \/ FccStep \/ HonoraryStep \/ Tick
  PROVE  NotesStand
<1> USE DEF NotesStand, rowVars, callVars, Begin, now
<1>1. edits \in Nat /\ persons \in Events
  BY DEF NotesInv, NotesTyped
<1>2. CASE PersonStep
  <2>1. Append(persons, <<edits + 1>>) \in Events
    BY <1>1 DEF Events
  <2>2. ASSUME NEW p \in Persons
        PROVE  [persons EXCEPT ![p] = Append(@, edits + 1)] \in Events
    <3>1. persons[p] \in Seq(Nat) /\ p \in 1 .. Len(persons)
      BY <1>1 DEF Events, Persons
    <3>2. Append(persons[p], edits + 1) \in Seq(Nat)
      BY <1>1, <3>1
    <3>3. QED
      BY <1>1, <3>1, <3>2, ExceptSeq DEF Events
  <2>3. ASSUME NEW base \in BaseTypes, CreatePerson(base)
        PROVE  NotesStand
    BY <1>1, <2>1, <2>3 DEF CreatePerson
  <2>4. CASE CreatePersonOnly
    BY <1>1, <2>1, <2>4 DEF CreatePersonOnly
  <2>5. ASSUME NEW call \in creating, CreatePersonApplies(call) \/ CreatePersonStops(call)
        PROVE  NotesStand
    BY <1>1, <2>5 DEF CreatePersonApplies, CreatePersonStops
  <2>6. ASSUME NEW p \in Persons, PersonChanges(p)
        PROVE  NotesStand
    <3>1. persons' = [persons EXCEPT ![p] = Append(@, edits + 1)] /\ edits' = edits + 1
      BY <2>6 DEF PersonChanges
    <3>2. persons' \in Events
      BY <2>2, <3>1
    <3>3. UNCHANGED <<notes, revisions, texts, editing>>
      BY <2>6 DEF PersonChanges
    <3>4. QED
      BY <1>1, <3>1, <3>2, <3>3
  <2>7. QED
    BY <1>2, <2>3, <2>4, <2>5, <2>6 DEF PersonStep
<1>3. CASE MembershipStep
  <2>1. ASSUME NEW p \in Persons, NEW base \in BaseTypes, MembershipApply(p, base)
        PROVE  NotesStand
    BY <1>1, <2>1 DEF MembershipApply
  <2>2. ASSUME NEW m \in DOMAIN memberships, NEW life \in Ends,
               NEW version \in Seen(memberships[m]), TransitionLifecycle(m, version, life)
        PROVE  NotesStand
    BY <1>1, <2>2 DEF TransitionLifecycle
  <2>3. QED
    BY <1>3, <2>1, <2>2 DEF MembershipStep
<1>4. CASE DecisionStep
  <2>1. ASSUME NEW m, NEW version, NEW decision, NEW row, Decides(m, version, decision, row)
        PROVE  NotesStand
    BY <1>1, <2>1 DEF Decides
  <2>2. ASSUME NEW call \in deciding, CreateMembershipApproval(call) \/ DecisionStops(call)
        PROVE  NotesStand
    BY <1>1, <2>2 DEF CreateMembershipApproval, DecisionStops
  <2>3. QED
    BY <1>4, <2>1, <2>2 DEF DecisionStep, ApproveMembership, RejectMembership
<1>5. CASE FccStep
  <2>1. ASSUME NEW m, VerifyFCC(m)
        PROVE  NotesStand
    BY <1>1, <2>1 DEF VerifyFCC
  <2>2. ASSUME NEW v, RevokeFCCVerification(v)
        PROVE  NotesStand
    BY <1>1, <2>2 DEF RevokeFCCVerification
  <2>3. QED
    BY <1>5, <2>1, <2>2 DEF FccStep
<1>6. CASE HonoraryStep
  <2>1. ASSUME NEW m, NEW until, CreateHonoraryGrant(m, until)
        PROVE  NotesStand
    <3>1. edits' = edits + 1 /\ UNCHANGED <<persons, notes, revisions, texts, editing>>
      BY <2>1 DEF CreateHonoraryGrant
    <3>2. QED
      BY <1>1, <3>1
  <2>2. ASSUME NEW g, NEW version, NEW until, UpdateHonoraryReads(g, version, until)
        PROVE  NotesStand
    BY <1>1, <2>2 DEF UpdateHonoraryReads
  <2>3. ASSUME NEW g, NEW version, NEW row, EndHonor(g, version, row)
        PROVE  NotesStand
    BY <1>1, <2>3 DEF EndHonor
  <2>4. ASSUME NEW call \in merging, UpdateHonoraryWrites(call)
        PROVE  NotesStand
    BY <1>1, <2>4 DEF UpdateHonoraryWrites
  <2>5. ASSUME NEW call \in merging, UpdateHonoraryStops(call)
        PROVE  NotesStand
    BY <1>1, <2>5 DEF UpdateHonoraryStops
  <2>6. QED
    BY <1>6, <2>1, <2>2, <2>3, <2>4, <2>5
       DEF HonoraryStep, ExpireHonoraryGrant, RevokeHonoraryGrant
<1>7. CASE Tick
  BY <1>1, <1>7 DEF Tick
<1>8. QED
  BY <1>2, <1>3, <1>4, <1>5, <1>6, <1>7

-----------------------------------------------------------------------------
(* The steps of notes.                                                     *)

LEMMA CreateNoteKeepsInv ==
  ASSUME NotesInv, NEW p \in Persons, CreateNote(p)
  PROVE  NotesInv'
<1> DEFINE n == Note(p)
<1>1. p \in Nat /\ edits \in Nat /\ notes \in Notes
  BY DEF NotesInv, NotesTyped, Persons, Events
<1>2. n \in NoteRow
  BY <1>1 DEF Note, NoteRow, now
<1>3. notes' = Append(notes, n)
  BY DEF CreateNote
<1> HIDE DEF n
<1>4. /\ notes' \in Notes /\ DOMAIN notes \subseteq DOMAIN notes'
      /\ \A i \in DOMAIN notes : notes'[i] = notes[i]
      /\ Len(notes) + 1 \in DOMAIN notes' /\ notes'[Len(notes) + 1] = n
      /\ Len(notes) \in Nat
  <2>1. notes \in Seq(NoteRow)
    BY <1>1 DEF Notes
  <2>2. /\ Append(notes, n) \in Seq(NoteRow)
        /\ Len(Append(notes, n)) = Len(notes) + 1
        /\ \A i \in 1 .. Len(notes) : Append(notes, n)[i] = notes[i]
        /\ Append(notes, n)[Len(notes) + 1] = n
    BY <2>1, <1>2, AppendProperties
  <2>3. /\ Len(notes) \in Nat
        /\ DOMAIN notes = 1 .. Len(notes)
        /\ DOMAIN Append(notes, n) = 1 .. Len(notes) + 1
    BY <2>1, <2>2, LenProperties
  <2>4. QED
    BY <1>3, <2>2, <2>3 DEF Notes
<1>5. /\ texts' = texts \cup {[note |-> Len(notes) + 1, body |-> now]}
      /\ edits' = edits + 1 /\ UNCHANGED <<persons, revisions, editing>>
  BY DEF CreateNote, Begin, callVars, now
<1>6. n.body = now
  BY DEF n, Note
<1>7. NotesTyped'
  BY <1>1, <1>4, <1>5 DEF NotesInv, NotesTyped, Texts, now
<1>8. ASSUME NEW t \in texts'
      PROVE  TextStands(t)'
  <2>1. CASE t \in texts
    BY <1>4, <1>5, <2>1 DEF NotesInv, TextStands, IsRevision
  <2>2. CASE t = [note |-> Len(notes) + 1, body |-> now]
    BY <1>4, <1>6, <2>2 DEF TextStands
  <2>3. QED
    BY <1>5, <2>1, <2>2
<1>9. ASSUME NEW call \in editing'
      PROVE  EditKnowsText(call)'
  BY <1>4, <1>5 DEF NotesInv, EditKnowsText, IsRevision
<1>10. QED
  BY <1>7, <1>8, <1>9 DEF NotesInv

LEMMA UpdateNoteReadsKeepsInv ==
  ASSUME NotesInv, NEW n \in DOMAIN notes, NEW version \in Seen(notes[n]),
         UpdateNoteReads(n, version)
  PROVE  NotesInv'
<1> DEFINE call == [note |-> n, version |-> version, old |-> notes[n].body,
                    new |-> now, kept |-> FALSE]
<1>1. notes \in Seq(NoteRow) /\ edits \in Nat
  BY DEF NotesInv, NotesTyped, Notes
<1>2. n \in 1 .. Len(notes) /\ Len(notes) \in Nat
  BY <1>1
<1>3. notes[n] \in NoteRow /\ n \in Nat
  BY <1>1, <1>2
<1>4. notes[n].body \in Nat /\ notes[n].version \in Nat
  BY <1>3 DEF NoteRow
<1>5. version \in Nat /\ version <= notes[n].version
  BY <1>4 DEF Seen
<1>6. /\ editing' = editing \cup {call} /\ edits' = edits + 1
      /\ UNCHANGED <<persons, notes, revisions, texts>>
  BY DEF UpdateNoteReads, Begin, rowVars, now
<1>7. call \in Edits
  BY <1>1, <1>3, <1>4, <1>5 DEF Edits, now
<1>8. EditKnowsText(call)
  BY <1>5 DEF EditKnowsText
<1> HIDE DEF call
<1>9. NotesTyped'
  BY <1>3, <1>6, <1>7 DEF NotesInv, NotesTyped
<1>10. \A t \in texts' : TextStands(t)'
  BY <1>6 DEF NotesInv, TextStands, IsRevision
<1>11. ASSUME NEW c \in editing'
      PROVE  EditKnowsText(c)'
  <2>1. EditKnowsText(c)
    BY <1>6, <1>8 DEF NotesInv
  <2>2. QED
    BY <1>6, <2>1 DEF EditKnowsText, IsRevision
<1>12. QED
  BY <1>9, <1>10, <1>11 DEF NotesInv

LEMMA CreateNoteRevisionKeepsInv ==
  ASSUME NotesInv, NEW call \in editing, CreateNoteRevision(call)
  PROVE  NotesInv'
<1> DEFINE row == [note |-> call.note, body |-> call.old]
           marked == [call EXCEPT !.kept = TRUE]
<1>1. call \in Edits /\ revisions \in Revisions
  BY DEF NotesInv, NotesTyped
<1>2. row \in [note : Nat, body : Nat]
  BY <1>1 DEF Edits
<1>3. /\ marked \in Edits
      /\ marked.note = call.note /\ marked.version = call.version
      /\ marked.old = call.old
  BY <1>1 DEF Edits
<1>4. /\ revisions' = Append(revisions, row)
      /\ editing' = (editing \ {call}) \cup {marked}
      /\ UNCHANGED <<persons, notes, texts, edits>>
  BY DEF CreateNoteRevision
<1>5. row.note = call.note /\ row.body = call.old
  OBVIOUS
<1> HIDE DEF row, marked
<1>6. /\ revisions' \in Revisions /\ DOMAIN revisions \subseteq DOMAIN revisions'
      /\ \A i \in DOMAIN revisions : revisions'[i] = revisions[i]
      /\ Len(revisions) + 1 \in DOMAIN revisions'
      /\ revisions'[Len(revisions) + 1] = row
  BY <1>1, <1>2, <1>4 DEF Revisions
<1>7. ASSUME NEW i, NEW b, IsRevision(i, b)
      PROVE  IsRevision(i, b)'
  BY <1>6, <1>7 DEF IsRevision
<1>8. IsRevision(call.note, call.old)'
  BY <1>5, <1>6 DEF IsRevision
<1>9. NotesTyped'
  BY <1>3, <1>4, <1>6 DEF NotesInv, NotesTyped
<1>10. ASSUME NEW t \in texts'
       PROVE  TextStands(t)'
  BY <1>4, <1>7 DEF NotesInv, TextStands
<1>11. ASSUME NEW c \in editing'
       PROVE  EditKnowsText(c)'
  <2>1. CASE c \in editing
    BY <1>4, <1>7, <2>1 DEF NotesInv, EditKnowsText
  <2>2. CASE c = marked
    BY <1>3, <1>4, <1>8, <2>2 DEF NotesInv, EditKnowsText
  <2>3. QED
    BY <1>4, <2>1, <2>2
<1>12. QED
  BY <1>9, <1>10, <1>11 DEF NotesInv

\* The one step that replaces a text: what it replaces is what it has kept.
LEMMA UpdateNoteWritesKeepsInv ==
  ASSUME NotesInv, NEW call \in editing, UpdateNoteWrites(call)
  PROVE  NotesInv'
<1> DEFINE n == call.note
           row == Reworded(notes[n], call.new)
           text == [note |-> n, body |-> call.new]
<1>1. call \in Edits /\ EditKnowsText(call) /\ notes \in Notes
  BY DEF NotesInv, NotesTyped
<1>2. n \in DOMAIN notes /\ n \in Nat /\ call.new \in Nat
  BY <1>1 DEF EditKnowsText, Edits
<1>3. notes[n] \in NoteRow
  BY <1>1, <1>2 DEF Notes
<1>4. n \in DOMAIN notes /\ n \in Nat /\ call.new \in Nat /\ notes[n] \in NoteRow
  BY <1>2, <1>3
<1>5. /\ row \in NoteRow
      /\ row.body = call.new /\ row.version = notes[n].version + 1
  <2>1. \A r \in NoteRow, b \in Nat :
          /\ Reworded(r, b) \in NoteRow
          /\ Reworded(r, b).body = b /\ Reworded(r, b).version = r.version + 1
    <3>1. SUFFICES ASSUME NEW r \in NoteRow, NEW b \in Nat
                   PROVE  /\ Reworded(r, b) \in NoteRow
                          /\ Reworded(r, b).body = b
                          /\ Reworded(r, b).version = r.version + 1
      OBVIOUS
    <3>2. /\ r.person \in Nat /\ r.version + 1 \in Nat /\ r.at \in Nat
          /\ r = [person |-> r.person, body |-> r.body, version |-> r.version, at |-> r.at]
      BY DEF NoteRow
    <3> DEFINE f == [r EXCEPT !.body = b]
    <3>3. f = [person |-> r.person, body |-> b, version |-> r.version, at |-> r.at]
      BY DEF NoteRow
    <3>4. Reworded(r, b) = [f EXCEPT !.version = r.version + 1]
      BY <3>3 DEF Reworded
    <3> HIDE DEF f
    <3>5. Reworded(r, b) =
            [person |-> r.person, body |-> b, version |-> r.version + 1, at |-> r.at]
      BY <3>3, <3>4
    <3>6. QED
      BY <3>2, <3>5 DEF NoteRow
  <2>2. QED
    BY <1>4, <2>1
<1>6. /\ call.kept /\ notes[n].version = call.version
      /\ notes' = [notes EXCEPT ![n] = row]
      /\ texts' = texts \cup {text}
      /\ editing' = editing \ {call}
      /\ UNCHANGED <<persons, revisions, edits>>
  BY DEF UpdateNoteWrites, IsCurrent
<1>7. IsRevision(n, notes[n].body)
  BY <1>1, <1>6 DEF EditKnowsText
<1>8. text \in Texts /\ text.note = n /\ text.body = call.new
  BY <1>4 DEF Texts
<1> HIDE DEF row, text, n
<1>9. /\ notes' \in Notes /\ DOMAIN notes' = DOMAIN notes
      /\ notes'[n] = row
      /\ \A i \in DOMAIN notes \ {n} : notes'[i] = notes[i]
  <2>1. notes \in Seq(NoteRow) /\ n \in 1 .. Len(notes) /\ row \in NoteRow
    BY <1>1, <1>4, <1>5 DEF Notes
  <2>2. [notes EXCEPT ![n] = row] \in Seq(NoteRow)
    BY <2>1, ExceptSeq
  <2>3. QED
    BY <1>4, <1>6, <2>2 DEF Notes
<1>10. NotesTyped'
  BY <1>6, <1>8, <1>9 DEF NotesInv, NotesTyped
<1>11. ASSUME NEW t \in texts'
      PROVE  TextStands(t)'
  <2>1. CASE t = text
    BY <1>4, <1>5, <1>8, <1>9, <2>1 DEF TextStands
  <2>2. CASE t \in texts /\ t.note = n
    <3>1. IsRevision(t.note, t.body)
      BY <1>7, <2>2 DEF NotesInv, TextStands
    <3>2. QED
      BY <1>4, <1>6, <1>9, <2>2, <3>1 DEF TextStands, IsRevision
  <2>3. CASE t \in texts /\ t.note # n
    BY <1>6, <1>9, <2>3 DEF NotesInv, TextStands, IsRevision
  <2>4. QED
    BY <1>6, <2>1, <2>2, <2>3
<1>12. ASSUME NEW c \in editing'
       PROVE  EditKnowsText(c)'
  <2>1. c \in Edits /\ EditKnowsText(c)
    BY <1>6 DEF NotesInv, NotesTyped
  <2>2. c.kept => IsRevision(c.note, c.old)'
    BY <1>6, <2>1 DEF EditKnowsText, IsRevision
  <2>3. CASE c.note = n
    <3>1. c.version <= notes[n].version /\ c.version \in Nat /\ notes[n].version \in Nat
      BY <1>4, <2>1, <2>3 DEF EditKnowsText, Edits, NoteRow
    <3>2. notes'[n].version = notes[n].version + 1
      BY <1>5, <1>9
    <3>3. c.version <= notes'[n].version /\ c.version # notes'[n].version
      BY <3>1, <3>2
    <3>4. QED
      BY <1>4, <1>9, <2>2, <2>3, <3>3 DEF EditKnowsText
  <2>4. CASE c.note # n
    BY <1>9, <2>1, <2>2, <2>4 DEF EditKnowsText
  <2>5. QED
    BY <2>3, <2>4
<1>13. QED
  BY <1>10, <1>11, <1>12 DEF NotesInv

LEMMA UpdateNoteStopsKeepsInv ==
  ASSUME NotesInv, NEW call \in editing, UpdateNoteStops(call)
  PROVE  NotesInv'
<1>1. editing' = editing \ {call} /\ UNCHANGED <<persons, notes, revisions, texts, edits>>
  BY DEF UpdateNoteStops, rowVars
<1>2. NotesTyped'
  BY <1>1 DEF NotesInv, NotesTyped
<1>3. \A t \in texts' : TextStands(t)'
  BY <1>1 DEF NotesInv, TextStands, IsRevision
<1>4. \A c \in editing' : EditKnowsText(c)'
  BY <1>1 DEF NotesInv, EditKnowsText, IsRevision
<1>5. QED
  BY <1>2, <1>3, <1>4 DEF NotesInv

-----------------------------------------------------------------------------

LEMMA NoteStepKeepsInv ==
  ASSUME NotesInv, NoteStep
  PROVE  NotesInv'
<1>1. CASE \E p \in Persons : CreateNote(p)
  BY <1>1, CreateNoteKeepsInv
<1>2. CASE \E n \in DOMAIN notes : \E version \in Seen(notes[n]) :
             UpdateNoteReads(n, version)
  BY <1>2, UpdateNoteReadsKeepsInv
<1>3. CASE \E call \in editing :
             CreateNoteRevision(call) \/ UpdateNoteWrites(call) \/ UpdateNoteStops(call)
  BY <1>3, CreateNoteRevisionKeepsInv, UpdateNoteWritesKeepsInv, UpdateNoteStopsKeepsInv
<1>4. QED
  BY <1>1, <1>2, <1>3 DEF NoteStep

LEMMA NotesInvStep ==
  ASSUME NotesInv, [Next]_vars
  PROVE  NotesInv'
<1>1. CASE NoteStep
  BY <1>1, NoteStepKeepsInv
<1>2. CASE PersonStep \/ MembershipStep \/ DecisionStep \/ FccStep \/ HonoraryStep \/ Tick
  BY <1>2, OthersLeaveNotes, NotesStandHold
<1>3. CASE UNCHANGED vars
  <2>1. NotesStand
    BY <1>3 DEF vars, rowVars, callVars, NotesStand, NotesInv, NotesTyped
  <2>2. QED
    BY <2>1, NotesStandHold
<1>4. QED
  BY <1>1, <1>2, <1>3 DEF Next

\* UpdateNote "preserving edit history": however edits of a note interleave,
\* are refused or stop half way, no text it ever had is lost.
THEOREM NoteHistoryKept == Spec => []NoTextIsLost
<1>1. Init => NotesInv
  BY NotesInvInit
<1>2. NotesInv /\ [Next]_vars => NotesInv'
  BY NotesInvStep
<1>3. NotesInv => NoTextIsLost
  BY TextsStandMeansNoneIsLost
<1>4. QED
  BY <1>1, <1>2, <1>3, PTL DEF Spec

-----------------------------------------------------------------------------
(* Decisions.  The inductive invariant: a decision written or about to be  *)
(* is about a version its membership has left behind, so no later decision *)
(* can be about that version again.                                        *)

Lives == {"pending", "approved", "rejected"} \cup Ends
MembershipRow ==
  [person : Nat, base : BaseTypes, life : Lives, ended : Nat, version : Nat, at : Nat]
Decisions == [membership : Nat, decision : {"approved", "rejected"}, version : Nat]

DecisionsTyped ==
  /\ memberships \in Seq(MembershipRow) /\ day \in Nat
  /\ creating \subseteq [person : Nat, base : BaseTypes]
  /\ approvals \in Seq(Decisions) /\ deciding \subseteq Decisions

Settled(d) ==
  d.membership \in DOMAIN memberships /\ d.version < memberships[d.membership].version

AllSettled ==
  /\ \A i \in DOMAIN approvals : Settled(approvals[i])
  /\ \A call \in deciding : Settled(call)

DecisionsInv == DecisionsTyped /\ AllSettled /\ TwoOfficersOneDecision

\* No membership goes, and none goes back to an earlier version.
VersionsGrow ==
  \A m \in DOMAIN memberships :
    /\ m \in DOMAIN memberships'
    /\ memberships[m].version \in Nat /\ memberships'[m].version \in Nat
    /\ memberships[m].version <= memberships'[m].version

LEMMA DecisionsInvInit ==
  ASSUME Init
  PROVE  DecisionsInv
<1>1. /\ memberships \in Seq(MembershipRow) /\ day \in Nat /\ creating = {}
      /\ approvals \in Seq(Decisions) /\ approvals = <<>> /\ deciding = {}
  BY DEF Init
<1>2. DOMAIN approvals = {}
  BY <1>1
<1>3. QED
  BY <1>1, <1>2 DEF DecisionsInv, DecisionsTyped, AllSettled, TwoOfficersOneDecision

LEMMA SettledStays ==
  ASSUME VersionsGrow, NEW d \in Decisions, Settled(d)
  PROVE  d.membership \in DOMAIN memberships' /\ d.version < memberships'[d.membership].version
<1>1. d.version \in Nat
  BY DEF Decisions
<1>2. QED
  BY <1>1 DEF VersionsGrow, Settled

LEMMA VersionsGrowWhenUnchanged ==
  ASSUME DecisionsInv, UNCHANGED memberships
  PROVE  VersionsGrow
<1>1. ASSUME NEW m \in DOMAIN memberships
      PROVE  memberships[m].version \in Nat
  <2>1. memberships \in Seq(MembershipRow)
    BY DEF DecisionsInv, DecisionsTyped
  <2>2. memberships[m] \in MembershipRow
    BY <2>1
  <2>3. QED
    BY <2>2 DEF MembershipRow
<1>2. QED
  BY <1>1 DEF VersionsGrow

LEMMA VersionsGrowByOne ==
  ASSUME DecisionsInv, NEW m \in DOMAIN memberships, NEW row \in MembershipRow,
         row.version = memberships[m].version + 1,
         memberships' = [memberships EXCEPT ![m] = row]
  PROVE  /\ memberships' \in Seq(MembershipRow) /\ VersionsGrow
         /\ m \in DOMAIN memberships' /\ memberships'[m].version = memberships[m].version + 1
<1>1. memberships \in Seq(MembershipRow) /\ m \in 1 .. Len(memberships)
  BY DEF DecisionsInv, DecisionsTyped
<1>2. memberships' \in Seq(MembershipRow)
  BY <1>1, ExceptSeq
<1>3. DOMAIN memberships' = DOMAIN memberships
  OBVIOUS
<1>4. memberships'[m] = row /\ \A k \in DOMAIN memberships \ {m} : memberships'[k] = memberships[k]
  OBVIOUS
<1>5. ASSUME NEW k \in DOMAIN memberships
      PROVE  memberships[k].version \in Nat
  <2>1. memberships[k] \in MembershipRow
    BY <1>1
  <2>2. QED
    BY <2>1 DEF MembershipRow
<1>6. row.version \in Nat
  BY DEF MembershipRow
<1>7. VersionsGrow
  BY <1>3, <1>4, <1>5, <1>6 DEF VersionsGrow
<1>8. QED
  BY <1>2, <1>3, <1>4, <1>7

LEMMA VersionsGrowByAppend ==
  ASSUME DecisionsInv, NEW row \in MembershipRow,
         memberships' = Append(memberships, row)
  PROVE  memberships' \in Seq(MembershipRow) /\ VersionsGrow
<1>1. memberships \in Seq(MembershipRow)
  BY DEF DecisionsInv, DecisionsTyped
<1>2. /\ memberships' \in Seq(MembershipRow)
      /\ Len(memberships') = Len(memberships) + 1
      /\ \A k \in 1 .. Len(memberships) : memberships'[k] = memberships[k]
  BY <1>1, AppendProperties
<1>3. /\ Len(memberships) \in Nat /\ DOMAIN memberships = 1 .. Len(memberships)
      /\ DOMAIN memberships' = 1 .. Len(memberships) + 1
  BY <1>1, <1>2, LenProperties
<1>4. ASSUME NEW k \in DOMAIN memberships
      PROVE  memberships[k].version \in Nat
  <2>1. memberships[k] \in MembershipRow
    BY <1>1
  <2>2. QED
    BY <2>1 DEF MembershipRow
<1>5. VersionsGrow
  BY <1>2, <1>3, <1>4 DEF VersionsGrow
<1>6. QED
  BY <1>2, <1>5

\* What keeps the invariant when no decision is taken or recorded.
LEMMA NoDecisionKeepsInv ==
  ASSUME DecisionsInv, VersionsGrow, DecisionsTyped',
         approvals' = approvals, deciding' \subseteq deciding
  PROVE  DecisionsInv'
<1>1. ASSUME NEW i \in DOMAIN approvals'
      PROVE  Settled(approvals[i])'
  <2>1. approvals \in Seq(Decisions) /\ i \in DOMAIN approvals
    BY DEF DecisionsInv, DecisionsTyped
  <2>2. approvals[i] \in Decisions
    BY <2>1
  <2>3. Settled(approvals[i])
    BY <2>1 DEF DecisionsInv, AllSettled
  <2>4. QED
    BY <2>2, <2>3, SettledStays DEF Settled
<1>2. ASSUME NEW call \in deciding'
      PROVE  Settled(call)'
  <2>1. call \in Decisions /\ Settled(call)
    BY DEF DecisionsInv, DecisionsTyped, AllSettled
  <2>2. QED
    BY <2>1, SettledStays DEF Settled
<1>3. AllSettled'
  BY <1>1, <1>2 DEF AllSettled
<1>4. TwoOfficersOneDecision'
  BY DEF DecisionsInv, TwoOfficersOneDecision, Recorded
<1>5. QED
  BY <1>3, <1>4 DEF DecisionsInv

LEMMA MembershipHasType ==
  ASSUME NEW person \in Nat, NEW base \in BaseTypes, NEW at \in Nat
  PROVE  Membership(person, base, at) \in MembershipRow
BY DEF Membership, MembershipRow, Lives, Never

\* A row decided or ended keeps its type, and its version goes up by one.
LEMMA DecidedHasType ==
  ASSUME NEW m \in MembershipRow, NEW life \in Lives, NEW base \in BaseTypes
  PROVE  LET row == [m EXCEPT !.life = life, !.base = base, !.version = @ + 1]
         IN row \in MembershipRow /\ row.version = m.version + 1
<1> DEFINE f == [m EXCEPT !.life = life]
           g == [f EXCEPT !.base = base]
           row == [m EXCEPT !.life = life, !.base = base, !.version = @ + 1]
<1>1. m.person \in Nat /\ m.ended \in Nat /\ m.version + 1 \in Nat /\ m.at \in Nat
  BY DEF MembershipRow
<1>2. f = [person |-> m.person, base |-> m.base, life |-> life, ended |-> m.ended,
           version |-> m.version, at |-> m.at]
  BY DEF MembershipRow
<1>3. row = [g EXCEPT !.version = m.version + 1]
  BY <1>2
<1> HIDE DEF f
<1>4. g = [person |-> m.person, base |-> base, life |-> life, ended |-> m.ended,
           version |-> m.version, at |-> m.at]
  BY <1>2
<1> HIDE DEF g
<1>5. row = [person |-> m.person, base |-> base, life |-> life, ended |-> m.ended,
             version |-> m.version + 1, at |-> m.at]
  BY <1>3, <1>4
<1>6. QED
  BY <1>1, <1>5 DEF MembershipRow

LEMMA RejectedHasType ==
  ASSUME NEW m \in MembershipRow
  PROVE  Rejected(m) \in MembershipRow /\ Rejected(m).version = m.version + 1
<1> DEFINE f == [m EXCEPT !.life = "rejected"]
<1>1. /\ m.person \in Nat /\ m.base \in BaseTypes /\ m.ended \in Nat
      /\ m.version + 1 \in Nat /\ m.at \in Nat
  BY DEF MembershipRow
<1>2. f = [person |-> m.person, base |-> m.base, life |-> "rejected", ended |-> m.ended,
           version |-> m.version, at |-> m.at]
  BY DEF MembershipRow
<1>3. Rejected(m) = [f EXCEPT !.version = m.version + 1]
  BY <1>2 DEF Rejected
<1> HIDE DEF f
<1>4. Rejected(m) =
        [person |-> m.person, base |-> m.base, life |-> "rejected", ended |-> m.ended,
         version |-> m.version + 1, at |-> m.at]
  BY <1>2, <1>3
<1>5. QED
  BY <1>1, <1>4 DEF MembershipRow, Lives

LEMMA EndedHasType ==
  ASSUME NEW m \in MembershipRow, NEW life \in Ends, day \in Nat
  PROVE  Ended(m, life) \in MembershipRow /\ Ended(m, life).version = m.version + 1
<1> DEFINE f == [m EXCEPT !.life = life]
           g == [f EXCEPT !.ended = day]
<1>1. m.person \in Nat /\ m.base \in BaseTypes /\ m.version + 1 \in Nat /\ m.at \in Nat
  BY DEF MembershipRow
<1>2. f = [person |-> m.person, base |-> m.base, life |-> life, ended |-> m.ended,
           version |-> m.version, at |-> m.at]
  BY DEF MembershipRow
<1>3. Ended(m, life) = [g EXCEPT !.version = m.version + 1]
  BY <1>2 DEF Ended
<1> HIDE DEF f
<1>4. g = [person |-> m.person, base |-> m.base, life |-> life, ended |-> day,
           version |-> m.version, at |-> m.at]
  BY <1>2
<1> HIDE DEF g
<1>5. Ended(m, life) =
        [person |-> m.person, base |-> m.base, life |-> life, ended |-> day,
         version |-> m.version + 1, at |-> m.at]
  BY <1>3, <1>4
<1>6. QED
  BY <1>1, <1>5 DEF MembershipRow, Lives

LEMMA DecidesKeepsInv ==
  ASSUME DecisionsInv, NEW m \in DOMAIN memberships, NEW version,
         NEW decision \in {"approved", "rejected"}, NEW row \in MembershipRow,
         row.version = memberships[m].version + 1, Decides(m, version, decision, row)
  PROVE  DecisionsInv'
<1> DEFINE d == [membership |-> m, decision |-> decision, version |-> version]
<1>1. /\ memberships \in Seq(MembershipRow) /\ approvals \in Seq(Decisions)
      /\ deciding \subseteq Decisions /\ day \in Nat
      /\ creating \subseteq [person : Nat, base : BaseTypes]
  BY DEF DecisionsInv, DecisionsTyped
<1>2. m \in Nat /\ memberships[m] \in MembershipRow
  BY <1>1
<1>3. /\ version = memberships[m].version
      /\ memberships' = [memberships EXCEPT ![m] = row]
      /\ deciding' = deciding \cup {d}
      /\ UNCHANGED <<approvals, creating, day>>
  BY DEF Decides, IsCurrent
<1>4. version \in Nat
  BY <1>2, <1>3 DEF MembershipRow
<1>5. d \in Decisions /\ d.membership = m /\ d.version = version
  BY <1>2, <1>4 DEF Decisions
<1> HIDE DEF d
<1>6. /\ memberships' \in Seq(MembershipRow) /\ VersionsGrow
      /\ m \in DOMAIN memberships' /\ memberships'[m].version = version + 1
  BY <1>3, VersionsGrowByOne
<1>7. DecisionsTyped'
  BY <1>1, <1>3, <1>5, <1>6 DEF DecisionsTyped
<1>8. ASSUME NEW i \in DOMAIN approvals
      PROVE  Settled(approvals[i]) /\ Settled(approvals[i])' /\ approvals[i] \in Decisions
  <2>1. approvals[i] \in Decisions
    BY <1>1
  <2>2. Settled(approvals[i])
    BY DEF DecisionsInv, AllSettled
  <2>3. QED
    BY <1>3, <1>6, <2>1, <2>2, SettledStays DEF Settled
<1>9. ASSUME NEW call \in deciding
      PROVE  Settled(call) /\ Settled(call)' /\ call \in Decisions
  <2>1. Settled(call) /\ call \in Decisions
    BY <1>1 DEF DecisionsInv, AllSettled
  <2>2. QED
    BY <1>6, <2>1, SettledStays DEF Settled
<1>10. Settled(d)'
  BY <1>4, <1>5, <1>6 DEF Settled
<1>11. AllSettled'
  BY <1>3, <1>8, <1>9, <1>10 DEF AllSettled
<1>12. ASSUME NEW e \in Decisions, Settled(e)
       PROVE  Recorded(e) # Recorded(d)
  <2>1. e.membership = m => e.version < version
    BY <1>3, <1>12 DEF Settled
  <2>2. e.version \in Nat
    BY DEF Decisions
  <2>3. e.membership # m \/ e.version # version
    BY <1>4, <2>1, <2>2
  <2>4. QED
    BY <1>5, <2>3 DEF Recorded
<1>13. \A i \in DOMAIN approvals : Recorded(approvals[i]) # Recorded(d)
  BY <1>8, <1>12
<1>14. \A call \in deciding : Recorded(call) # Recorded(d)
  BY <1>9, <1>12
<1>15. TwoOfficersOneDecision
  BY DEF DecisionsInv
<1>16. TwoOfficersOneDecision'
  <2>1. \A i, j \in DOMAIN approvals :
          Recorded(approvals[i]) = Recorded(approvals[j]) => i = j
    BY <1>15 DEF TwoOfficersOneDecision
  <2>2. \A i \in DOMAIN approvals, call \in deciding' :
          Recorded(approvals[i]) # Recorded(call)
    BY <1>3, <1>13, <1>15 DEF TwoOfficersOneDecision
  <2>3. \A b, c \in deciding' : Recorded(b) = Recorded(c) => b = c
    BY <1>3, <1>14, <1>15 DEF TwoOfficersOneDecision
  <2>4. QED
    BY <1>3, <2>1, <2>2, <2>3 DEF TwoOfficersOneDecision, Recorded
<1>17. QED
  BY <1>7, <1>11, <1>16 DEF DecisionsInv

LEMMA CreateMembershipApprovalKeepsInv ==
  ASSUME DecisionsInv, NEW call \in deciding, CreateMembershipApproval(call)
  PROVE  DecisionsInv'
<1>1. /\ memberships \in Seq(MembershipRow) /\ approvals \in Seq(Decisions)
      /\ deciding \subseteq Decisions /\ day \in Nat
      /\ creating \subseteq [person : Nat, base : BaseTypes]
  BY DEF DecisionsInv, DecisionsTyped
<1>2. /\ approvals' = Append(approvals, call) /\ deciding' = deciding \ {call}
      /\ UNCHANGED <<memberships, creating, day>>
  BY DEF CreateMembershipApproval
<1>3. call \in Decisions
  BY <1>1
<1> DEFINE last == Len(approvals) + 1
<1>4. /\ approvals' \in Seq(Decisions) /\ DOMAIN approvals' = DOMAIN approvals \cup {last}
      /\ \A i \in DOMAIN approvals : approvals'[i] = approvals[i]
      /\ approvals'[last] = call
  <2>1. /\ approvals' \in Seq(Decisions) /\ Len(approvals') = last
        /\ \A i \in 1 .. Len(approvals) : approvals'[i] = approvals[i]
        /\ approvals'[last] = call
    BY <1>1, <1>2, <1>3, AppendProperties
  <2>2. /\ DOMAIN approvals = 1 .. Len(approvals) /\ Len(approvals) \in Nat
        /\ DOMAIN approvals' = 1 .. last
    BY <1>1, <2>1, LenProperties
  <2>3. QED
    BY <2>1, <2>2
<1> HIDE DEF last
<1>5. DecisionsTyped'
  BY <1>1, <1>2, <1>4 DEF DecisionsTyped
<1>6. AllSettled /\ TwoOfficersOneDecision
  BY DEF DecisionsInv
<1>7. AllSettled'
  BY <1>2, <1>4, <1>6 DEF AllSettled, Settled
<1>8. \A i \in DOMAIN approvals : Recorded(approvals[i]) # Recorded(call)
  BY <1>6 DEF TwoOfficersOneDecision
<1>9. \A c \in deciding' : Recorded(c) # Recorded(call)
  BY <1>2, <1>6 DEF TwoOfficersOneDecision
<1>10. \A i, j \in DOMAIN approvals' :
         Recorded(approvals'[i]) = Recorded(approvals'[j]) => i = j
  BY <1>4, <1>6, <1>8 DEF TwoOfficersOneDecision
<1>11. \A i \in DOMAIN approvals', c \in deciding' : Recorded(approvals'[i]) # Recorded(c)
  BY <1>2, <1>4, <1>6, <1>9 DEF TwoOfficersOneDecision
<1>12. \A b, c \in deciding' : Recorded(b) = Recorded(c) => b = c
  BY <1>2, <1>6 DEF TwoOfficersOneDecision
<1>13. TwoOfficersOneDecision'
  BY <1>10, <1>11, <1>12 DEF TwoOfficersOneDecision, Recorded
<1>14. QED
  BY <1>5, <1>7, <1>13 DEF DecisionsInv

-----------------------------------------------------------------------------
(* The steps of Next, by what they do to memberships and decisions.        *)

\* Memberships, the decisions recorded and those to be recorded stand.
DecisionsStand ==
  /\ UNCHANGED <<memberships, approvals, deciding>>
  /\ creating' \subseteq [person : Nat, base : BaseTypes] /\ day' \in Nat

LEMMA DecisionsStandHold ==
  ASSUME DecisionsInv, DecisionsStand
  PROVE  DecisionsInv'
<1>1. VersionsGrow
  BY VersionsGrowWhenUnchanged DEF DecisionsStand
<1>2. DecisionsTyped'
  BY DEF DecisionsInv, DecisionsTyped, DecisionsStand
<1>3. approvals' = approvals /\ deciding' \subseteq deciding
  BY DEF DecisionsStand
<1>4. QED
  BY <1>1, <1>2, <1>3, NoDecisionKeepsInv

\* A membership is added: the calls that create persons may end with it.
MembershipAdded(person, base, at) ==
  /\ memberships' = Append(memberships, Membership(person, base, at))
  /\ creating' \subseteq creating /\ UNCHANGED <<approvals, deciding, day>>

LEMMA MembershipAddedKeepsInv ==
  ASSUME DecisionsInv, NEW person \in Nat, NEW base \in BaseTypes, NEW at \in Nat,
         MembershipAdded(person, base, at)
  PROVE  DecisionsInv'
<1>1. Membership(person, base, at) \in MembershipRow
  BY MembershipHasType
<1>2. memberships' \in Seq(MembershipRow) /\ VersionsGrow
  BY <1>1, VersionsGrowByAppend DEF MembershipAdded
<1>3. DecisionsTyped'
  BY <1>2 DEF DecisionsInv, DecisionsTyped, MembershipAdded
<1>4. approvals' = approvals /\ deciding' \subseteq deciding
  BY DEF MembershipAdded
<1>5. QED
  BY <1>2, <1>3, <1>4, NoDecisionKeepsInv

LEMMA PersonStepKeepsDecisions ==
  ASSUME DecisionsInv, NotesInv, PersonStep
  PROVE  DecisionsInv'
<1>1. /\ creating \subseteq [person : Nat, base : BaseTypes] /\ day \in Nat
      /\ edits \in Nat /\ Len(persons) \in Nat
  BY DEF DecisionsInv, DecisionsTyped, NotesInv, NotesTyped, Events
<1>2. ASSUME NEW base \in BaseTypes, CreatePerson(base)
      PROVE  DecisionsInv'
  <2>1. [person |-> Len(persons) + 1, base |-> base] \in [person : Nat, base : BaseTypes]
    BY <1>1
  <2>2. DecisionsStand
    BY <1>1, <1>2, <2>1 DEF CreatePerson, DecisionsStand
  <2>3. QED
    BY <2>2, DecisionsStandHold
<1>3. CASE CreatePersonOnly
  <2>1. DecisionsStand
    BY <1>1, <1>3 DEF CreatePersonOnly, DecisionsStand, callVars
  <2>2. QED
    BY <2>1, DecisionsStandHold
<1>4. ASSUME NEW call \in creating, CreatePersonApplies(call)
      PROVE  DecisionsInv'
  <2>1. call.person \in Nat /\ call.base \in BaseTypes
    BY <1>1
  <2>2. MembershipAdded(call.person, call.base, edits)
    BY <1>4 DEF CreatePersonApplies, MembershipAdded
  <2>3. QED
    BY <1>1, <2>1, <2>2, MembershipAddedKeepsInv
<1>5. ASSUME NEW call \in creating, CreatePersonStops(call)
      PROVE  DecisionsInv'
  <2>1. DecisionsStand
    BY <1>1, <1>5 DEF CreatePersonStops, DecisionsStand, rowVars
  <2>2. QED
    BY <2>1, DecisionsStandHold
<1>6. ASSUME NEW p \in Persons, PersonChanges(p)
      PROVE  DecisionsInv'
  <2>1. DecisionsStand
    BY <1>1, <1>6 DEF PersonChanges, DecisionsStand, callVars
  <2>2. QED
    BY <2>1, DecisionsStandHold
<1>7. QED
  BY <1>2, <1>3, <1>4, <1>5, <1>6 DEF PersonStep

LEMMA MembershipStepKeepsDecisions ==
  ASSUME DecisionsInv, NotesInv, MembershipStep
  PROVE  DecisionsInv'
<1>1. /\ memberships \in Seq(MembershipRow) /\ day \in Nat
      /\ edits \in Nat /\ persons \in Events
  BY DEF DecisionsInv, DecisionsTyped, NotesInv, NotesTyped
<1>2. ASSUME NEW p \in Persons, NEW base \in BaseTypes, MembershipApply(p, base)
      PROVE  DecisionsInv'
  <2>1. p \in Nat
    BY <1>1 DEF Persons, Events
  <2>2. MembershipAdded(p, base, now)
    BY <1>2 DEF MembershipApply, MembershipAdded, callVars
  <2>3. QED
    BY <1>1, <2>1, <2>2, MembershipAddedKeepsInv DEF now
<1>3. ASSUME NEW m \in DOMAIN memberships, NEW life \in Ends,
             NEW version \in Seen(memberships[m]), TransitionLifecycle(m, version, life)
      PROVE  DecisionsInv'
  <2> DEFINE row == Ended(memberships[m], life)
  <2>1. memberships[m] \in MembershipRow
    BY <1>1
  <2>2. row \in MembershipRow /\ row.version = memberships[m].version + 1
    BY <1>1, <2>1, EndedHasType
  <2>3. memberships' = [memberships EXCEPT ![m] = row]
    BY <1>3 DEF TransitionLifecycle
  <2>4. UNCHANGED <<approvals, deciding, creating, day>>
    BY <1>3 DEF TransitionLifecycle, callVars
  <2> HIDE DEF row
  <2>5. memberships' \in Seq(MembershipRow) /\ VersionsGrow
    BY <2>2, <2>3, VersionsGrowByOne
  <2>6. DecisionsTyped'
    BY <2>4, <2>5 DEF DecisionsInv, DecisionsTyped
  <2>7. QED
    BY <2>4, <2>5, <2>6, NoDecisionKeepsInv
<1>4. QED
  BY <1>2, <1>3 DEF MembershipStep

LEMMA DecisionStepKeepsDecisions ==
  ASSUME DecisionsInv, DecisionStep
  PROVE  DecisionsInv'
<1>1. memberships \in Seq(MembershipRow)
  BY DEF DecisionsInv, DecisionsTyped
<1>2. ASSUME NEW m \in DOMAIN memberships, NEW version, NEW base \in BaseTypes,
             ApproveMembership(m, version, base)
      PROVE  DecisionsInv'
  <2> DEFINE row == Approved(memberships[m], base)
  <2>1. memberships[m] \in MembershipRow /\ "approved" \in Lives
    BY <1>1 DEF Lives
  <2>2. row \in MembershipRow /\ row.version = memberships[m].version + 1
    BY <2>1, DecidedHasType DEF Approved
  <2>3. Decides(m, version, "approved", row)
    BY <1>2 DEF ApproveMembership
  <2> HIDE DEF row
  <2>4. QED
    BY <2>2, <2>3, DecidesKeepsInv
<1>3. ASSUME NEW m \in DOMAIN memberships, NEW version, RejectMembership(m, version)
      PROVE  DecisionsInv'
  <2> DEFINE row == Rejected(memberships[m])
  <2>1. memberships[m] \in MembershipRow
    BY <1>1
  <2>2. row \in MembershipRow /\ row.version = memberships[m].version + 1
    BY <2>1, RejectedHasType
  <2>3. Decides(m, version, "rejected", row)
    BY <1>3 DEF RejectMembership
  <2> HIDE DEF row
  <2>4. QED
    BY <2>2, <2>3, DecidesKeepsInv
<1>4. ASSUME NEW call \in deciding, DecisionStops(call)
      PROVE  DecisionsInv'
  <2>1. /\ UNCHANGED <<memberships, approvals, creating, day>>
        /\ deciding' \subseteq deciding
    BY <1>4 DEF DecisionStops, rowVars
  <2>2. VersionsGrow
    BY <2>1, VersionsGrowWhenUnchanged
  <2>3. DecisionsTyped'
    BY <2>1 DEF DecisionsInv, DecisionsTyped
  <2>4. QED
    BY <2>1, <2>2, <2>3, NoDecisionKeepsInv
<1>5. QED
  BY <1>2, <1>3, <1>4, CreateMembershipApprovalKeepsInv DEF DecisionStep

LEMMA OtherStepsKeepDecisions ==
  ASSUME DecisionsInv, FccStep \/ HonoraryStep \/ NoteStep \/ Tick
  PROVE  DecisionsInv'
<1>1. creating \subseteq [person : Nat, base : BaseTypes] /\ day \in Nat
  BY DEF DecisionsInv, DecisionsTyped
<1> USE DEF rowVars, callVars
<1>2. CASE FccStep
  <2>1. UNCHANGED <<memberships, approvals, deciding, creating, day>>
    BY <1>2 DEF FccStep, VerifyFCC, RevokeFCCVerification
  <2>2. QED
    BY <1>1, <2>1, DecisionsStandHold DEF DecisionsStand
<1>3. CASE HonoraryStep
  <2>1. UNCHANGED <<memberships, approvals, deciding, creating, day>>
    BY <1>3 DEF HonoraryStep, CreateHonoraryGrant, UpdateHonoraryReads,
         UpdateHonoraryWrites, UpdateHonoraryStops, ExpireHonoraryGrant,
         RevokeHonoraryGrant, EndHonor
  <2>2. QED
    BY <1>1, <2>1, DecisionsStandHold DEF DecisionsStand
<1>4. CASE NoteStep
  <2>1. UNCHANGED <<memberships, approvals, deciding, creating, day>>
    BY <1>4 DEF NoteStep, CreateNote, UpdateNoteReads, CreateNoteRevision,
         UpdateNoteWrites, UpdateNoteStops
  <2>2. QED
    BY <1>1, <2>1, DecisionsStandHold DEF DecisionsStand
<1>5. CASE Tick
  <2>1. DecisionsStand
    BY <1>1, <1>5 DEF Tick, DecisionsStand
  <2>2. QED
    BY <2>1, DecisionsStandHold
<1>6. QED
  BY <1>2, <1>3, <1>4, <1>5

LEMMA DecisionsInvStep ==
  ASSUME DecisionsInv, NotesInv, [Next]_vars
  PROVE  DecisionsInv'
<1>1. CASE UNCHANGED vars
  <2>1. DecisionsStand
    BY <1>1 DEF vars, rowVars, callVars, DecisionsStand, DecisionsInv, DecisionsTyped
  <2>2. QED
    BY <2>1, DecisionsStandHold
<1>2. QED
  BY <1>1, PersonStepKeepsDecisions, MembershipStepKeepsDecisions,
     DecisionStepKeepsDecisions, OtherStepsKeepDecisions DEF Next

\* Two officers who decide on what one page showed: one of them is refused,
\* so no two records of a decision are about one version of a membership.
THEOREM OneOfTwoOfficersIsRefused == Spec => []TwoOfficersOneDecision
<1>1. Init => NotesInv /\ DecisionsInv
  BY NotesInvInit, DecisionsInvInit
<1>2. NotesInv /\ DecisionsInv /\ [Next]_vars => (NotesInv /\ DecisionsInv)'
  BY NotesInvStep, DecisionsInvStep
<1>3. DecisionsInv => TwoOfficersOneDecision
  BY DEF DecisionsInv
<1>4. QED
  BY <1>1, <1>2, <1>3, PTL DEF Spec


-----------------------------------------------------------------------------
(* Honorary grants.  The inductive invariant: an edit whose version is     *)
(* still the grant's has read the end the grant has, so an edit that names *)
(* no end writes back the one that holds.                                  *)

EndDays == Nat \cup {DayLimit}
HonorRow == [membership : Nat, until : EndDays, asked : EndDays, lifetime : BOOLEAN,
             revoked : BOOLEAN, version : Nat]
Merges == [grant : Nat, version : Nat, named : EndDays, until : EndDays]

HonorsTyped ==
  /\ honors \in Seq(HonorRow) /\ merging \subseteq Merges /\ day \in Nat
  /\ DOMAIN memberships \subseteq Nat

EndHolds(h) == h.until = h.asked /\ (h.lifetime => h.until = Never)

MergeKnowsEnd(call) ==
  /\ call.grant \in DOMAIN honors /\ call.version <= honors[call.grant].version
  /\ call.version = honors[call.grant].version =>
       call.until = IF call.named = Never THEN honors[call.grant].until ELSE call.named

HonorsInv ==
  /\ HonorsTyped /\ LastAskedEndHolds
  /\ \A call \in merging : MergeKnowsEnd(call)

LEMMA HonorsInvInit ==
  ASSUME Init
  PROVE  HonorsInv
<1>1. /\ honors \in Seq(HonorRow) /\ DOMAIN honors = {} /\ merging = {} /\ day \in Nat
      /\ DOMAIN memberships = {}
  BY DEF Init
<1>2. QED
  BY <1>1 DEF HonorsInv, HonorsTyped, LastAskedEndHolds

\* A grant rewritten to a row that holds, at the next version: the edits of
\* it that are open are now stale.
LEMMA HonorRewrittenKeepsInv ==
  ASSUME HonorsInv, NEW g \in DOMAIN honors, NEW row \in HonorRow,
         row.version = honors[g].version + 1, EndHolds(row),
         honors' = [honors EXCEPT ![g] = row],
         merging' \subseteq merging, UNCHANGED <<day, memberships>>
  PROVE  HonorsInv'
<1>1. /\ honors \in Seq(HonorRow) /\ merging \subseteq Merges /\ day \in Nat
      /\ DOMAIN memberships \subseteq Nat
  BY DEF HonorsInv, HonorsTyped
<1>2. honors' \in Seq(HonorRow)
  BY <1>1, ExceptSeq
<1>3. /\ DOMAIN honors' = DOMAIN honors /\ honors'[g] = row
      /\ \A k \in DOMAIN honors \ {g} : honors'[k] = honors[k]
  OBVIOUS
<1>4. HonorsTyped'
  BY <1>1, <1>2 DEF HonorsTyped
<1>5. LastAskedEndHolds'
  BY <1>3 DEF HonorsInv, LastAskedEndHolds, EndHolds
<1>6. ASSUME NEW call \in merging'
      PROVE  MergeKnowsEnd(call)'
  <2>1. call \in Merges /\ MergeKnowsEnd(call)
    BY <1>1 DEF HonorsInv
  <2>2. CASE call.grant = g
    <3>1. honors[g] \in HonorRow
      BY <1>1
    <3>2. call.version \in Nat /\ honors[g].version \in Nat
      BY <2>1, <3>1 DEF Merges, HonorRow
    <3>3. call.version <= honors[g].version
      BY <2>1, <2>2 DEF MergeKnowsEnd
    <3>4. call.version <= row.version /\ call.version # row.version
      BY <3>2, <3>3
    <3>5. QED
      BY <1>3, <2>2, <3>4 DEF MergeKnowsEnd
  <2>3. CASE call.grant # g
    BY <1>3, <2>1, <2>3 DEF MergeKnowsEnd
  <2>4. QED
    BY <2>2, <2>3
<1>7. QED
  BY <1>4, <1>5, <1>6 DEF HonorsInv

LEMMA CreateHonoraryGrantKeepsInv ==
  ASSUME HonorsInv, NEW m \in DOMAIN memberships, NEW until \in EndDays,
         CreateHonoraryGrant(m, until)
  PROVE  HonorsInv'
<1> DEFINE row == Honor(m, until)
<1>1. /\ honors \in Seq(HonorRow) /\ merging \subseteq Merges /\ day \in Nat
      /\ DOMAIN memberships \subseteq Nat
  BY DEF HonorsInv, HonorsTyped
<1>2. row \in HonorRow /\ EndHolds(row)
  BY <1>1 DEF Honor, HonorRow, EndHolds
<1>3. honors' = Append(honors, row) /\ UNCHANGED <<merging, day, memberships>>
  BY DEF CreateHonoraryGrant, callVars
<1> HIDE DEF row
<1>4. /\ honors' \in Seq(HonorRow)
      /\ DOMAIN honors' = DOMAIN honors \cup {Len(honors) + 1}
      /\ \A i \in DOMAIN honors : honors'[i] = honors[i]
      /\ honors'[Len(honors) + 1] = row
  <2>1. /\ honors' \in Seq(HonorRow) /\ Len(honors') = Len(honors) + 1
        /\ \A i \in 1 .. Len(honors) : honors'[i] = honors[i]
        /\ honors'[Len(honors) + 1] = row
    BY <1>1, <1>2, <1>3, AppendProperties
  <2>2. /\ DOMAIN honors = 1 .. Len(honors) /\ Len(honors) \in Nat
        /\ DOMAIN honors' = 1 .. Len(honors) + 1
    BY <1>1, <2>1, LenProperties
  <2>3. QED
    BY <2>1, <2>2
<1>5. HonorsTyped'
  BY <1>1, <1>3, <1>4 DEF HonorsTyped
<1>6. LastAskedEndHolds'
  BY <1>2, <1>4 DEF HonorsInv, LastAskedEndHolds, EndHolds
<1>7. \A call \in merging' : MergeKnowsEnd(call)'
  BY <1>3, <1>4 DEF HonorsInv, MergeKnowsEnd
<1>8. QED
  BY <1>5, <1>6, <1>7 DEF HonorsInv

LEMMA UpdateHonoraryReadsKeepsInv ==
  ASSUME HonorsInv, NEW g \in DOMAIN honors, NEW version \in Seen(honors[g]),
         NEW until \in EndDays, UpdateHonoraryReads(g, version, until)
  PROVE  HonorsInv'
<1> DEFINE read == IF until = Never THEN honors[g].until ELSE until
           call == [grant |-> g, version |-> version, named |-> until, until |-> read]
<1>1. /\ honors \in Seq(HonorRow) /\ merging \subseteq Merges /\ day \in Nat
      /\ DOMAIN memberships \subseteq Nat
  BY DEF HonorsInv, HonorsTyped
<1>2. honors[g] \in HonorRow /\ g \in Nat
  BY <1>1
<1>3. honors[g].until \in EndDays /\ honors[g].version \in Nat
  BY <1>2 DEF HonorRow
<1>4. version \in Nat /\ version <= honors[g].version
  BY <1>3 DEF Seen
<1>5. read \in EndDays
  BY <1>3
<1>6. merging' = merging \cup {call} /\ UNCHANGED <<honors, day, memberships>>
  BY DEF UpdateHonoraryReads, rowVars
<1>7. MergeKnowsEnd(call)
  BY <1>4 DEF MergeKnowsEnd
<1> HIDE DEF read
<1>8. call \in Merges
  BY <1>2, <1>4, <1>5 DEF Merges
<1> HIDE DEF call
<1>9. HonorsTyped' /\ LastAskedEndHolds'
  BY <1>1, <1>6, <1>8 DEF HonorsInv, HonorsTyped, LastAskedEndHolds
<1>10. \A c \in merging' : MergeKnowsEnd(c)'
  BY <1>6, <1>7 DEF HonorsInv, MergeKnowsEnd
<1>11. QED
  BY <1>9, <1>10 DEF HonorsInv


\* What each call writes into a grant holds, at the next version.
Holds(h, row) == row \in HonorRow /\ row.version = h.version + 1 /\ EndHolds(row)

\* A flag set in a grant.
LEMMA LifetimeSet ==
  ASSUME NEW h \in HonorRow, NEW on \in BOOLEAN
  PROVE  [h EXCEPT !.lifetime = on] =
           [membership |-> h.membership, until |-> h.until, asked |-> h.asked,
            lifetime |-> on, revoked |-> h.revoked, version |-> h.version]
BY DEF HonorRow

LEMMA RevokedSet ==
  ASSUME NEW h \in HonorRow, NEW on \in BOOLEAN
  PROVE  [h EXCEPT !.revoked = on] =
           [membership |-> h.membership, until |-> h.until, asked |-> h.asked,
            lifetime |-> h.lifetime, revoked |-> on, version |-> h.version]
BY DEF HonorRow

LEMMA RewrittenHolds ==
  ASSUME NEW h \in HonorRow, EndHolds(h), NEW until \in EndDays, NEW asked \in EndDays,
         until = asked
  PROVE  Holds(h, Rewritten(h, until, asked))
<1> DEFINE on == until = Never /\ h.lifetime
           f == [h EXCEPT !.until = until]
           g == [f EXCEPT !.asked = asked]
           k == [g EXCEPT !.lifetime = on]
<1>1. h.membership \in Nat /\ h.revoked \in BOOLEAN /\ h.version + 1 \in Nat
  BY DEF HonorRow
<1>2. f = [membership |-> h.membership, until |-> until, asked |-> h.asked,
           lifetime |-> h.lifetime, revoked |-> h.revoked, version |-> h.version]
  BY DEF HonorRow
<1>3. Rewritten(h, until, asked) = [k EXCEPT !.version = h.version + 1]
  BY <1>2 DEF Rewritten
<1>4. on \in BOOLEAN /\ (on => until = Never)
  OBVIOUS
<1> HIDE DEF f, on
<1>5. g = [membership |-> h.membership, until |-> until, asked |-> asked,
           lifetime |-> h.lifetime, revoked |-> h.revoked, version |-> h.version]
  BY <1>2
<1> HIDE DEF g
<1>6. k = [membership |-> h.membership, until |-> until, asked |-> asked,
           lifetime |-> on, revoked |-> h.revoked, version |-> h.version]
  BY <1>4, <1>5
<1> HIDE DEF k
<1>7. Rewritten(h, until, asked) =
        [membership |-> h.membership, until |-> until, asked |-> asked,
         lifetime |-> on, revoked |-> h.revoked, version |-> h.version + 1]
  BY <1>3, <1>6
<1>8. QED
  BY <1>1, <1>4, <1>7 DEF Holds, HonorRow, EndHolds

LEMMA ExpiredHolds ==
  ASSUME NEW h \in HonorRow, day \in Nat
  PROVE  Holds(h, Expired(h))
<1> DEFINE f == [h EXCEPT !.until = day]
           g == [f EXCEPT !.asked = day]
           k == [g EXCEPT !.lifetime = FALSE]
<1>1. h.membership \in Nat /\ h.revoked \in BOOLEAN /\ h.version + 1 \in Nat /\ day \in EndDays
  BY DEF HonorRow, EndDays
<1>2. f = [membership |-> h.membership, until |-> day, asked |-> h.asked,
           lifetime |-> h.lifetime, revoked |-> h.revoked, version |-> h.version]
  BY DEF HonorRow
<1>3. Expired(h) = [k EXCEPT !.version = h.version + 1]
  BY <1>2 DEF Expired
<1> HIDE DEF f
<1>4. g = [membership |-> h.membership, until |-> day, asked |-> day,
           lifetime |-> h.lifetime, revoked |-> h.revoked, version |-> h.version]
  BY <1>2
<1> HIDE DEF g
<1>5. g \in HonorRow
  BY <1>1, <1>4 DEF HonorRow
<1>6. FALSE \in BOOLEAN
  OBVIOUS
<1>7. k = [membership |-> g.membership, until |-> g.until, asked |-> g.asked,
           lifetime |-> FALSE, revoked |-> g.revoked, version |-> g.version]
  BY <1>5, <1>6, LifetimeSet
<1>8. k = [membership |-> h.membership, until |-> day, asked |-> day, lifetime |-> FALSE,
           revoked |-> h.revoked, version |-> h.version]
  BY <1>4, <1>7
<1> HIDE DEF k
<1>9. Expired(h) =
        [membership |-> h.membership, until |-> day, asked |-> day, lifetime |-> FALSE,
         revoked |-> h.revoked, version |-> h.version + 1]
  BY <1>3, <1>8
<1>10. QED
  BY <1>1, <1>9 DEF Holds, HonorRow, EndHolds

LEMMA RevokedHolds ==
  ASSUME NEW h \in HonorRow, EndHolds(h)
  PROVE  Holds(h, Revoked(h))
<1> DEFINE f == [h EXCEPT !.revoked = TRUE]
<1>1. /\ h.membership \in Nat /\ h.until \in EndDays /\ h.asked \in EndDays
      /\ h.lifetime \in BOOLEAN /\ h.version + 1 \in Nat
  BY DEF HonorRow
<1>2. f = [membership |-> h.membership, until |-> h.until, asked |-> h.asked,
           lifetime |-> h.lifetime, revoked |-> TRUE, version |-> h.version]
  <2>1. TRUE \in BOOLEAN
    OBVIOUS
  <2>2. QED
    BY <2>1, RevokedSet
<1>3. Revoked(h) = [f EXCEPT !.version = h.version + 1]
  BY <1>2 DEF Revoked
<1> HIDE DEF f
<1>4. Revoked(h) =
        [membership |-> h.membership, until |-> h.until, asked |-> h.asked,
         lifetime |-> h.lifetime, revoked |-> TRUE, version |-> h.version + 1]
  BY <1>2, <1>3
<1>5. QED
  BY <1>1, <1>4 DEF Holds, HonorRow, EndHolds

LEMMA UpdateHonoraryWritesKeepsInv ==
  ASSUME HonorsInv, NEW call \in merging, UpdateHonoraryWrites(call)
  PROVE  HonorsInv'
<1> DEFINE g == call.grant
           h == honors[g]
           asked == IF call.named = Never THEN h.asked ELSE call.named
           row == Rewritten(h, call.until, asked)
<1>1. call \in Merges /\ MergeKnowsEnd(call) /\ honors \in Seq(HonorRow)
  BY DEF HonorsInv, HonorsTyped
<1>2. g \in DOMAIN honors /\ call.version = h.version
  BY <1>1 DEF MergeKnowsEnd, UpdateHonoraryWrites, IsCurrent
<1>3. h \in HonorRow /\ EndHolds(h)
  BY <1>1, <1>2 DEF HonorsInv, LastAskedEndHolds, EndHolds
<1>4. call.until = asked
  BY <1>1, <1>2, <1>3 DEF MergeKnowsEnd, EndHolds
<1>5. call.until \in EndDays /\ asked \in EndDays
  BY <1>1, <1>4 DEF Merges
<1>6. honors' = [honors EXCEPT ![g] = row] /\ merging' \subseteq merging
      /\ UNCHANGED <<day, memberships>>
  BY DEF UpdateHonoraryWrites
<1> HIDE DEF h, asked
<1>7. Holds(h, row)
  BY <1>3, <1>4, <1>5, RewrittenHolds
<1> HIDE DEF row, g
<1>8. row \in HonorRow /\ row.version = honors[g].version + 1 /\ EndHolds(row)
  BY <1>7 DEF Holds, h, g
<1>9. QED
  BY <1>2, <1>6, <1>8, HonorRewrittenKeepsInv

LEMMA EndHonorKeepsInv ==
  ASSUME HonorsInv, NEW g \in DOMAIN honors, NEW version, NEW row,
         EndHonor(g, version, row), Holds(honors[g], row)
  PROVE  HonorsInv'
<1>1. honors' = [honors EXCEPT ![g] = row] /\ UNCHANGED <<merging, day, memberships>>
  BY DEF EndHonor, callVars
<1>2. row \in HonorRow /\ row.version = honors[g].version + 1 /\ EndHolds(row)
  BY DEF Holds
<1>3. QED
  BY <1>1, <1>2, HonorRewrittenKeepsInv


LEMMA HonoraryStepKeepsHonors ==
  ASSUME HonorsInv, HonoraryStep
  PROVE  HonorsInv'
<1>1. /\ honors \in Seq(HonorRow) /\ day \in Nat
      /\ \A until \in {Never, DayLimit} : until \in EndDays
  BY DEF HonorsInv, HonorsTyped, EndDays, Never
<1>2. ASSUME NEW m \in DOMAIN memberships, NEW until \in {Never, DayLimit},
             CreateHonoraryGrant(m, until)
      PROVE  HonorsInv'
  BY <1>1, <1>2, CreateHonoraryGrantKeepsInv
<1>3. ASSUME NEW g \in DOMAIN honors, NEW version \in Seen(honors[g]),
             NEW until \in {Never, DayLimit}, UpdateHonoraryReads(g, version, until)
      PROVE  HonorsInv'
  BY <1>1, <1>3, UpdateHonoraryReadsKeepsInv
<1>4. ASSUME NEW g \in DOMAIN honors
      PROVE  honors[g] \in HonorRow /\ EndHolds(honors[g])
  BY <1>1 DEF HonorsInv, LastAskedEndHolds, EndHolds
<1>5. ASSUME NEW g \in DOMAIN honors, NEW version,
             ExpireHonoraryGrant(g, version) \/ RevokeHonoraryGrant(g, version)
      PROVE  HonorsInv'
  <2>1. Holds(honors[g], Expired(honors[g])) /\ Holds(honors[g], Revoked(honors[g]))
    BY <1>1, <1>4, ExpiredHolds, RevokedHolds
  <2>2. QED
    BY <1>5, <2>1, EndHonorKeepsInv DEF ExpireHonoraryGrant, RevokeHonoraryGrant
<1>6. ASSUME NEW call \in merging, UpdateHonoraryStops(call)
      PROVE  HonorsInv'
  <2>1. merging' \subseteq merging /\ UNCHANGED <<honors, day, memberships>>
    BY <1>6 DEF UpdateHonoraryStops, rowVars
  <2>2. QED
    BY <2>1 DEF HonorsInv, HonorsTyped, LastAskedEndHolds, MergeKnowsEnd
<1>7. QED
  BY <1>2, <1>3, <1>5, <1>6, UpdateHonoraryWritesKeepsInv DEF HonoraryStep

LEMMA HonorsInvStep ==
  ASSUME HonorsInv, DecisionsInv', [Next]_vars
  PROVE  HonorsInv'
<1>1. DOMAIN memberships' \subseteq Nat /\ day' \in Nat
  BY DEF DecisionsInv, DecisionsTyped
<1>2. ASSUME UNCHANGED <<honors, merging>>
      PROVE  HonorsInv'
  BY <1>1, <1>2 DEF HonorsInv, HonorsTyped, LastAskedEndHolds, MergeKnowsEnd
<1> USE DEF rowVars, callVars
<1>3. CASE PersonStep
  <2>1. UNCHANGED <<honors, merging>>
    BY <1>3 DEF PersonStep, CreatePerson, CreatePersonOnly, CreatePersonApplies,
         CreatePersonStops, PersonChanges
  <2>2. QED
    BY <1>2, <2>1
<1>4. CASE MembershipStep
  <2>1. UNCHANGED <<honors, merging>>
    BY <1>4 DEF MembershipStep, MembershipApply, TransitionLifecycle
  <2>2. QED
    BY <1>2, <2>1
<1>5. CASE DecisionStep
  <2>1. UNCHANGED <<honors, merging>>
    BY <1>5 DEF DecisionStep, ApproveMembership, RejectMembership, Decides,
         CreateMembershipApproval, DecisionStops
  <2>2. QED
    BY <1>2, <2>1
<1>6. CASE FccStep
  <2>1. UNCHANGED <<honors, merging>>
    BY <1>6 DEF FccStep, VerifyFCC, RevokeFCCVerification
  <2>2. QED
    BY <1>2, <2>1
<1>7. CASE NoteStep
  <2>1. UNCHANGED <<honors, merging>>
    BY <1>7 DEF NoteStep, CreateNote, UpdateNoteReads, CreateNoteRevision,
         UpdateNoteWrites, UpdateNoteStops
  <2>2. QED
    BY <1>2, <2>1
<1>8. CASE Tick \/ UNCHANGED vars
  BY <1>2, <1>8 DEF Tick, vars
<1>9. QED
  BY <1>3, <1>4, <1>5, <1>6, <1>7, <1>8, HonoraryStepKeepsHonors DEF Next

\* An edit that names no end leaves the end alone: whatever interleaves, a
\* grant ends on the day somebody last asked for.
THEOREM LastAskedEndAlwaysHolds == Spec => []LastAskedEndHolds
<1>1. Init => NotesInv /\ DecisionsInv /\ HonorsInv
  BY NotesInvInit, DecisionsInvInit, HonorsInvInit
<1>2. NotesInv /\ DecisionsInv /\ [Next]_vars => (NotesInv /\ DecisionsInv)'
  BY NotesInvStep, DecisionsInvStep
<1>3. HonorsInv /\ DecisionsInv' /\ [Next]_vars => HonorsInv'
  BY HonorsInvStep
<1>4. HonorsInv => LastAskedEndHolds
  BY DEF HonorsInv
<1>5. QED
  BY <1>1, <1>2, <1>3, <1>4, PTL DEF Spec

-----------------------------------------------------------------------------
(* The timeline.  Each list is cut to its newest before the lists are      *)
(* merged and the merged one is cut again; nothing is left out by the two  *)
(* cuts that the whole would not have left out too.                        *)

Newer(S, e) == {f \in S : f.at > e.at}
AsNew(S, e) == {f \in S : f.at >= e.at}
AreTimed(S) == IsFiniteSet(S) /\ \A e \in S : e.at \in Nat

LEMMA NewerIsFinite ==
  ASSUME NEW S, AreTimed(S), NEW e
  PROVE  IsFiniteSet(Newer(S, e)) /\ Cardinality(Newer(S, e)) \in Nat
<1>1. Newer(S, e) \subseteq S
  BY DEF Newer
<1>2. QED
  BY <1>1, FS_Subset, FS_CardinalityType DEF AreTimed

\* Of a set that no newer event escapes, a cut keeps as many as it may.
LEMMA NewestKeepsUpperSet ==
  ASSUME NEW S, AreTimed(S), NEW n \in Nat, NEW X \in SUBSET S,
         \A e \in X : Newer(S, e) \subseteq X, Cardinality(X) >= n
  PROVE  Cardinality(X \cap Newest(S, n)) >= n
<1>1. CASE X \subseteq Newest(S, n)
  <2>1. X \cap Newest(S, n) = X
    BY <1>1
  <2>2. QED
    BY <2>1
<1>2. CASE ~ (X \subseteq Newest(S, n))
  <2> DEFINE left == X \ Newest(S, n)
             T == {Cardinality(Newer(S, e)) : e \in left}
  <2>1. T \in SUBSET Nat /\ T # {}
    BY <1>2, NewerIsFinite
  <2>2. PICK t \in T : \A u \in T : t <= u
    BY <2>1, LeastNumber
  <2>3. PICK x \in left : t = Cardinality(Newer(S, x))
    OBVIOUS
  <2>4. \A y \in left : Cardinality(Newer(S, x)) <= Cardinality(Newer(S, y))
    BY <2>2, <2>3
  <2>5. ~ (Cardinality(Newer(S, x)) < n)
    BY <2>3 DEF Newest, Newer
  <2>6. Newer(S, x) \subseteq Newest(S, n)
    <3>1. SUFFICES ASSUME NEW y \in Newer(S, x), y \notin Newest(S, n)
                   PROVE  FALSE
      OBVIOUS
    <3>2. y \in left /\ y \in S /\ x \in S
      BY <2>3, <3>1 DEF Newer
    <3>3. x.at \in Nat /\ y.at \in Nat /\ y.at > x.at /\ \A f \in S : f.at \in Nat
      BY <3>1, <3>2 DEF AreTimed, Newer
    <3>4. Newer(S, y) \subseteq Newer(S, x) /\ y \in Newer(S, x) /\ y \notin Newer(S, y)
      BY <3>1, <3>2, <3>3 DEF Newer
    <3>5. Cardinality(Newer(S, y)) < Cardinality(Newer(S, x))
      <4>1. IsFiniteSet(Newer(S, x)) /\ Cardinality(Newer(S, x)) \in Nat
        BY NewerIsFinite
      <4>2. Cardinality(Newer(S, y)) \in Nat
        BY NewerIsFinite
      <4>3. /\ Cardinality(Newer(S, y)) <= Cardinality(Newer(S, x))
            /\ Cardinality(Newer(S, x)) = Cardinality(Newer(S, y)) =>
                 Newer(S, x) = Newer(S, y)
        BY <3>4, <4>1, FS_Subset
      <4>4. QED
        BY <3>4, <4>1, <4>2, <4>3
    <3>6. Cardinality(Newer(S, y)) \in Nat /\ Cardinality(Newer(S, x)) \in Nat
      BY NewerIsFinite
    <3>7. QED
      BY <2>4, <3>2, <3>5, <3>6
  <2>7. Newer(S, x) \subseteq X \cap Newest(S, n)
    BY <2>3, <2>6
  <2>8. IsFiniteSet(X \cap Newest(S, n))
    BY FS_Subset DEF AreTimed
  <2>9. /\ Cardinality(Newer(S, x)) <= Cardinality(X \cap Newest(S, n))
        /\ Cardinality(X \cap Newest(S, n)) \in Nat /\ Cardinality(Newer(S, x)) \in Nat
    BY <2>7, <2>8, FS_Subset, FS_CardinalityType, NewerIsFinite
  <2>10. QED
    BY <2>5, <2>9
<1>3. QED
  BY <1>1, <1>2

\* What a cut leaves out is older than n of the events it keeps.
LEMMA NewestLeavesOlder ==
  ASSUME NEW S, AreTimed(S), NEW n \in Nat, NEW e \in S, e \notin Newest(S, n)
  PROVE  Cardinality(Newer(Newest(S, n), e)) >= n
<1>1. Newer(S, e) \in SUBSET S /\ Cardinality(Newer(S, e)) \in Nat
  BY NewerIsFinite DEF Newer
<1>2. Cardinality(Newer(S, e)) >= n
  BY <1>1 DEF Newest, Newer
<1>3. \A f \in Newer(S, e) : Newer(S, f) \subseteq Newer(S, e)
  BY DEF Newer, AreTimed
<1>4. Cardinality(Newer(S, e) \cap Newest(S, n)) >= n
  BY <1>1, <1>2, <1>3, NewestKeepsUpperSet
<1>5. Newer(S, e) \cap Newest(S, n) = Newer(Newest(S, n), e)
  BY DEF Newer, Newest
<1>6. QED
  BY <1>4, <1>5

LEMMA CutsAgree ==
  ASSUME NEW A, NEW B, NEW C, AreTimed(A), AreTimed(B), AreTimed(C), NEW n \in Nat,
         NEW merged, merged = Newest(A, n) \cup Newest(B, n) \cup C,
         NEW shown, shown = Newest(merged, n),
         NEW e \in (A \cup B \cup C) \ shown
  PROVE  Cardinality(AsNew(shown, e)) >= n
<1>1. Newest(A, n) \subseteq A /\ Newest(B, n) \subseteq B /\ shown \subseteq merged
  BY DEF Newest
<1>2. IsFiniteSet(merged)
  <2>1. IsFiniteSet(Newest(A, n)) /\ IsFiniteSet(Newest(B, n)) /\ IsFiniteSet(C)
    BY <1>1, FS_Subset DEF AreTimed
  <2>2. QED
    BY <2>1, FS_Union
<1>3. AreTimed(merged) /\ e.at \in Nat
  BY <1>1, <1>2 DEF AreTimed
<1>4. Cardinality(Newer(shown, e)) >= n
  <2>1. CASE e \in merged
    BY <1>3, <2>1, NewestLeavesOlder
  <2>2. ASSUME NEW S, AreTimed(S), Newest(S, n) \subseteq merged, e \in S,
               e \notin Newest(S, n)
        PROVE  Cardinality(Newer(shown, e)) >= n
    <3>1. Cardinality(Newer(Newest(S, n), e)) >= n
      BY <2>2, NewestLeavesOlder
    <3>2. Newer(Newest(S, n), e) \subseteq Newer(merged, e)
      BY <2>2 DEF Newer
    <3>3. IsFiniteSet(Newer(merged, e)) /\ Cardinality(Newer(merged, e)) \in Nat
      BY <1>3, NewerIsFinite
    <3>4. IsFiniteSet(Newer(Newest(S, n), e)) /\ Cardinality(Newer(Newest(S, n), e)) \in Nat
      BY <3>2, <3>3, FS_Subset, FS_CardinalityType
    <3>5. Cardinality(Newer(merged, e)) >= n
      <4>1. Cardinality(Newer(Newest(S, n), e)) <= Cardinality(Newer(merged, e))
        BY <3>2, <3>3, FS_Subset
      <4>2. QED
        BY <3>1, <3>3, <3>4, <4>1
    <3>6. Newer(merged, e) \in SUBSET merged
      BY DEF Newer
    <3>7. \A f \in Newer(merged, e) : Newer(merged, f) \subseteq Newer(merged, e)
      BY <1>3 DEF Newer, AreTimed
    <3>8. Cardinality(Newer(merged, e) \cap shown) >= n
      BY <1>3, <3>5, <3>6, <3>7, NewestKeepsUpperSet
    <3>9. Newer(merged, e) \cap shown = Newer(shown, e)
      BY <1>1 DEF Newer
    <3>10. QED
      BY <3>8, <3>9
  <2>3. QED
    BY <2>1, <2>2
<1>5. Newer(shown, e) \subseteq AsNew(shown, e)
  <2>1. SUFFICES ASSUME NEW f \in shown, f.at > e.at PROVE f.at >= e.at
    BY DEF Newer, AsNew
  <2>2. f.at \in Nat
    BY <1>1, <1>3 DEF AreTimed
  <2>3. QED
    BY <1>3, <2>1, <2>2
<1>6. IsFiniteSet(AsNew(shown, e))
  <2>1. AsNew(shown, e) \subseteq merged
    BY <1>1 DEF AsNew
  <2>2. QED
    BY <1>2, <2>1, FS_Subset
<1>7. /\ Cardinality(Newer(shown, e)) <= Cardinality(AsNew(shown, e))
      /\ Cardinality(AsNew(shown, e)) \in Nat
      /\ Cardinality(Newer(shown, e)) \in Nat
  BY <1>3, <1>5, <1>6, FS_Subset, FS_CardinalityType
<1>8. QED
  BY <1>4, <1>7

\* The three lists of a member are finite and have their times.
EventsAt(kind, ids, times) == {Event(kind, i, times[i]) : i \in ids}

LEMMA ListIsTimed ==
  ASSUME NEW ids, IsFiniteSet(ids), NEW kind, NEW times \in [ids -> Nat]
  PROVE  AreTimed(EventsAt(kind, ids, times))
<1> DEFINE event == [i \in ids |-> Event(kind, i, times[i])]
           S == EventsAt(kind, ids, times)
<1>1. event \in Surjection(ids, S)
  BY DEF Surjection, EventsAt
<1>2. IsFiniteSet(S)
  BY <1>1, FS_Surjection
<1>3. \A e \in S : e.at \in Nat
  BY DEF Event, EventsAt
<1>4. QED
  BY <1>2, <1>3 DEF AreTimed

LEMMA RowsAreFinite ==
  ASSUME NEW S, NEW rows \in Seq(S), NEW ids \in SUBSET (DOMAIN rows)
  PROVE  IsFiniteSet(ids)
<1>1. Len(rows) \in Nat /\ DOMAIN rows = 1 .. Len(rows)
  BY LenProperties
<1>2. IsFiniteSet(DOMAIN rows)
  BY <1>1, FS_Interval
<1>3. QED
  BY <1>2, FS_Subset

LEMMA ListsAreTimed ==
  ASSUME NotesInv, DecisionsInv, NEW p \in Persons
  PROVE  /\ AreTimed(AuditEvents(p)) /\ AreTimed(ListNotes(p))
         /\ AreTimed(ListMembershipsByPerson(p))
<1>1. AreTimed(AuditEvents(p))
  <2>1. persons \in Seq(Seq(Nat)) /\ persons[p] \in Seq(Nat)
    BY DEF NotesInv, NotesTyped, Events, Persons
  <2>2. IsFiniteSet(DOMAIN persons[p]) /\ persons[p] \in [DOMAIN persons[p] -> Nat]
    BY <2>1, RowsAreFinite
  <2>3. AuditEvents(p) = EventsAt("audit", DOMAIN persons[p], persons[p])
    BY DEF AuditEvents, EventsAt
  <2>4. QED
    BY <2>2, <2>3, ListIsTimed
<1>2. AreTimed(ListNotes(p))
  <2> DEFINE ids == {k \in DOMAIN notes : notes[k].person = p}
             times == [n \in ids |-> notes[n].at]
  <2>1. notes \in Seq(NoteRow)
    BY DEF NotesInv, NotesTyped, Notes
  <2>2. IsFiniteSet(ids)
    BY <2>1, RowsAreFinite
  <2>3. times \in [ids -> Nat]
    <3>1. \A k \in DOMAIN notes : notes[k] \in NoteRow
      BY <2>1
    <3>2. \A row \in NoteRow : row.at \in Nat
      BY DEF NoteRow
    <3>3. QED
      BY <3>1, <3>2
  <2>4. ListNotes(p) = EventsAt("note", ids, times)
    BY DEF ListNotes, EventsAt
  <2> HIDE DEF ids, times
  <2>5. QED
    BY <2>2, <2>3, <2>4, ListIsTimed
<1>3. AreTimed(ListMembershipsByPerson(p))
  <2> DEFINE ids == {k \in DOMAIN memberships : memberships[k].person = p}
             times == [m \in ids |-> memberships[m].at]
  <2>1. memberships \in Seq(MembershipRow)
    BY DEF DecisionsInv, DecisionsTyped
  <2>2. IsFiniteSet(ids)
    BY <2>1, RowsAreFinite
  <2>3. times \in [ids -> Nat]
    <3>1. \A k \in DOMAIN memberships : memberships[k] \in MembershipRow
      BY <2>1
    <3>2. \A row \in MembershipRow : row.at \in Nat
      BY DEF MembershipRow
    <3>3. QED
      BY <3>1, <3>2
  <2>4. ListMembershipsByPerson(p) = EventsAt("membership", ids, times)
    BY DEF ListMembershipsByPerson, EventsAt
  <2> HIDE DEF ids, times
  <2>5. QED
    BY <2>2, <2>3, <2>4, ListIsTimed
<1>4. QED
  BY <1>1, <1>2, <1>3

\* The timeline of a member's page cuts two of its lists before it merges the
\* three, and the merged one after: of the events its queries found it leaves
\* one out only for as many others at least as new, whatever was written of the
\* member, however long the page and whichever of the queries failed.
THEOREM TimelinesAreNewest == Spec => []TimelineIsNewest
<1>1. NotesInv /\ DecisionsInv => TimelineIsNewest
  <2>1. SUFFICES ASSUME NotesInv, DecisionsInv, NEW p \in Persons,
                        NEW answered \in SUBSET Queries, NEW shown,
                        shown = Timeline(p, TimelineSize, answered),
                        NEW e \in (Answer("audit", answered, AuditEvents(p))
                                     \cup Answer("note", answered, ListNotes(p))
                                     \cup Answer("membership", answered,
                                                 ListMembershipsByPerson(p))) \ shown
                 PROVE  Cardinality(AsNew(shown, e)) >= TimelineSize
    BY DEF TimelineIsNewest, AsNew
  <2>2. TimelineSize \in Nat
    BY PagesHoldRows
  <2>3. PICK A, B, C : /\ A = Answer("audit", answered, AuditEvents(p))
                       /\ B = Answer("note", answered, ListNotes(p))
                       /\ C = Answer("membership", answered, ListMembershipsByPerson(p))
    OBVIOUS
  <2>4. AreTimed(A) /\ AreTimed(B) /\ AreTimed(C)
    <3>1. AreTimed({})
      BY FS_EmptySet DEF AreTimed
    <3>2. QED
      BY <2>1, <2>3, <3>1, ListsAreTimed DEF Answer
  <2>5. PICK merged :
          merged = Newest(A, TimelineSize) \cup Newest(B, TimelineSize) \cup C
    OBVIOUS
  <2>6. shown = Newest(merged, TimelineSize) /\ e \in (A \cup B \cup C) \ shown
    BY <2>1, <2>3, <2>5 DEF Timeline
  <2>7. QED
    BY <2>2, <2>4, <2>5, <2>6, CutsAgree
<1>2. Init => NotesInv /\ DecisionsInv
  BY NotesInvInit, DecisionsInvInit
<1>3. NotesInv /\ DecisionsInv /\ [Next]_vars => NotesInv' /\ DecisionsInv'
  BY NotesInvStep, DecisionsInvStep
<1>4. QED
  BY <1>1, <1>2, <1>3, PTL DEF Spec

-----------------------------------------------------------------------------
(* The queue.  Page after page it is the list of who is waiting: what a    *)
(* page and the pages after it hold is the list from the page's offset on. *)

LEMMA LeastOfTwo ==
  ASSUME NEW a \in Int, NEW b \in Int
  PROVE  Min({a, b}) = IF a < b THEN a ELSE b
<1>1. \A x \in {a, b} : (\A y \in {a, b} : x <= y) => x = IF a < b THEN a ELSE b
  OBVIOUS
<1>2. \E x \in {a, b} : \A y \in {a, b} : x <= y
  OBVIOUS
<1>3. QED
  BY <1>1, <1>2 DEF Min

LEMMA QueueIsSorted ==
  ASSUME DecisionsInv
  PROVE  /\ Ascending(Pending) \in Seq(Pending)
         /\ Len(Ascending(Pending)) = CountPendingMemberships
         /\ CountPendingMemberships \in Nat
         /\ ToSet(Ascending(Pending)) = Pending
         /\ \A i, j \in DOMAIN Ascending(Pending) :
              i < j => Ascending(Pending)[i] < Ascending(Pending)[j]
<1>1. memberships \in Seq(MembershipRow)
  BY DEF DecisionsInv, DecisionsTyped
<1>2. IsFiniteSet(Pending)
  BY <1>1, RowsAreFinite DEF Pending
<1>3. Pending \subseteq Nat
  BY <1>1 DEF Pending
<1>4. PICK s : s = Ascending(Pending)
  OBVIOUS
<1>5. /\ s \in Seq(Pending) /\ Len(s) = Cardinality(Pending)
      /\ \A x \in Pending : \E i \in DOMAIN s : s[i] = x
      /\ \A i, j \in DOMAIN s : i < j => s[i] < s[j]
  BY <1>2, <1>3, <1>4, AscendingIsSorted
<1>6. DOMAIN s = 1 .. Len(s) /\ \A i \in DOMAIN s : s[i] \in Nat /\ s[i] \in Pending
  <2>1. DOMAIN s = 1 .. Len(s)
    BY <1>5, LenProperties
  <2>2. \A i \in DOMAIN s : s[i] \in Pending
    BY <1>5, <2>1, ElementOfSeq
  <2>3. QED
    BY <1>3, <2>1, <2>2
<1>7. ToSet(s) = Pending
  BY <1>5, <1>6 DEF ToSet
<1>8. Cardinality(Pending) \in Nat
  BY <1>2, FS_CardinalityType
<1>9. QED
  BY <1>4, <1>5, <1>7, <1>8 DEF CountPendingMemberships

LEMMA PageOfTheQueue ==
  ASSUME DecisionsInv, NEW offset \in Nat, NEW N, N = CountPendingMemberships,
         NEW s, s = Ascending(Pending), NEW page, page = PendingPage(offset)
  PROVE  /\ page.more <=> offset + PageSize < N
         /\ page.next = offset + PageSize
         /\ page.rows = SubSeq(s, offset + 1,
                               IF offset + PageSize < N THEN offset + PageSize ELSE N)
<1>1. N \in Nat /\ s \in Seq(Pending) /\ Len(s) = N /\ PageSize \in Nat \ {0}
  BY QueueIsSorted, PagesHoldRows
<1>2. PICK b \in Nat : b = IF offset + PageSize + 1 < N THEN offset + PageSize + 1 ELSE N
  BY <1>1
<1>3. Min({offset + (PageSize + 1), N}) = b
  BY <1>1, <1>2, LeastOfTwo
<1>4. PICK rows : rows = SubSeq(s, offset + 1, b)
  OBVIOUS
<1>5. rows = ListPendingMemberships(PageSize + 1, offset)
  BY <1>3, <1>4 DEF ListPendingMemberships
<1>6. \A i \in offset + 1 .. b : s[i] \in Pending
  BY <1>1, <1>2
<1>7. /\ rows \in Seq(Pending)
      /\ Len(rows) = IF offset + 1 <= b THEN b - offset ELSE 0
      /\ \A i \in 1 .. b - offset : rows[i] = s[offset + i]
  BY <1>2, <1>4, <1>6, SubSeqProperties
<1>8. PICK k \in Nat : k = IF Len(rows) < PageSize THEN Len(rows) ELSE PageSize
  <2>1. Len(rows) \in Nat
    BY <1>7, LenProperties
  <2>2. QED
    BY <1>1, <2>1
<1>9. Min({Len(rows), PageSize}) = k
  BY <1>1, <1>2, <1>7, <1>8, LeastOfTwo
<1>10. /\ page.rows = SubSeq(rows, 1, k) /\ page.next = offset + PageSize
       /\ page.more = (Len(rows) > PageSize)
  BY <1>5, <1>9 DEF PendingPage
<1>11. PICK e \in Nat : e = IF offset + PageSize < N THEN offset + PageSize ELSE N
  BY <1>1
<1>12. SubSeq(rows, 1, k) = SubSeq(s, offset + 1, e)
  <2>1. k <= Len(rows) /\ k = IF offset + 1 <= e THEN e - offset ELSE 0
    BY <1>1, <1>2, <1>7, <1>8, <1>11
  <2>2. k <= b - offset \/ k = 0
    BY <1>1, <1>2, <1>7, <2>1
  <2>3. /\ SubSeq(rows, 1, k) \in Seq(Pending) /\ Len(SubSeq(rows, 1, k)) = k
        /\ \A i \in 1 .. k : SubSeq(rows, 1, k)[i] = rows[i]
    BY <1>7, <2>1, SubSeqProperties
  <2>4. \A i \in offset + 1 .. e : s[i] \in Pending
    BY <1>1, <1>11
  <2>5. /\ SubSeq(s, offset + 1, e) \in Seq(Pending) /\ Len(SubSeq(s, offset + 1, e)) = k
        /\ \A i \in 1 .. k : SubSeq(s, offset + 1, e)[i] = s[offset + i]
    BY <1>11, <2>1, <2>4, SubSeqProperties
  <2>6. \A i \in 1 .. k : rows[i] = s[offset + i]
    BY <1>2, <1>7, <2>2
  <2>7. PICK x, y : x = SubSeq(rows, 1, k) /\ y = SubSeq(s, offset + 1, e)
    OBVIOUS
  <2>8. x = y
    BY <2>3, <2>5, <2>6, <2>7, SeqEqual
  <2>9. QED
    BY <2>7, <2>8
<1>13. (Len(rows) > PageSize) <=> offset + PageSize < N
  BY <1>1, <1>2, <1>7
<1>14. QED
  BY <1>10, <1>11, <1>12, <1>13

\* An officer who opens the queue of applications and follows the link to the
\* next page (pendingMemberships asks for one row more than it shows) meets
\* every application that waits, once and the oldest first, for queues and pages
\* of any length.
THEOREM QueueIsWalked == Spec => []QueueIsWalkedWhole
<1>1. ASSUME DecisionsInv
      PROVE  QueueIsWalkedWhole
  <2>1. PICK N \in Nat : N = CountPendingMemberships
    BY <1>1, QueueIsSorted
  <2>2. PICK P \in Nat \ {0} : P = PageSize
    BY PagesHoldRows
  <2>3. PICK s : s = Ascending(Pending)
    OBVIOUS
  <2>4. /\ s \in Seq(Pending) /\ Len(s) = N /\ ToSet(s) = Pending
        /\ \A i, j \in DOMAIN s : i < j => s[i] < s[j]
    BY <1>1, <2>1, <2>3, QueueIsSorted
  <2> DEFINE Rest(o) == SubSeq(s, o + 1, N)
             Body(f) == [o \in 0 .. N + P |->
                           PendingPage(o).rows \o
                             (IF PendingPage(o).more THEN f[PendingPage(o).next] ELSE <<>>)]
             Walk == CHOOSE f : f = Body(f)
  <2>5. ASSUME NEW o \in 0 .. N + P, NEW page, page = PendingPage(o)
        PROVE  /\ page.more => page.next \in o + 1 .. N + P
               /\ Rest(o) = page.rows \o (IF page.more THEN Rest(page.next) ELSE <<>>)
    <3>1. /\ page.more <=> o + P < N
          /\ page.next = o + P
          /\ page.rows = SubSeq(s, o + 1, IF o + P < N THEN o + P ELSE N)
      <4>1. o \in Nat
        OBVIOUS
      <4>2. /\ page.more <=> o + PageSize < N
            /\ page.next = o + PageSize
            /\ page.rows = SubSeq(s, o + 1, IF o + PageSize < N THEN o + PageSize ELSE N)
        BY <1>1, <2>1, <2>3, <2>5, <4>1, PageOfTheQueue
      <4>3. QED
        BY <2>2, <4>2
    <3>2. CASE o + P < N
      <4>1. o + 1 \in 1 .. Len(s) + 1 /\ o + P \in o + 1 - 1 .. Len(s) /\ N \in o + P .. Len(s)
        BY <2>4, <3>2
      <4>2. SubSeq(s, o + 1, o + P) \o SubSeq(s, o + P + 1, N) = SubSeq(s, o + 1, N)
        BY <2>4, <4>1, ConcatAdjacentSubSeq
      <4>3. page.more /\ page.next = o + P /\ page.rows = SubSeq(s, o + 1, o + P)
        BY <3>1, <3>2
      <4>4. page.next \in o + 1 .. N + P
        BY <2>2, <3>2, <4>3
      <4>5. Rest(o) = page.rows \o Rest(page.next)
        BY <4>2, <4>3
      <4>6. QED
        BY <4>3, <4>4, <4>5
    <3>3. CASE ~ (o + P < N)
      <4>1. ~ page.more /\ page.rows = SubSeq(s, o + 1, N)
        BY <3>1, <3>3
      <4>2. \A i \in o + 1 .. N : s[i] \in Pending
        BY <2>4
      <4>3. SubSeq(s, o + 1, N) \in Seq(Pending)
        BY <4>2, SubSeqProperties
      <4>4. SubSeq(s, o + 1, N) \o <<>> = SubSeq(s, o + 1, N)
        BY <4>3, ConcatEmptySeq
      <4>5. QED
        BY <4>1, <4>4
    <3>4. QED
      BY <3>2, <3>3
  <2>6. \E f : f = Body(f)
    <3>1. PICK g : g = [o \in 0 .. N + P |-> Rest(o)]
      OBVIOUS
    <3>2. ASSUME NEW o \in 0 .. N + P
          PROVE  g[o] = PendingPage(o).rows \o
                          (IF PendingPage(o).more THEN g[PendingPage(o).next] ELSE <<>>)
      <4>1. PICK page : page = PendingPage(o)
        OBVIOUS
      <4>2. CASE page.more
        <5>1. page.next \in 0 .. N + P
          <6>1. page.next \in o + 1 .. N + P
            BY <2>5, <4>1, <4>2
          <6>2. QED
            BY <6>1
        <5>2. g[page.next] = Rest(page.next) /\ g[o] = Rest(o)
          BY <3>1, <5>1
        <5>3. QED
          BY <2>5, <4>1, <4>2, <5>2
      <4>3. CASE ~ page.more
        <5>1. g[o] = Rest(o)
          BY <3>1
        <5>2. QED
          BY <2>5, <4>1, <4>3, <5>1
      <4>4. QED
        BY <4>2, <4>3
    <3>3. g = Body(g)
      BY <3>1, <3>2
    <3>4. QED
      BY <3>3
  <2>7. Walk = Body(Walk)
    BY <2>6
  <2>8. PICK f : f = Walk
    OBVIOUS
  <2>9. \A o \in 0 .. N + P :
          f[o] = PendingPage(o).rows \o
                   (IF PendingPage(o).more THEN f[PendingPage(o).next] ELSE <<>>)
    BY <2>7, <2>8
  <2> DEFINE Wrong == {k \in 0 .. N + P : f[N + P - k] # Rest(N + P - k)}
  <2>10. Wrong = {}
    <3>1. SUFFICES ASSUME Wrong # {} PROVE FALSE
      OBVIOUS
    <3>2. Wrong \in SUBSET Nat
      OBVIOUS
    <3>3. PICK k \in Wrong : \A j \in Wrong : k <= j
      BY <3>1, <3>2, LeastNumber
    <3>4. PICK o \in 0 .. N + P : o = N + P - k
      BY <3>3
    <3>5. \A n \in o + 1 .. N + P : f[n] = Rest(n)
      <4>1. SUFFICES ASSUME NEW n \in o + 1 .. N + P PROVE f[n] = Rest(n)
        OBVIOUS
      <4>2. PICK j \in 0 .. N + P : j = N + P - n /\ j < k /\ N + P - j = n
        BY <3>3, <3>4
      <4>3. j \notin Wrong
        <5>1. SUFFICES ASSUME j \in Wrong PROVE FALSE
          OBVIOUS
        <5> HIDE DEF Wrong
        <5>2. j \in Nat /\ k \in Nat
          BY <3>2, <3>3, <5>1
        <5>3. k <= j
          BY <3>3, <5>1
        <5>4. QED
          BY <4>2, <5>2, <5>3
      <4>4. QED
        BY <4>2, <4>3
    <3>6. PICK page : page = PendingPage(o)
      OBVIOUS
    <3>7. f[o] = page.rows \o (IF page.more THEN f[page.next] ELSE <<>>)
      BY <2>9, <3>6
    <3>8. f[o] = Rest(o)
      BY <2>5, <3>5, <3>6, <3>7
    <3>9. QED
      BY <3>3, <3>4, <3>8
  <2>11. f[0] = Rest(0)
    <3>1. N + P \in 0 .. N + P /\ N + P - (N + P) = 0
      OBVIOUS
    <3>2. QED
      BY <2>10, <3>1
  <2>12. Rest(0) = s
    BY <2>4, SubSeqFull
  <2>13. /\ ToSet(Walk[0]) = Pending
         /\ \A i, j \in DOMAIN Walk[0] : i < j => Walk[0][i] < Walk[0][j]
    BY <2>4, <2>8, <2>11, <2>12
  <2>14. QED
    BY <2>1, <2>2, <2>13 DEF QueueIsWalkedWhole
<1>2. Init => NotesInv /\ DecisionsInv
  BY NotesInvInit, DecisionsInvInit
<1>3. NotesInv /\ DecisionsInv /\ [Next]_vars => NotesInv' /\ DecisionsInv'
  BY NotesInvStep, DecisionsInvStep
<1>4. QED
  BY <1>1, <1>2, <1>3, PTL DEF Spec

=============================================================================

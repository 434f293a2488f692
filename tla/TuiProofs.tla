----------------------------- MODULE TuiProofs ------------------------------
(***************************************************************************)
(* Proofs about the terminal UI, for any number of listings and mounts:    *)
(* nothing that it keeps gets out of its domain, and a program that was    *)
(* told to unmount ends as such only when what it asked to stop is gone.   *)
(* What it knows of the mounts is always out of date.  The second theorem  *)
(* rests on how far: a mount that a read of the registry found, or that it *)
(* missed, may since have gone, but cannot have come back.                 *)
(***************************************************************************)
EXTENDS Tui, TLAPS

(* The mounts that have been in the registry, and may be still.            *)
Known == {m \in Mount : mount[m] \in {"listed", "gone"}}

(* Whatever the program has read of the registry has been there.           *)
ReadInv ==
  /\ shown \subseteq Known
  /\ \A r \in Reader : \A ids \in flight[r] : ids \subseteq Known

(* Before anyone is asked to stop, a read on its way is later than the one *)
(* on screen; so it finds those of that one that are still there.          *)
LaterInv ==
  Runs /\ quitting = "no"
    => /\ asked = {} /\ flight["quit"] = {}
       /\ \A r \in Reader : \A ids \in flight[r] : shown \cap Records \subseteq ids

(* Afterwards, every read on its way finds those that were asked and are   *)
(* still there, whichever read was shown when they were asked.             *)
AskedInv ==
  /\ asked \subseteq started \cap Known
  /\ Runs /\ screen = "confirm" => quitting = "no"
  /\ Runs /\ quitting # "no"
       => \A r \in Reader : \A ids \in flight[r] : asked \cap Records \subseteq ids

TuiInv == TypeOK /\ ReadInv /\ LaterInv /\ AskedInv /\ QuitMeansGone

-----------------------------------------------------------------------------
(* The initial states satisfy the invariant.                               *)
LEMMA InitHolds == Init => TuiInv
<1> SUFFICES ASSUME Init PROVE TuiInv
  OBVIOUS
<1>1. TypeOK
  BY DEF Init, TypeOK, NewWizard, Steps, Stages, Reader, Listing, Mount, Nobody
<1>2. shown \subseteq Known /\ \A r \in Reader : flight[r] = {}
  BY DEF Init, Known
<1> QED
  BY <1>1, <1>2 DEF Init, TuiInv, ReadInv, LaterInv, AskedInv, QuitMeansGone, Runs, Reader, Records

(* Types.                                                                  *)
LEMMA TypeKept ==
  ASSUME TypeOK, [Next]_vars
  PROVE  TypeOK'
<1> USE DEF TypeOK, uiVars, guestVars, mountVars, NewWizard, Steps, Reader, Nobody,
           Runs, In, To, LeaveWizard, QuitAs
<1>1. CASE Keys
  <2>1. CASE New \/ BackOut \/ Abort
    BY <2>1 DEF New, BackOut, Abort, StopListing
  <2>2. CASE Boot
    BY <2>2 DEF Boot, Stages
  <2>3. CASE CancelPrompt \/ AnswerPrompt
    BY <2>3 DEF CancelPrompt, AnswerPrompt, StopListing
  <2>4. CASE Launch
    BY <2>4 DEF Launch
  <2>5. CASE RequestQuit \/ StayOn \/ QuitLeaving
    BY <2>5 DEF RequestQuit, StayOn, QuitLeaving
  <2>6. CASE QuitUnmounting \/ QuitUnmountingFails
    BY <2>6 DEF QuitUnmounting, QuitUnmountingFails, StartedHere
  <2> QED
    BY <1>1, <2>1, <2>2, <2>3, <2>4, <2>5, <2>6 DEF Keys
<1>2. CASE Signal \/ Deadline \/ ShutDown \/ Exit
  BY <1>2 DEF Signal, Deadline, ShutDown, Exit, Latest
<1>3. ASSUME NEW l \in Listing, OfListing(l) PROVE TypeOK'
  <2> USE DEF Stages, Advance
  <2>1. CASE Boots(l) \/ Fails(l) \/ Opens(l) \/ Heeds(l) \/ Lists(l) \/ Stops(l) \/ Unheard(l)
    BY <2>1 DEF Boots, Fails, Opens, Heeds, Lists, Stops, Unheard, ListingMoves
  <2>2. CASE PromptMsg(l) \/ DevicesMsg(l)
    BY <2>2 DEF PromptMsg, DevicesMsg, Follow
  <2>3. CASE ListingDoneMsg(l)
    BY <2>3 DEF ListingDoneMsg, Follow
  <2> QED
    BY <1>3, <2>1, <2>2, <2>3 DEF OfListing, ListingGoesOn
<1>4. ASSUME NEW r \in Reader, OfReader(r) \/ Refresh(r) PROVE TypeOK'
  <2>1. CASE RegistryMsg(r)
    <3>1. PICK ids \in flight[r] : RegistryIs(r, ids)
      BY <2>1 DEF RegistryMsg
    <3> QED
      BY <2>1, <3>1 DEF RegistryMsg, RegistryIs
  <2>2. CASE RegistryErrorMsg(r)
    BY <2>2 DEF RegistryErrorMsg
  <2>3. CASE Refresh(r)
    BY <2>3 DEF Refresh, Records
  <2> QED
    BY <1>4, <2>1, <2>2, <2>3 DEF OfReader
<1>5. ASSUME NEW m \in Mount, OfLaunch(m) \/ Process(m) PROVE TypeOK'
  BY <1>5 DEF OfLaunch, Spawn, SpawnFails, Tells, MountMsg, Follow, Process, Publishes, Goes,
     MountMoves
<1>6. CASE UNCHANGED vars
  BY <1>6 DEF vars
<1> QED
  BY <1>1, <1>2, <1>3, <1>4, <1>5, <1>6 DEF Next

(* A program that ends, its mounts gone or not, has nothing more to know.  *)
LEMMA QuitKeeps ==
  ASSUME TuiInv, TypeOK', NEW why \in {"gone", "left"}, QuitAs(why), UNCHANGED <<mount, started>>,
         asked' \subseteq asked \cup StartedHere(shown),
         why = "gone" => asked' = asked /\ asked \cap Records = {}
  PROVE  TuiInv'
<1>1. Known' = Known /\ Records' = Records
  BY DEF Known, Records
<1>2. ReadInv' /\ LaterInv'
  BY DEF QuitAs, ReadInv, LaterInv, Runs, Reader
<1>3. AskedInv'
  BY <1>1 DEF QuitAs, TuiInv, ReadInv, AskedInv, Runs, StartedHere
<1>4. QuitMeansGone'
  BY <1>1 DEF QuitAs, QuitMeansGone
<1> QED
  BY <1>2, <1>3, <1>4 DEF TuiInv

(* Steps of the wizard and of listings touch nothing that is known of the  *)
(* mounts, or end the program.                                             *)
LEMMA AsideKeeps ==
  ASSUME TuiInv, TypeOK', UNCHANGED <<shown, quitting, mount, started, asked, flight>>,
         program' = program \/ (program # "runs" /\ program' # "runs" /\ program' # "gone"),
         screen' = screen \/ screen' # "confirm" \/ quitting = "no"
  PROVE  TuiInv'
<1>1. Known' = Known /\ Records' = Records
  BY DEF Known, Records
<1> QED
  BY <1>1 DEF TuiInv, ReadInv, LaterInv, AskedInv, QuitMeansGone, Runs

LEMMA KeysKeep ==
  ASSUME TuiInv, TypeOK', Keys \/ Signal \/ Deadline \/ ShutDown \/ Exit
  PROVE  TuiInv'
<1> USE DEF uiVars, guestVars, mountVars
<1>1. CASE New \/ BackOut \/ Abort \/ Boot \/ StayOn \/ ShutDown \/ Exit
  BY <1>1, AsideKeeps DEF New, BackOut, Abort, Boot, StayOn, ShutDown, Exit, LeaveWizard, In
<1>2. CASE CancelPrompt \/ AnswerPrompt
  <2>1. CASE wizard.ls = Nobody
    BY <1>2, <2>1, QuitKeeps DEF CancelPrompt, AnswerPrompt
  <2>2. CASE wizard.ls # Nobody
    BY <1>2, <2>2, AsideKeeps DEF CancelPrompt, AnswerPrompt, LeaveWizard
  <2> QED
    BY <2>1, <2>2
<1>3. CASE Launch
  <2>1. PICK m \in Mount : mount[m] = "unused" /\ mount' = [mount EXCEPT ![m] = "held"]
    BY <1>3 DEF Launch
  <2>2. Known' = Known /\ Records' = Records
    BY <2>1 DEF TuiInv, TypeOK, Known, Records
  <2> QED
    BY <1>3, <2>2 DEF Launch, TuiInv, ReadInv, LaterInv, AskedInv, QuitMeansGone, Runs
<1>4. CASE RequestQuit
  BY <1>4, QuitKeeps, AsideKeeps DEF RequestQuit
<1>5. CASE QuitLeaving \/ QuitUnmountingFails \/ Signal \/ Deadline
  <2>1. asked' \subseteq asked \cup StartedHere(shown)
    BY <1>5 DEF QuitLeaving, QuitUnmountingFails, Signal, Deadline
  <2> QED
    BY <1>5, <2>1, QuitKeeps DEF QuitLeaving, QuitUnmountingFails, Signal, Deadline
<1>6. CASE QuitUnmounting
  <2>1. Runs /\ quitting = "no" /\ asked = {} /\ asked' = StartedHere(shown)
    BY <1>6 DEF QuitUnmounting, TuiInv, LaterInv, AskedInv
  <2>2. Known' = Known /\ Records' = Records
    BY <1>6 DEF QuitUnmounting, Known, Records
  <2> QED
    BY <1>6, <2>1, <2>2 DEF QuitUnmounting, TuiInv, ReadInv, LaterInv, AskedInv, QuitMeansGone,
       Runs, StartedHere
<1> QED
  BY <1>1, <1>2, <1>3, <1>4, <1>5, <1>6 DEF Keys

LEMMA ListingKeeps ==
  ASSUME TuiInv, TypeOK', NEW l \in Listing, OfListing(l)
  PROVE  TuiInv'
<1>1. /\ UNCHANGED <<program, shown, quitting, mount, started, asked, flight>>
      /\ screen' = screen \/ screen' = "sessions"
  BY DEF OfListing, ListingGoesOn, Boots, Fails, Opens, Heeds, Lists, Stops, Unheard, ListingMoves, PromptMsg,
     DevicesMsg, ListingDoneMsg, Follow, LeaveWizard, uiVars, mountVars
<1> QED
  BY <1>1, AsideKeeps

(* What a read of the registry finds.                                      *)
LEMMA ReaderKeeps ==
  ASSUME TuiInv, TypeOK', NEW r \in Reader, OfReader(r) \/ Refresh(r)
  PROVE  TuiInv'
<1> USE DEF guestVars, mountVars
<1>1. Known' = Known /\ Records' = Records /\ UNCHANGED <<mount, started, asked>> /\ Runs
  BY DEF OfReader, RegistryMsg, RegistryErrorMsg, Refresh, Known, Records
<1>2. CASE RegistryMsg(r)
  <2>1. PICK ids \in flight[r] : RegistryIs(r, ids)
    BY <1>2 DEF RegistryMsg
  <2>2. CASE quitting # "no" /\ StartedHere(ids) = {}
    <3>1. asked \cap Records \subseteq ids /\ asked \subseteq started
      BY <1>1, <2>1, <2>2 DEF TuiInv, AskedInv
    <3>2. asked \cap Records = {}
      BY <2>2, <3>1 DEF StartedHere
    <3> QED
      BY <1>1, <2>1, <2>2, <3>2, QuitKeeps DEF RegistryIs
  <2>3. CASE ~(quitting # "no" /\ StartedHere(ids) = {})
    <3>1. /\ shown' = ids /\ flight' = [flight EXCEPT ![r] = {}]
          /\ UNCHANGED <<program, screen, wizard, quitting>>
      BY <2>1, <2>3 DEF RegistryIs
    <3>2. \A q \in Reader : flight'[q] = IF q = r THEN {} ELSE flight[q]
      BY <3>1 DEF TuiInv, TypeOK
    <3>3. ReadInv'
      BY <1>1, <2>1, <3>1, <3>2 DEF TuiInv, ReadInv
    <3>4. LaterInv'
      <4> SUFFICES ASSUME quitting = "no" PROVE LaterInv'
        BY <3>1 DEF LaterInv
      <4>1. r = "tick" /\ flight["quit"] = {} /\ asked = {}
        BY <1>1, <2>1 DEF TuiInv, LaterInv, Reader
      <4> QED
        BY <1>1, <3>2, <4>1 DEF LaterInv, Reader
    <3>5. AskedInv'
      BY <1>1, <3>1, <3>2 DEF TuiInv, AskedInv, Runs
    <3> QED
      BY <1>1, <3>1, <3>3, <3>4, <3>5 DEF TuiInv, QuitMeansGone
  <2> QED
    BY <2>2, <2>3
<1>3. CASE RegistryErrorMsg(r)
  <2>1. /\ shown' = {} /\ UNCHANGED <<program, screen, quitting>>
        /\ \A q \in Reader : flight'[q] = IF q = r THEN {} ELSE flight[q]
    BY <1>3 DEF RegistryErrorMsg, TuiInv, TypeOK
  <2> QED
    BY <1>1, <2>1 DEF TuiInv, ReadInv, LaterInv, AskedInv, QuitMeansGone, Runs, Reader
<1>4. CASE Refresh(r)
  <2>1. /\ UNCHANGED <<program, screen, shown>>
        /\ quitting' = IF r = "quit" THEN "waits" ELSE quitting
        /\ r = "quit" => quitting = "rereads"
        /\ \A q \in Reader : flight'[q] = IF q = r THEN {Records} ELSE flight[q]
    BY <1>4 DEF Refresh, TuiInv, TypeOK
  <2>2. Records \subseteq Known
    BY DEF Records, Known
  <2>3. ReadInv'
    BY <1>1, <2>1, <2>2 DEF TuiInv, ReadInv
  <2>4. LaterInv'
    BY <1>1, <2>1 DEF TuiInv, LaterInv, Runs, Reader
  <2>5. AskedInv'
    BY <1>1, <2>1 DEF TuiInv, AskedInv, Runs
  <2> QED
    BY <1>1, <2>1, <2>3, <2>4, <2>5 DEF TuiInv, QuitMeansGone
<1> QED
  BY <1>2, <1>3, <1>4 DEF OfReader

(* A mount moves forward: what was known of it still is, and it does not   *)
(* come back to the registry.                                              *)
LEMMA MountKeeps ==
  ASSUME TuiInv, TypeOK', NEW m \in Mount, OfLaunch(m) \/ Process(m)
  PROVE  TuiInv'
<1> USE DEF uiVars, guestVars, mountVars
<1>1. CASE MountMsg(m) \/ Tells(m)
  BY <1>1, AsideKeeps DEF MountMsg, Tells, Follow, LeaveWizard
<1>2. CASE Spawn(m) \/ SpawnFails(m) \/ Publishes(m) \/ Goes(m)
  <2>1. /\ UNCHANGED <<program, screen, shown, quitting, asked, flight>>
        /\ started \subseteq started'
    BY <1>2 DEF Spawn, SpawnFails, Publishes, Goes, MountMoves
  <2>2. Known \subseteq Known' /\ Known \cap Records' \subseteq Records
    BY <1>2 DEF Spawn, SpawnFails, Publishes, Goes, MountMoves, Known, Records, TuiInv, TypeOK
  <2>3. ReadInv'
    BY <2>1, <2>2 DEF TuiInv, ReadInv
  <2>4. LaterInv'
    BY <2>1, <2>2 DEF TuiInv, ReadInv, LaterInv, Runs
  <2>5. AskedInv'
    BY <2>1, <2>2 DEF TuiInv, AskedInv, Runs
  <2>6. QuitMeansGone'
    BY <2>1, <2>2 DEF TuiInv, AskedInv, QuitMeansGone
  <2> QED
    BY <2>3, <2>4, <2>5, <2>6 DEF TuiInv
<1> QED
  BY <1>1, <1>2 DEF OfLaunch, Process

-----------------------------------------------------------------------------
(* The inductive invariant: what the program knows of the mounts is        *)
(* outdated at most by those that went or came since (tui_model.go:401-    *)
(* 444).                                                                   *)
THEOREM TuiInvHolds == Spec => []TuiInv
<1>1. TuiInv /\ [Next]_vars => TuiInv'
  <2> SUFFICES ASSUME TuiInv, [Next]_vars PROVE TuiInv'
    OBVIOUS
  <2>1. TypeOK'
    BY TypeKept DEF TuiInv
  <2>2. CASE UNCHANGED vars
    BY <2>1, <2>2, AsideKeeps DEF vars, uiVars, mountVars
  <2> QED
    BY <2>1, <2>2, KeysKeep, ListingKeeps, ReaderKeeps, MountKeeps DEF Next
<1> QED
  BY <1>1, InitHolds, PTL DEF Spec

(* Types, for any number of listings and mounts; above all that a listing  *)
(* that is told to stop, or given an answer, is one that there is          *)
(* (tui_wizard.go:286, tui_session.go:180-189).                            *)
THEOREM TypesHold == Spec => []TypeOK
<1>1. TuiInv => TypeOK
  BY DEF TuiInv
<1> QED
  BY <1>1, TuiInvHolds, PTL

(* A program told to unmount, unless its deadline passes or a request      *)
(* cannot be written, quits only when every mount it asked is gone,        *)
(* however its reads of the registry fail or cross (tui_model.go:421-444). *)
THEOREM QuitsWhenGone == Spec => []QuitMeansGone
<1>1. TuiInv => QuitMeansGone
  BY DEF TuiInv
<1> QED
  BY <1>1, TuiInvHolds, PTL
=============================================================================

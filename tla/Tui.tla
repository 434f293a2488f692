-------------------------------- MODULE Tui ---------------------------------
(***************************************************************************)
(* `lmnt tui' (internal/cli/tui.go, tui_model.go, tui_session.go,          *)
(* tui_wizard.go): one event loop that draws what it is told by goroutines.*)
(* A wizard boots a guest to list a disk's devices and then launches a     *)
(* mount in a process of its own.  A goroutine that sends a message waits  *)
(* until the loop takes it, so the message it is at is part of its place.  *)
(*                                                                         *)
(* The screens that only show something count as the list of sessions, the *)
(* steps of the wizard before the boot as one form, and those from the list*)
(* of devices to the launch as one choice.                                 *)
(***************************************************************************)
EXTENDS Naturals

CONSTANTS
  MaxListing,  \* bound: guests booted to list a disk
  MaxMount     \* bound: mounts launched

ASSUME TuiAssumption == MaxListing \in Nat /\ MaxMount \in Nat

Listing == 1 .. MaxListing
Mount   == 1 .. MaxMount
Nobody  == 0

VARIABLES
  program,    \* whether the event loop runs, has ended with its mounts gone, or otherwise
  screen,     \* what it shows
  wizard,     \* the step of the wizard and its listing
  shown,      \* the mounts in the loop's copy of the registry
  quitting,   \* whether it waits for mounts to go, and has to read the registry for it
  listing,    \* where each listing guest's goroutine is
  cancelled,  \* the listings that were told to stop
  secret,     \* the listings that have an answer waiting
  mount,      \* where each mount's process is, or the goroutine that is to spawn it
  watch,      \* what the goroutine that waits for a mount has seen
  started,    \* the mounts the runtime remembers as its own
  asked,      \* the mounts that were asked to stop before the program quits
  flight      \* what reads of the registry on their way have found

uiVars    == <<program, screen, wizard, shown, quitting>>
guestVars == <<listing, cancelled, secret>>
mountVars == <<mount, watch, started, asked>>
vars      == <<uiVars, guestVars, mountVars, flight>>

Steps    == {"form", "booting", "passphrase", "choice", "mounting"}
Stages   == {"unused", "boots", "asks", "waits", "opens", "tells", "stops", "ends", "over"}
Reader   == {"tick", "quit"}
NewWizard == [step |-> "form", ls |-> Nobody]

TypeOK ==
  /\ program \in {"runs", "gone", "left", "over"}
  /\ screen \in {"sessions", "wizard", "confirm"}
  /\ wizard \in [step : Steps, ls : Listing \cup {Nobody}]
  /\ shown \subseteq Mount
  /\ quitting \in {"no", "rereads", "waits"}
  /\ listing \in [Listing -> Stages]
  /\ cancelled \subseteq Listing /\ secret \subseteq Listing
  /\ mount \in [Mount -> {"unused", "held", "spawned", "listed", "gone"}]
  /\ watch \in [Mount -> {"no", "looks", "tells", "told"}]
  /\ started \subseteq Mount /\ asked \subseteq Mount
  /\ flight \in [Reader -> SUBSET SUBSET Mount]

(* Some mounts may have come up earlier.                                    *)
Init ==
  /\ program = "runs" /\ screen = "sessions" /\ wizard = NewWizard
  /\ quitting = "no" /\ asked = {}
  /\ listing = [l \in Listing |-> "unused"] /\ cancelled = {} /\ secret = {}
  /\ started \in SUBSET Mount /\ shown = started
  /\ mount = [m \in Mount |-> IF m \in started THEN "listed" ELSE "unused"]
  /\ watch = [m \in Mount |-> IF m \in started THEN "told" ELSE "no"]
  /\ flight = [r \in Reader |-> {}]

Records == {m \in Mount : mount[m] = "listed"}

-----------------------------------------------------------------------------
(* The wizard, driven by keys.                                              *)

Runs == program = "runs"
In(s) == Runs /\ screen = "wizard" /\ wizard.step = s
To(s) == wizard' = [wizard EXCEPT !.step = s]

LeaveWizard == screen' = "sessions" /\ wizard' = NewWizard

(* The event loop ends, and what it knew is dropped.                        *)
QuitAs(why) ==
  /\ program' = why
  /\ LeaveWizard
  /\ shown' = {} /\ quitting' = "no" /\ flight' = [r \in Reader |-> {}]

New ==
  /\ Runs /\ screen = "sessions"
  /\ screen' = "wizard" /\ wizard' = NewWizard
  /\ UNCHANGED <<program, shown, quitting, guestVars, mountVars, flight>>

(* boot, at the end of the form: startListing.                              *)
Boot ==
  /\ In("form")
  /\ \E l \in Listing :
       /\ listing[l] = "unused" /\ \A k \in Listing : k < l => listing[k] # "unused"
       /\ listing' = [listing EXCEPT ![l] = "boots"]
       /\ wizard' = [wizard EXCEPT !.step = "booting", !.ls = l]
  /\ UNCHANGED <<program, screen, shown, quitting, cancelled, secret, mountVars, flight>>

(* A plausible bug: a wizard without a listing stops one all the same.      *)
StopUnguarded == cancelled' = cancelled \cup {wizard.ls}

StopListing == cancelled' = cancelled \cup ({wizard.ls} \ {Nobody})

(* esc: back out of the wizard, and end the guest it still has.             *)
BackOut ==
  /\ In("form") \/ In("mounting")
  /\ LeaveWizard
  /\ UNCHANGED <<program, shown, quitting, guestVars, mountVars, flight>>

Abort ==
  /\ In("booting") \/ In("choice")
  /\ LeaveWizard
  /\ StopListing
  /\ UNCHANGED <<program, shown, quitting, listing, secret, mountVars, flight>>

CancelPrompt ==
  /\ In("passphrase")
  /\ IF wizard.ls = Nobody
       THEN QuitAs("left") /\ UNCHANGED cancelled
       ELSE LeaveWizard /\ StopListing /\ UNCHANGED <<program, shown, quitting, flight>>
  /\ UNCHANGED <<listing, secret, mountVars>>

(* enter, in a passphrase a listing guest waits for: answerPrompt, which    *)
(* panics in a wizard that has no listing.                                  *)
AnswerPrompt ==
  /\ In("passphrase")
  /\ IF wizard.ls = Nobody
       THEN QuitAs("left") /\ UNCHANGED secret
       ELSE /\ secret' = secret \cup {wizard.ls}
            /\ To("booting")
            /\ UNCHANGED <<program, screen, shown, quitting, flight>>
  /\ UNCHANGED <<listing, cancelled, mountVars>>

(* acceptDevice, acceptMountOptions and, for a LUKS volume, its passphrase. *)
Launch ==
  /\ In("choice")
  /\ \E m \in Mount :
       /\ mount[m] = "unused" /\ \A k \in Mount : k < m => mount[k] # "unused"
       /\ mount' = [mount EXCEPT ![m] = "held"]
  /\ To("mounting")
  /\ UNCHANGED <<program, screen, shown, quitting, guestVars, watch, started, asked, flight>>

-----------------------------------------------------------------------------
(* Quitting, driven by keys.  Stopping one mount from the list writes the   *)
(* request that Registry models, and nothing here: a mount may always go.   *)

StartedHere(ids) == ids \cap started

RequestQuit ==
  /\ Runs /\ screen # "confirm" /\ quitting = "no"
  /\ IF StartedHere(shown) = {}
       THEN QuitAs("left")
       ELSE screen' = "confirm" /\ UNCHANGED <<program, wizard, shown, quitting, flight>>
  /\ UNCHANGED <<guestVars, mountVars>>

StayOn ==
  /\ Runs /\ screen = "confirm"
  /\ screen' = "sessions"
  /\ UNCHANGED <<program, wizard, shown, quitting, guestVars, mountVars, flight>>

QuitLeaving ==
  /\ Runs /\ screen = "confirm"
  /\ QuitAs("left")
  /\ UNCHANGED <<guestVars, mountVars>>

QuitUnmounting ==
  /\ Runs /\ screen = "confirm"
  /\ asked' = asked \cup StartedHere(shown)
  /\ quitting' = "rereads"
  /\ screen' = "sessions"
  /\ UNCHANGED <<program, wizard, shown, guestVars, mount, watch, started, flight>>

(* A stop request that cannot be written ends the program at once.          *)
QuitUnmountingFails ==
  /\ Runs /\ screen = "confirm"
  /\ \E some \in SUBSET StartedHere(shown) : asked' = asked \cup some
  /\ QuitAs("left")
  /\ UNCHANGED <<guestVars, mount, watch, started>>

Signal ==
  /\ Runs
  /\ QuitAs("left")
  /\ UNCHANGED <<guestVars, mountVars>>

Deadline ==
  /\ Runs /\ quitting # "no"
  /\ QuitAs("left")
  /\ UNCHANGED <<guestVars, mountVars>>

-----------------------------------------------------------------------------
(* Messages.  Those of listings and mounts reach the wizard there is, if    *)
(* the screen shows one, and get lost otherwise.                            *)

Advance(l, stage) == listing' = [listing EXCEPT ![l] = stage]

Follow(change) == IF screen = "wizard" THEN change ELSE UNCHANGED <<screen, wizard>>

PromptMsg(l) ==
  /\ Runs /\ listing[l] = "asks"
  /\ Advance(l, "waits")
  /\ Follow(To("passphrase") /\ UNCHANGED screen)
  /\ UNCHANGED <<program, shown, quitting, cancelled, secret, mountVars, flight>>

DevicesMsg(l) ==
  /\ Runs /\ listing[l] = "tells"
  /\ Advance(l, "stops")
  /\ Follow(To("choice") /\ UNCHANGED screen)
  /\ UNCHANGED <<program, shown, quitting, cancelled, secret, mountVars, flight>>

ListingDoneMsg(l) ==
  /\ Runs /\ listing[l] = "ends"
  /\ Advance(l, "over")
  /\ Follow(IF wizard.step \in {"choice", "passphrase", "mounting"}
              THEN UNCHANGED <<screen, wizard>>
              ELSE LeaveWizard)
  /\ UNCHANGED <<program, shown, quitting, cancelled, secret, mountVars, flight>>

(* mountUpMsg or mountFailedMsg.                                            *)
MountMsg(m) ==
  /\ Runs /\ watch[m] = "tells"
  /\ watch' = [watch EXCEPT ![m] = "told"]
  /\ Follow(LeaveWizard)
  /\ UNCHANGED <<program, shown, quitting, guestVars, mount, started, asked, flight>>

RegistryIs(r, ids) ==
  IF quitting # "no" /\ StartedHere(ids) = {}
    THEN QuitAs("gone")
    ELSE /\ shown' = ids
         /\ flight' = [flight EXCEPT ![r] = {}]
         /\ UNCHANGED <<program, screen, wizard, quitting>>

(* A plausible bug: a listing that failed counts as an empty one.           *)
EmptyOnError(r) ==
  /\ Runs /\ flight[r] # {}
  /\ \E ids \in flight[r] \cup {{}} : RegistryIs(r, ids)
  /\ UNCHANGED <<guestVars, mountVars>>

RegistryMsg(r) ==
  /\ Runs /\ flight[r] # {}
  /\ \E ids \in flight[r] : RegistryIs(r, ids)
  /\ UNCHANGED <<guestVars, mountVars>>

(* The directory could not be read: the copy of the registry is lost too.   *)
RegistryErrorMsg(r) ==
  /\ Runs /\ flight[r] # {}
  /\ flight' = [flight EXCEPT ![r] = {}]
  /\ shown' = {}
  /\ UNCHANGED <<program, screen, wizard, quitting, guestVars, mountVars>>

-----------------------------------------------------------------------------
(* Goroutines that read the registry, every tick and once when quitting.    *)

Refresh(r) ==
  /\ Runs /\ flight[r] = {}
  /\ r = "quit" => quitting = "rereads"
  /\ flight' = [flight EXCEPT ![r] = {Records}]
  /\ quitting' = IF r = "quit" THEN "waits" ELSE quitting
  /\ UNCHANGED <<program, screen, wizard, shown, guestVars, mountVars>>

(* The goroutine of a listing: boot, open the container, read the devices,  *)
(* stop.  Its prompt heeds only its own context and an answer.              *)
ListingMoves(l, from, to) ==
  /\ program # "over"
  /\ listing[l] = from /\ Advance(l, to)
  /\ UNCHANGED <<uiVars, cancelled, mountVars, flight>>

Boots(l)  == (ListingMoves(l, "boots", "asks") \/ ListingMoves(l, "boots", "tells")) /\ UNCHANGED secret
Fails(l)  == (ListingMoves(l, "boots", "stops") \/ ListingMoves(l, "opens", "stops")) /\ UNCHANGED secret
Opens(l)  == l \in secret /\ ListingMoves(l, "waits", "opens") /\ secret' = secret \ {l}
(* A plausible bug: the prompt waits for an answer only.                    *)
HeedsAnswer(l) ==
  l \in cancelled \cap secret /\ ListingMoves(l, "waits", "stops") /\ UNCHANGED secret

Heeds(l)  == l \in cancelled /\ ListingMoves(l, "waits", "stops") /\ UNCHANGED secret
Lists(l)  == ListingMoves(l, "opens", "tells") /\ UNCHANGED secret
Stops(l)  == ListingMoves(l, "stops", "ends") /\ UNCHANGED secret

(* Send gives up once the loop has ended.                                   *)
Unheard(l) ==
  /\ ~Runs
  /\ \/ ListingMoves(l, "asks", "waits") \/ ListingMoves(l, "tells", "stops")
     \/ ListingMoves(l, "ends", "over")
  /\ UNCHANGED secret

(* launch: when the listing's guest is gone, or StopTimeout has passed.     *)
Spawn(m) ==
  /\ program # "over"
  /\ mount[m] = "held"
  /\ mount' = [mount EXCEPT ![m] = "spawned"]
  /\ started' = started \cup {m}
  /\ watch' = [watch EXCEPT ![m] = "looks"]
  /\ UNCHANGED <<uiVars, guestVars, asked, flight>>

SpawnFails(m) ==
  /\ program # "over"
  /\ mount[m] = "held"
  /\ mount' = [mount EXCEPT ![m] = "gone"]
  /\ watch' = [watch EXCEPT ![m] = "tells"]
  /\ UNCHANGED <<uiVars, guestVars, started, asked, flight>>

(* A plausible bug: awaitMount waits for a record, however long.            *)
TellsRecorded(m) ==
  /\ Runs /\ watch[m] = "looks" /\ m \in Records
  /\ watch' = [watch EXCEPT ![m] = "tells"]
  /\ UNCHANGED <<uiVars, guestVars, mount, started, asked, flight>>

(* awaitMount: its share is up, it has gone, or the deadline has passed.    *)
Tells(m) ==
  /\ Runs /\ watch[m] = "looks"
  /\ watch' = [watch EXCEPT ![m] = "tells"]
  /\ UNCHANGED <<uiVars, guestVars, mount, started, asked, flight>>

-----------------------------------------------------------------------------
(* The mounts' own processes, and the end of the program.                   *)

MountMoves(m, from, to) ==
  /\ mount[m] \in from /\ mount' = [mount EXCEPT ![m] = to]
  /\ UNCHANGED <<uiVars, guestVars, watch, started, asked, flight>>

Publishes(m) == MountMoves(m, {"spawned"}, "listed")
Goes(m)      == MountMoves(m, {"spawned", "listed"}, "gone")

(* shutdownListing: the last listing that was started, or its timeout.      *)
Latest == {l \in Listing : listing[l] # "unused" /\ \A k \in Listing : k > l => listing[k] = "unused"}

ShutDown ==
  /\ program \in {"gone", "left"}
  /\ cancelled' = cancelled \cup Latest
  /\ UNCHANGED <<uiVars, listing, secret, mountVars, flight>>

Exit ==
  /\ program \in {"gone", "left"}
  /\ Latest \subseteq cancelled
  /\ program' = "over"
  /\ UNCHANGED <<screen, wizard, shown, quitting, guestVars, mountVars, flight>>

-----------------------------------------------------------------------------
Keys ==
  \/ New \/ Boot \/ BackOut \/ Abort \/ CancelPrompt \/ AnswerPrompt
  \/ Launch
  \/ RequestQuit \/ StayOn \/ QuitLeaving
  \/ QuitUnmounting \/ QuitUnmountingFails

ListingGoesOn(l) ==
  \/ Boots(l) \/ Fails(l) \/ Opens(l) \/ Heeds(l) \/ Lists(l) \/ Unheard(l)
  \/ PromptMsg(l) \/ DevicesMsg(l) \/ ListingDoneMsg(l)

OfListing(l) == ListingGoesOn(l) \/ Stops(l)

OfReader(r) == RegistryMsg(r) \/ RegistryErrorMsg(r)

OfLaunch(m) == Spawn(m) \/ SpawnFails(m) \/ Tells(m) \/ MountMsg(m)

Process(m) == Publishes(m) \/ Goes(m)

Next ==
  \/ Keys \/ Signal \/ Deadline \/ ShutDown \/ Exit
  \/ \E l \in Listing : OfListing(l)
  \/ \E r \in Reader : OfReader(r) \/ Refresh(r)
  \/ \E m \in Mount : OfLaunch(m) \/ Process(m)

Spec == Init /\ [][Next]_vars

(* The goroutines of a listing and of a mount, and the timers, go on, and   *)
(* the loop takes their messages; nobody has to press a key, no read of the *)
(* registry has to come back, and a mount need not come up or go.  Nor does *)
(* a guest have to let itself be stopped: poweroff of a frozen machine and  *)
(* a container whose docker stop failed hold the listing's goroutine        *)
(* (machine.go:434-441, provider.go:135).                                   *)
FairSpec ==
  /\ Spec
  /\ WF_vars(Deadline \/ ShutDown \/ Exit)
  /\ \A l \in Listing : WF_vars(ListingGoesOn(l))
  /\ \A m \in Mount : WF_vars(OfLaunch(m))

-----------------------------------------------------------------------------
(* Properties.                                                              *)

(* Unless the deadline passes or a request cannot be written, the program   *)
(* that was told to unmount quits only when every mount it asked is gone,   *)
(* whichever reads of the registry fail or cross (tui_model.go:421-444).    *)
(* A read takes less than a tick, so two ticks' reads do not cross.         *)
QuitMeansGone == program = "gone" => asked \cap Records = {}

(* A listing whose wizard was left with esc does not keep waiting for its   *)
(* passphrase or for anything else: at whatever point it is, it comes to    *)
(* stop its guest, and ends if that guest lets itself be stopped            *)
(* (tui_session.go:180-189).  One that does not keeps the disk.             *)
AbortedListingEnds ==
  \A l \in Listing :
    l \in cancelled ~> \/ listing[l] \in {"ends", "over"} \/ program = "over"
                       \/ [](listing[l] = "stops")

(* A wizard that has launched its mount does not wait for ever, although    *)
(* the mount's process may die before it has a record (tui_session.go:313). *)
MountingEnds == In("mounting") ~> ~In("mounting")

(* tui_model.go:196-197: "updateSession lets the wizard follow the listing  *)
(* guest and the background mount it started."                              *)
FollowsItsOwn ==
  [][\A l \in Listing :
       wizard.ls # l /\ listing[l] \in {"asks", "tells", "ends"} /\ listing'[l] # listing[l]
         => UNCHANGED <<screen, wizard>>]_vars
=============================================================================

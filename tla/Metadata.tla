------------------------------ MODULE Metadata ------------------------------
(***************************************************************************)
(* The inventory that records are enriched with: pkg/restapi's two caches, *)
(* filled by FLBPluginInit and by the refresh goroutine, and looked up by  *)
(* readers in Decoder.GetTags under two separate read locks.               *)
(*                                                                         *)
(* The inventory at DCD changes as it likes; its states are numbered, and  *)
(* a cache is represented by the number of the state it shows, with 0 for  *)
(* an empty cache.  What a lookup finds in a state is left open.           *)
(***************************************************************************)
EXTENDS Naturals

CONSTANTS
    Readers,     \* reader goroutines
    MaxVersion,  \* bound on the states of the inventory at DCD
    NoAnswer     \* no answer to the request under way

ASSUME VersionAssumption ==
    /\ MaxVersion \in Nat \ {0}
    /\ NoAnswer \notin Nat

Versions == 1..MaxVersion
Nothing == 0
Cached == Versions \union {Nothing}

VARIABLES
    now,         \* the state of the inventory at DCD
    steady,      \* DCD has settled: from now on it serves who has a token
    token,       \* Client.token is set
    place,       \* of FLBPluginInit, then of the refresh goroutine
    answer,      \* DCD's answer to the request under way
    blueprints,  \* Client.blueprints
    systems,     \* Client.systems
    quit,        \* quit is closed
    pc,          \* per reader: where it is in GetTags
    blueprint,   \* per reader: the state of the Blueprint it found
    began,       \* state of the inventory when the present round began, Nothing
                 \* once the round's GetBlueprints failed
    floor,       \* began, of the round that the cached systems come from
    floorOf      \* per reader: floor, when it found its System

vars == <<now, steady, token, place, answer, blueprints, systems, quit, pc, blueprint,
          began, floor, floorOf>>
dcd == <<now, steady>>
readers == <<pc, blueprint, floorOf>>

Init ==
    /\ now \in Versions
    /\ steady = FALSE
    /\ token = FALSE
    /\ place = "login"
    /\ answer = NoAnswer
    /\ blueprints = Nothing /\ systems = Nothing
    /\ quit = FALSE
    /\ pc = [r \in Readers |-> "idle"]
    /\ blueprint = [r \in Readers |-> Nothing]
    /\ began = Nothing /\ floor = Nothing
    /\ floorOf = [r \in Readers |-> Nothing]
-----------------------------------------------------------------------------
(* DCD (external) *)

\* Any change of blueprints, systems and their assignment.
InventoryChanges ==
    /\ ~steady
    /\ now < MaxVersion
    /\ now' = now + 1
    /\ UNCHANGED <<steady, token, place, answer, blueprints, systems, quit, readers, began, floor>>

\* From now on the inventory stays as it is, and DCD and the network serve every
\* request that carries the token of the login.  It need not happen.
Settle ==
    /\ ~steady
    /\ steady' = TRUE
    /\ UNCHANGED <<now, token, place, answer, blueprints, systems, quit, readers, began, floor>>

\* Faulty variant: systems are fetched before blueprints.
GettingSystemsFirst(list) ==
    place \in IF list = "systems" THEN {"init 1", "refresh 1"} ELSE {"init 2", "refresh 2"}

\* The request that Init or the goroutine is at: blueprints first, systems second
Getting(list) ==
    place \in IF list = "blueprints" THEN {"init 1", "refresh 1"} ELSE {"init 2", "refresh 2"}

\* A 2xx with the inventory as it is, or, before DCD has settled, without items or
\* a body; DCD answers nobody without a token.
DCDAnswers ==
    /\ Getting("blueprints") \/ Getting("systems")
    /\ token
    /\ answer = NoAnswer
    /\ answer' \in {now} \union (IF steady THEN {} ELSE {Nothing})
    /\ UNCHANGED <<dcd, token, place, blueprints, systems, quit, readers, began, floor>>
-----------------------------------------------------------------------------
(* FLBPluginInit, then the goroutine it starts *)

\* Without a login Init fetches nothing, and starts the goroutine all the same.
Login ==
    /\ place = "login"
    /\ \/ token' = TRUE /\ place' = "init 1" /\ began' = now
       \/ token' = FALSE /\ place' = "wait" /\ UNCHANGED began
    /\ UNCHANGED <<dcd, answer, blueprints, systems, quit, readers, floor>>

Tick ==
    /\ place = "wait"
    /\ place' = "refresh 1"
    /\ began' = now
    /\ UNCHANGED <<dcd, token, answer, blueprints, systems, quit, readers, floor>>

\* Faulty variant: the goroutine does not look at quit.
QuitUnseen == FALSE

QuitSeen ==
    /\ place = "wait"
    /\ quit
    /\ place' = "ended"
    /\ UNCHANGED <<dcd, token, answer, blueprints, systems, quit, readers, began, floor>>

\* The request is over, with an answer or without one.
Proceed ==
    /\ answer' = NoAnswer
    /\ place' = IF place = "init 1" THEN "init 2"
                ELSE IF place = "refresh 1" THEN "refresh 2" ELSE "wait"

\* Faulty variant: the answer is stored although there was an error.
GetBlueprintsUnchecked ==
    /\ Getting("blueprints")
    /\ blueprints' = answer
    /\ Proceed
    /\ UNCHANGED <<dcd, token, systems, quit, readers, began, floor>>

\* The new map takes the place of the old one, under the write lock.
GetBlueprints ==
    /\ Getting("blueprints")
    /\ answer # NoAnswer
    /\ blueprints' = answer
    /\ Proceed
    /\ UNCHANGED <<dcd, token, systems, quit, readers, began, floor>>

\* What a DCD that has settled spares a request with a token.
MayFail == ~steady \/ ~token

\* A timeout, a broken connection or an HTTP error: the cache stays.
GetBlueprintsFails ==
    /\ Getting("blueprints")
    /\ MayFail
    /\ began' = Nothing
    /\ Proceed
    /\ UNCHANGED <<dcd, token, blueprints, systems, quit, readers, floor>>

GetSystems ==
    /\ Getting("systems")
    /\ answer # NoAnswer
    /\ systems' = answer
    /\ floor' = began
    /\ Proceed
    /\ UNCHANGED <<dcd, token, blueprints, quit, readers, began>>

\* Faulty variant: the goroutine returns on an error.
GetSystemsFailsForGood ==
    /\ Getting("systems")
    /\ MayFail
    /\ answer' = NoAnswer
    /\ place' = "ended"
    /\ UNCHANGED <<dcd, token, blueprints, systems, quit, readers, began, floor>>

GetSystemsFails ==
    /\ Getting("systems")
    /\ MayFail
    /\ Proceed
    /\ UNCHANGED <<dcd, token, blueprints, systems, quit, readers, began, floor>>

\* The listener is there once Init's fetches are over.
Serving == place \in {"wait", "refresh 1", "refresh 2", "ended"}

\* FLBPluginExit; readers may go on.
Exit ==
    /\ Serving
    /\ ~quit
    /\ quit' = TRUE
    /\ UNCHANGED <<dcd, token, place, answer, blueprints, systems, readers, began, floor>>
-----------------------------------------------------------------------------
(* Decoder.GetTags *)

\* GetSystemByKey finds a System with a blueprint; a device that is unknown or has
\* no blueprint gets its tags without a second lookup.
FindSystem(r) ==
    /\ Serving
    /\ pc[r] = "idle"
    /\ systems # Nothing
    /\ pc' = [pc EXCEPT ![r] = "system"]
    /\ floorOf' = [floorOf EXCEPT ![r] = floor]
    /\ UNCHANGED <<dcd, token, place, answer, blueprints, systems, quit, blueprint, began, floor>>

\* GetBlueprintByID, in the cache of this moment: found, or not in the list
FindBlueprint(r) ==
    /\ pc[r] = "system"
    /\ \E found \in {blueprints, Nothing} : blueprint' = [blueprint EXCEPT ![r] = found]
    /\ pc' = [pc EXCEPT ![r] = "tagged"]
    /\ UNCHANGED <<dcd, token, place, answer, blueprints, systems, quit, floorOf, began, floor>>

\* The tags are part of a record.
Done(r) ==
    /\ pc[r] = "tagged"
    /\ pc' = [pc EXCEPT ![r] = "idle"]
    /\ blueprint' = [blueprint EXCEPT ![r] = Nothing]
    /\ floorOf' = [floorOf EXCEPT ![r] = Nothing]
    /\ UNCHANGED <<dcd, token, place, answer, blueprints, systems, quit, began, floor>>
-----------------------------------------------------------------------------
Refresher ==
    \/ Login
    \/ Tick
    \/ QuitSeen
    \/ GetBlueprints
    \/ GetBlueprintsFails
    \/ GetSystems
    \/ GetSystemsFails

GetTags(r) == FindSystem(r) \/ FindBlueprint(r) \/ Done(r)

Next ==
    \/ InventoryChanges
    \/ Settle
    \/ DCDAnswers
    \/ Refresher
    \/ Exit
    \/ \E r \in Readers : GetTags(r)

Spec == Init /\ [][Next]_vars

\* The goroutine runs, every request ends (with the client's timeout if not with
\* an answer), the ticker ticks, and a select that finds the ticker and quit
\* ready again and again takes each of them some time.  Of DCD nothing is assumed,
\* unless it has settled: then it answers.
FairSpec ==
    /\ Spec
    /\ WF_vars(Refresher)
    /\ SF_vars(QuitSeen)
    /\ WF_vars(steady /\ DCDAnswers)
-----------------------------------------------------------------------------
Places == {"login", "init 1", "init 2", "wait", "refresh 1", "refresh 2", "ended"}

TypeOK ==
    /\ now \in Versions
    /\ steady \in BOOLEAN
    /\ token \in BOOLEAN
    /\ place \in Places
    /\ answer \in Cached \union {NoAnswer}
    /\ blueprints \in Cached
    /\ systems \in Cached
    /\ quit \in BOOLEAN
    /\ pc \in [Readers -> {"idle", "system", "tagged"}]
    /\ blueprint \in [Readers -> Cached]
    /\ began \in Cached
    /\ floor \in Cached
    /\ floorOf \in [Readers -> Cached]

\* The blueprint a record names is not older than the round that fetched its
\* system, unless that round failed to get the blueprints: a system that moved to
\* a new blueprint is not shown with the old name of that blueprint.  It takes the
\* order of the two requests of a round and of the two lookups of GetTags, however
\* a refresh falls between the lookups.
BlueprintNotOlder ==
    \A r \in Readers :
        pc[r] = "tagged" /\ blueprint[r] # Nothing => blueprint[r] >= floorOf[r]

\* Once DCD has settled, a plugin that has logged in comes to show the inventory
\* in both caches and goes on to until it exits, whatever failed, timed out or was
\* answered without items before, at whichever of its requests DCD settles.
CatchesUp ==
    steady ~> [](token /\ ~quit => blueprints = now /\ systems = now)

\* The refresh goroutine ends after Exit.
RefresherEnds == quit ~> place = "ended"
=============================================================================

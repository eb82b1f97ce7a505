--------------------------- MODULE MetadataProofs ---------------------------
(***************************************************************************)
(* Theorems about Metadata for any readers and any number of changes of    *)
(* the inventory.  That a record's blueprint is not older than its system  *)
(* takes an invariant of the cache (CacheInv: the cached blueprints are    *)
(* not older than the round of the cached systems, nor, while systems are  *)
(* fetched, than the round under way) and one of every reader between its  *)
(* two lookups (ReaderInv), which a refresh must not disturb.              *)
(***************************************************************************)
EXTENDS Metadata, TLAPS

\* Not older than the given round, if there is anything at all.
NotOlder(found, round) == found # Nothing => found >= round

CacheInv ==
    /\ began <= now /\ floor <= now
    /\ NotOlder(blueprints, floor)
    /\ Getting("blueprints") =>
          /\ floor <= began
          /\ answer # NoAnswer => NotOlder(answer, began)
    /\ Getting("systems") => NotOlder(blueprints, began)
    /\ answer # NoAnswer => Getting("blueprints") \/ Getting("systems")

ReaderInv ==
    \A r \in Readers :
        /\ floorOf[r] <= now
        /\ pc[r] = "system" =>
              /\ NotOlder(blueprints, floorOf[r])
              /\ Getting("blueprints") => floorOf[r] <= began

IInv == TypeOK /\ CacheInv /\ ReaderInv /\ BlueprintNotOlder

LEMMA InitInv == Init => IInv
<1> SUFFICES ASSUME Init
             PROVE  IInv
    OBVIOUS
<1>1. TypeOK
  BY VersionAssumption DEF Versions, Cached, Nothing, Init, TypeOK, Places
<1>2. CacheInv
  BY VersionAssumption DEF Versions, Cached, Nothing, Init, CacheInv, NotOlder, Getting
<1>3. ReaderInv /\ BlueprintNotOlder
  BY VersionAssumption DEF Versions, Cached, Nothing, Init, ReaderInv, NotOlder, BlueprintNotOlder
<1>. QED  BY <1>1, <1>2, <1>3 DEF IInv

(* How each kind of step moves the round of requests. *)

LEMMA RoundSame ==
    place' = place => /\ Getting("blueprints")' <=> Getting("blueprints")
                      /\ Getting("systems")' <=> Getting("systems")
BY DEF Getting

LEMMA RoundBegins ==
    Login \/ Tick => /\ ~Getting("blueprints") /\ ~Getting("systems") /\ ~Getting("systems")'
                     /\ began' = now \/ (began' = began /\ ~Getting("blueprints")')
BY DEF Getting, Login, Tick

LEMMA RoundEnds ==
    QuitSeen => /\ ~Getting("blueprints") /\ ~Getting("systems")
                /\ ~Getting("blueprints")' /\ ~Getting("systems")'
BY DEF Getting, QuitSeen

LEMMA RoundProceeds ==
    Proceed => /\ answer' = NoAnswer
               /\ Getting("blueprints") \/ Getting("systems") => ~Getting("blueprints")'
               /\ Getting("systems") => ~Getting("systems")'
BY DEF Getting, Proceed

(* One lemma for each action, with one step for each part of the invariant. *)

LEMMA InventoryChangesKeeps ==
    ASSUME IInv, InventoryChanges
    PROVE  IInv'
<1> USE VersionAssumption DEF IInv, Versions, Cached, Nothing, InventoryChanges, readers
<1>1. TypeOK'
  BY DEF TypeOK
<1>2. CacheInv'
  BY RoundSame DEF TypeOK, CacheInv, NotOlder
<1>3. ReaderInv'
  BY RoundSame DEF TypeOK, CacheInv, ReaderInv, NotOlder
<1>4. BlueprintNotOlder'
  BY DEF TypeOK, ReaderInv, NotOlder, BlueprintNotOlder
<1>. QED  BY <1>1, <1>2, <1>3, <1>4

LEMMA SettleKeeps ==
    ASSUME IInv, Settle
    PROVE  IInv'
<1> USE VersionAssumption DEF IInv, Versions, Cached, Nothing, Settle, readers
<1>1. TypeOK'
  BY DEF TypeOK
<1>2. CacheInv'
  BY RoundSame DEF TypeOK, CacheInv, NotOlder
<1>3. ReaderInv'
  BY RoundSame DEF TypeOK, CacheInv, ReaderInv, NotOlder
<1>4. BlueprintNotOlder'
  BY DEF TypeOK, ReaderInv, NotOlder, BlueprintNotOlder
<1>. QED  BY <1>1, <1>2, <1>3, <1>4

LEMMA DCDAnswersKeeps ==
    ASSUME IInv, DCDAnswers
    PROVE  IInv'
<1> USE VersionAssumption DEF IInv, Versions, Cached, Nothing, DCDAnswers, dcd, readers
<1>1. TypeOK'
  BY DEF TypeOK
<1>2. CacheInv'
  BY RoundSame DEF TypeOK, CacheInv, NotOlder
<1>3. ReaderInv'
  BY RoundSame DEF TypeOK, CacheInv, ReaderInv, NotOlder
<1>4. BlueprintNotOlder'
  BY DEF TypeOK, ReaderInv, NotOlder, BlueprintNotOlder
<1>. QED  BY <1>1, <1>2, <1>3, <1>4

LEMMA LoginKeeps ==
    ASSUME IInv, Login
    PROVE  IInv'
<1>1. /\ ~Getting("blueprints") /\ ~Getting("systems") /\ ~Getting("systems")'
      /\ began' = now \/ (began' = began /\ ~Getting("blueprints")')
  BY RoundBegins
<1>2. answer' = NoAnswer /\ now' = now /\ blueprints' = blueprints /\ floor' = floor
  BY <1>1 DEF IInv, CacheInv, Login, dcd
<1>3. CacheInv'
  BY <1>1, <1>2, VersionAssumption
  DEF IInv, TypeOK, CacheInv, NotOlder, Versions, Cached, Nothing
<1> USE VersionAssumption DEF IInv, Versions, Cached, Nothing, Login, dcd, readers
<1>4. TypeOK'
  BY DEF TypeOK, Places
<1>5. ReaderInv'
  BY <1>1 DEF TypeOK, CacheInv, ReaderInv, NotOlder
<1>6. BlueprintNotOlder'
  BY DEF TypeOK, ReaderInv, NotOlder, BlueprintNotOlder
<1>. QED  BY <1>3, <1>4, <1>5, <1>6

LEMMA TickKeeps ==
    ASSUME IInv, Tick
    PROVE  IInv'
<1>1. /\ ~Getting("blueprints") /\ ~Getting("systems") /\ ~Getting("systems")'
      /\ began' = now \/ (began' = began /\ ~Getting("blueprints")')
  BY RoundBegins
<1>2. answer' = NoAnswer /\ now' = now /\ blueprints' = blueprints /\ floor' = floor
  BY <1>1 DEF IInv, CacheInv, Tick, dcd
<1>3. CacheInv'
  BY <1>1, <1>2, VersionAssumption
  DEF IInv, TypeOK, CacheInv, NotOlder, Versions, Cached, Nothing
<1> USE VersionAssumption DEF IInv, Versions, Cached, Nothing, Tick, dcd, readers
<1>4. TypeOK'
  BY DEF TypeOK, Places
<1>5. ReaderInv'
  BY <1>1 DEF TypeOK, CacheInv, ReaderInv, NotOlder
<1>6. BlueprintNotOlder'
  BY DEF TypeOK, ReaderInv, NotOlder, BlueprintNotOlder
<1>. QED  BY <1>3, <1>4, <1>5, <1>6

LEMMA QuitSeenKeeps ==
    ASSUME IInv, QuitSeen
    PROVE  IInv'
<1>0. /\ ~Getting("blueprints") /\ ~Getting("systems")
      /\ ~Getting("blueprints")' /\ ~Getting("systems")'
  BY RoundEnds
<1> USE VersionAssumption DEF IInv, Versions, Cached, Nothing, QuitSeen, dcd, readers
<1>1. TypeOK'
  BY DEF TypeOK, Places
<1>2. CacheInv'
  BY <1>0 DEF TypeOK, CacheInv, NotOlder
<1>3. ReaderInv'
  BY <1>0 DEF TypeOK, CacheInv, ReaderInv, NotOlder
<1>4. BlueprintNotOlder'
  BY DEF TypeOK, ReaderInv, NotOlder, BlueprintNotOlder
<1>. QED  BY <1>1, <1>2, <1>3, <1>4

LEMMA GetBlueprintsKeeps ==
    ASSUME IInv, GetBlueprints
    PROVE  IInv'
<1>0. Getting("blueprints") /\ answer' = NoAnswer /\ ~Getting("blueprints")'
  BY RoundProceeds DEF GetBlueprints
<1> USE VersionAssumption DEF IInv, Versions, Cached, Nothing, GetBlueprints, dcd, readers
<1>1. TypeOK'
  BY DEF TypeOK, Places, Proceed, Getting
<1>2. CacheInv'
  BY <1>0 DEF TypeOK, CacheInv, NotOlder
<1>3. ReaderInv'
  BY <1>0 DEF TypeOK, CacheInv, ReaderInv, NotOlder
<1>4. BlueprintNotOlder'
  BY DEF TypeOK, ReaderInv, NotOlder, BlueprintNotOlder
<1>. QED  BY <1>1, <1>2, <1>3, <1>4

LEMMA GetBlueprintsFailsKeeps ==
    ASSUME IInv, GetBlueprintsFails
    PROVE  IInv'
<1>0. Getting("blueprints") /\ answer' = NoAnswer /\ ~Getting("blueprints")'
  BY RoundProceeds DEF GetBlueprintsFails
<1> USE VersionAssumption DEF IInv, Versions, Cached, Nothing, GetBlueprintsFails, dcd, readers
<1>1. TypeOK'
  BY DEF TypeOK, Places, Proceed, Getting
<1>2. CacheInv'
  BY <1>0 DEF TypeOK, CacheInv, NotOlder
<1>3. ReaderInv'
  BY <1>0 DEF TypeOK, CacheInv, ReaderInv, NotOlder
<1>4. BlueprintNotOlder'
  BY DEF TypeOK, ReaderInv, NotOlder, BlueprintNotOlder
<1>. QED  BY <1>1, <1>2, <1>3, <1>4

LEMMA GetSystemsKeeps ==
    ASSUME IInv, GetSystems
    PROVE  IInv'
<1>0. Getting("systems") /\ answer' = NoAnswer /\ ~Getting("blueprints")' /\ ~Getting("systems")'
  BY RoundProceeds DEF GetSystems
<1> USE VersionAssumption DEF IInv, Versions, Cached, Nothing, GetSystems, dcd, readers
<1>1. TypeOK'
  BY DEF TypeOK, Places, Proceed, Getting
<1>2. CacheInv'
  BY <1>0 DEF TypeOK, CacheInv, NotOlder
<1>3. ReaderInv'
  BY <1>0 DEF TypeOK, CacheInv, ReaderInv, NotOlder
<1>4. BlueprintNotOlder'
  BY DEF TypeOK, ReaderInv, NotOlder, BlueprintNotOlder
<1>. QED  BY <1>1, <1>2, <1>3, <1>4

LEMMA GetSystemsFailsKeeps ==
    ASSUME IInv, GetSystemsFails
    PROVE  IInv'
<1>0. Getting("systems") /\ answer' = NoAnswer /\ ~Getting("blueprints")' /\ ~Getting("systems")'
  BY RoundProceeds DEF GetSystemsFails
<1> USE VersionAssumption DEF IInv, Versions, Cached, Nothing, GetSystemsFails, dcd, readers
<1>1. TypeOK'
  BY DEF TypeOK, Places, Proceed, Getting
<1>2. CacheInv'
  BY <1>0 DEF TypeOK, CacheInv, NotOlder
<1>3. ReaderInv'
  BY <1>0 DEF TypeOK, CacheInv, ReaderInv, NotOlder
<1>4. BlueprintNotOlder'
  BY DEF TypeOK, ReaderInv, NotOlder, BlueprintNotOlder
<1>. QED  BY <1>1, <1>2, <1>3, <1>4

LEMMA ExitKeeps ==
    ASSUME IInv, Exit
    PROVE  IInv'
<1> USE VersionAssumption DEF IInv, Versions, Cached, Nothing, Exit, dcd, readers
<1>1. TypeOK'
  BY DEF TypeOK
<1>2. CacheInv'
  BY RoundSame DEF TypeOK, CacheInv, NotOlder
<1>3. ReaderInv'
  BY RoundSame DEF TypeOK, CacheInv, ReaderInv, NotOlder
<1>4. BlueprintNotOlder'
  BY DEF TypeOK, ReaderInv, NotOlder, BlueprintNotOlder
<1>. QED  BY <1>1, <1>2, <1>3, <1>4

LEMMA FindSystemKeeps ==
    ASSUME IInv, NEW r \in Readers, FindSystem(r)
    PROVE  IInv'
<1> USE VersionAssumption DEF IInv, Versions, Cached, Nothing, FindSystem, dcd, readers
<1>1. TypeOK'
  BY DEF TypeOK
<1>2. CacheInv'
  BY RoundSame DEF TypeOK, CacheInv, NotOlder
<1>3. ReaderInv'
  BY RoundSame DEF TypeOK, CacheInv, ReaderInv, NotOlder
<1>4. BlueprintNotOlder'
  BY DEF TypeOK, ReaderInv, NotOlder, BlueprintNotOlder
<1>. QED  BY <1>1, <1>2, <1>3, <1>4

LEMMA FindBlueprintKeeps ==
    ASSUME IInv, NEW r \in Readers, FindBlueprint(r)
    PROVE  IInv'
<1> USE VersionAssumption DEF IInv, Versions, Cached, Nothing, FindBlueprint, dcd, readers
<1>1. TypeOK'
  BY DEF TypeOK
<1>2. CacheInv'
  BY RoundSame DEF TypeOK, CacheInv, NotOlder
<1>3. ReaderInv'
  BY RoundSame DEF TypeOK, CacheInv, ReaderInv, NotOlder
<1>4. BlueprintNotOlder'
  BY DEF TypeOK, ReaderInv, NotOlder, BlueprintNotOlder
<1>. QED  BY <1>1, <1>2, <1>3, <1>4

LEMMA DoneKeeps ==
    ASSUME IInv, NEW r \in Readers, Done(r)
    PROVE  IInv'
<1> USE VersionAssumption DEF IInv, Versions, Cached, Nothing, Done, dcd, readers
<1>1. TypeOK'
  BY DEF TypeOK
<1>2. CacheInv'
  BY RoundSame DEF TypeOK, CacheInv, NotOlder
<1>3. ReaderInv'
  BY RoundSame DEF TypeOK, CacheInv, ReaderInv, NotOlder
<1>4. BlueprintNotOlder'
  BY DEF TypeOK, ReaderInv, NotOlder, BlueprintNotOlder
<1>. QED  BY <1>1, <1>2, <1>3, <1>4

LEMMA StepKeeps == IInv /\ [Next]_vars => IInv'
<1> SUFFICES ASSUME IInv, [Next]_vars
             PROVE  IInv'
    OBVIOUS
<1>1. CASE Refresher
  BY <1>1, LoginKeeps, TickKeeps, QuitSeenKeeps, GetBlueprintsKeeps, GetBlueprintsFailsKeeps,
     GetSystemsKeeps, GetSystemsFailsKeeps DEF Refresher
<1>2. ASSUME NEW r \in Readers, GetTags(r)
      PROVE  IInv'
  BY <1>2, FindSystemKeeps, FindBlueprintKeeps, DoneKeeps DEF GetTags
<1>3. CASE UNCHANGED vars
  BY <1>3 DEF vars, dcd, IInv, TypeOK, CacheInv, ReaderInv, BlueprintNotOlder, NotOlder, Getting
<1>. QED  BY <1>1, <1>2, <1>3, InventoryChangesKeeps, SettleKeeps, DCDAnswersKeeps,
           ExitKeeps DEF Next

(* The caches are not older than the rounds they come from, and neither is what a *)
(* reader can still find.                                                         *)
THEOREM Inductive == Spec => []IInv
<1>. QED  BY InitInv, StepKeeps, PTL DEF Spec

(* Only states of the inventory that there were are cached and answered. *)
THEOREM TypesHold == Spec => []TypeOK
<1>1. IInv => TypeOK
  BY DEF IInv
<1>. QED  BY Inductive, <1>1, PTL

(* GetTags never names a blueprint as it was before the round that fetched the   *)
(* system it names, wherever a refresh falls between its two lookups.            *)
THEOREM BlueprintNotOlderHolds == Spec => []BlueprintNotOlder
<1>1. IInv => BlueprintNotOlder
  BY DEF IInv
<1>. QED  BY Inductive, <1>1, PTL
=============================================================================

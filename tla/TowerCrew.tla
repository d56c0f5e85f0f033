----------------------------- MODULE TowerCrew -----------------------------
(***************************************************************************)
(* modules/tower/store.ts, identity.ts and tools.ts: the roster, whether   *)
(* its members are who they say they are, and the guard mirror, the file   *)
(* by which the write hook knows the registered worktrees.                 *)
(*                                                                         *)
(* A member is spawned (a pending entry), registered with its engine id,   *)
(* verified against the fold of the debate hosts' logs (StatusStream), and *)
(* verified again by every status read.  Spawn and register rebuild the    *)
(* mirror in two turns: load the roster, rename a new file into place.     *)
(* The tower may have several tool calls open at a time, and the server    *)
(* may be killed between any two turns.  How often a look has failed is    *)
(* counted and shown, and decides nothing; it is left out.                 *)
(*                                                                         *)
(* The fold lags, may be stale and forgets: at each look it shows what it  *)
(* likes of an agent.  A wire may name no parent yet, or the parent of     *)
(* before a restart of the tower, and the tower's list of subagents fills  *)
(* one by one; but neither channel makes the tower the parent of an agent  *)
(* it did not start.                                                       *)
(*                                                                         *)
(* A definition X_Y is X as a plausible bug would have it.                 *)
(***************************************************************************)
EXTENDS Naturals

CONSTANTS
  Names, Slug,    (* the names a spawn may give; their review slugs        *)
  Agents,         (* the engine ids a register may give                    *)
  Children,       (* those the tower has started                           *)
  None,
  Calls           (* tool calls the tower has open at a time               *)

VARIABLES
  booted,
  roster,     (* a name's entry, or None                                   *)
  mirror,     (* .tower-guard.json: the members it shows                   *)
  call,       (* where a call is, whose entry it is about; the members it  *)
              (* loaded, whether some are known to be missing, and the     *)
              (* open calls that loaded before it                          *)
  behind      (* a mirror was not written or not deleted, or is an old one *)
              (* renamed over a newer one                                  *)

vars == <<booted, roster, mirror, call, behind>>

(* checked: the entry has been verified since its id was given.            *)
Pending == [agent |-> None, verified |-> FALSE, checked |-> TRUE]

Idle == [at |-> "idle", name |-> None, shows |-> {}, short |-> FALSE, earlier |-> {}]

Empty == [n \in Names |-> None]

Init ==
  /\ booted = FALSE /\ roster = Empty /\ mirror = {}
  /\ call = [c \in Calls |-> Idle]
  /\ behind = FALSE

Members == {n \in Names : roster[n] # None}

Boot ==
  /\ ~booted /\ booted' = TRUE
  /\ UNCHANGED <<roster, mirror, call, behind>>

(* ---------------------------------------------------------------------- *)
(* The fold, and the verdict on an entry                                   *)

(* What the fold may show of an agent, and of the tower's subagents; of an *)
(* entry that is pending it knows nothing.                                 *)
Views(a) ==
  { v \in [known : BOOLEAN, parent : {"none", "tower", "other"}, home : BOOLEAN,
           listed : SUBSET Children] :
      /\ a = None => ~v.known
      /\ ~v.known => v.parent = "none" /\ ~v.home
      /\ v.parent = "tower" => a \in Children }

Confirmed_AnyList(v, a) == v.parent = "tower" \/ v.listed # {}
(* checkParentChild: one channel that confirms is enough.                  *)
Confirmed(v, a) == v.parent = "tower" \/ a \in v.listed

Verified(v, a) == v.known /\ Confirmed(v, a) /\ v.home

(* verifyAgentIdentity, one turn that reads the fold and writes the entry. *)
Look(n) ==
  \E v \in Views(roster[n].agent) :
    roster' = [roster EXCEPT ![n].verified = Verified(v, roster[n].agent), ![n].checked = TRUE]

(* A status read looks at every member.                                    *)
Recheck(n) ==
  /\ n \in Members /\ Look(n)
  /\ UNCHANGED <<booted, mirror, call, behind>>

(* ---------------------------------------------------------------------- *)
(* Spawn                                                                   *)

(* No call is opened while the tower tears down, nor the other way round.  *)
MayCall(c) == booted /\ call[c] = Idle /\ \A d \in Calls : call[d].at # "clear"

(* assertNameAvailable: the same name has the same slug.                   *)
Available(n) == \A k \in Members : Slug[k] # Slug[n]

(* The preflight; then the worktree and the mission, which TowerPlan has.  *)
AskSpawn(c, n) ==
  /\ MayCall(c) /\ Available(n)
  /\ call' = [call EXCEPT ![c] = [Idle EXCEPT !.at = "enlist", !.name = n]]
  /\ UNCHANGED <<booted, roster, mirror, behind>>

MayEnlist_Preflighted(n) == TRUE
(* registerAgent asks again, in the turn that writes: others may have      *)
(* spawned since.                                                          *)
MayEnlist(n) == Available(n)

Enlist(c) ==
  LET n == call[c].name IN
  /\ call[c].at = "enlist"
  /\ IF MayEnlist(n)
     THEN /\ roster' = [roster EXCEPT ![n] = Pending]
          /\ call' = [call EXCEPT ![c].at = "load"]
     ELSE call' = [call EXCEPT ![c] = Idle] /\ UNCHANGED roster
  /\ UNCHANGED <<booted, mirror, behind>>

(* ---------------------------------------------------------------------- *)
(* Register                                                                *)

(* updateRosterAgentId: the verdict on the id it replaces stays.           *)
Register(c, n, a) ==
  /\ MayCall(c) /\ n \in Members
  /\ roster' = [roster EXCEPT ![n].agent = a, ![n].checked = FALSE]
  /\ call' = [call EXCEPT ![c] = [Idle EXCEPT !.at = "verify", !.name = n]]
  /\ UNCHANGED <<booted, mirror, behind>>

Verify(c) ==
  /\ call[c].at = "verify"
  /\ Look(call[c].name)
  /\ call' = [call EXCEPT ![c].at = "load"]
  /\ UNCHANGED <<booted, mirror, behind>>

(* ---------------------------------------------------------------------- *)
(* syncGuardMirror                                                         *)

Shown == {<<n, roster[n].agent>> : n \in Members}

Load_BeforeEnlisting(c) == {s \in Shown : s[1] # call[c].name}
Load(c) == Shown

Loaded == {d \in Calls : call[d].at = "rename"}

LoadRoster(c) ==
  /\ call[c].at = "load"
  /\ call' = [call EXCEPT ![c] = [@ EXCEPT !.at = "rename", !.shows = Load(c), !.earlier = Loaded]]
  /\ UNCHANGED <<booted, roster, mirror, behind>>

Others(c, short) ==
  [d \in Calls |-> IF d = c THEN Idle
                   ELSE [call[d] EXCEPT !.short = @ \/ d \in short, !.earlier = @ \ {c}]]

(* The new file is renamed into place, whatever has been written since the *)
(* load: what was loaded before it is out of date when it comes after it.  *)
(* Or it cannot be written, and the tower is told to register again.       *)
Publish(c) ==
  /\ call[c].at = "rename"
  /\ \/ mirror' = call[c].shows /\ behind' = call[c].short /\ call' = Others(c, call[c].earlier)
     \/ mirror' = mirror /\ behind' = TRUE /\ call' = Others(c, Loaded)
  /\ UNCHANGED <<booted, roster>>

(* ---------------------------------------------------------------------- *)
(* Teardown, and the end of the server                                     *)

(* After the worktrees (TowerPlan): the mirror first, then the namespace.  *)
(* A mirror that cannot be deleted stays, and the teardown goes on.        *)
DeleteMirror(c) ==
  /\ booted /\ \A d \in Calls : call[d] = Idle
  /\ \/ mirror' = {} /\ behind' = FALSE
     \/ mirror' = mirror /\ behind' = TRUE
  /\ call' = [call EXCEPT ![c].at = "clear"]
  /\ UNCHANGED <<booted, roster>>

Clear(c) ==
  /\ call[c].at = "clear"
  /\ booted' = FALSE /\ roster' = Empty
  /\ call' = [call EXCEPT ![c] = Idle]
  /\ UNCHANGED <<mirror, behind>>

Crash ==
  /\ \E c \in Calls : call[c] # Idle
  /\ call' = [c \in Calls |-> Idle] /\ behind' = TRUE
  /\ UNCHANGED <<booted, roster, mirror>>

(* ---------------------------------------------------------------------- *)

CallStep(c) ==
  \/ Enlist(c) \/ Verify(c) \/ LoadRoster(c) \/ Publish(c) \/ DeleteMirror(c) \/ Clear(c)
  \/ \E n \in Names : AskSpawn(c, n) \/ \E a \in Agents : Register(c, n, a)

Next ==
  \/ Boot \/ Crash
  \/ \E n \in Names : Recheck(n)
  \/ \E c \in Calls : CallStep(c)

Spec == Init /\ [][Next]_vars

(* ---------------------------------------------------------------------- *)
(* Properties                                                              *)

(* assertNameAvailable: no two members share a slug, which would let one   *)
(* overwrite the other's reviews, however many spawns are under way.       *)
NamesDistinct == \A n, k \in Members : n # k => Slug[n] # Slug[k]

(* syncGuardMirror: when no call is open the mirror shows the roster, its  *)
(* ids included, unless a write or the teardown's deletion failed, the     *)
(* server died in a call or an older mirror was renamed over a newer one.  *)
MirrorIsCurrent == (\A c \in Calls : call[c] = Idle) /\ ~behind => mirror = Shown

(* verifyAgentIdentity: whatever the fold knows and forgets, a member that *)
(* is verified is one the tower started, once the id it has was looked at. *)
VerifiedIsChild ==
  \A n \in Members : roster[n].verified /\ roster[n].checked => roster[n].agent \in Children
=============================================================================

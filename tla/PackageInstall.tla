--------------------------- MODULE PackageInstall ---------------------------
(***************************************************************************)
(* One installation directory of eef or eefn: the version pointers that    *)
(* choose which bundle the next launch runs, and everything that moves     *)
(* them: feed and explicit updates, verified same-version repairs with     *)
(* their durable receipts, and rollback.  Every mutation of the pointers   *)
(* holds .update.lock; the process may end between any two writes.         *)
(* RepairSetup models the policy that may start a repair by itself.        *)
(*                                                                         *)
(* A bundle directory is a slot [version, name]: name Root is the flat     *)
(* installation, Plain is versions/<v>, and a repair identity k stands for *)
(* versions/<v>.repair-k.  Version 0 stands for an absent pointer file.    *)
(***************************************************************************)
EXTENDS Naturals, FiniteSets

CONSTANTS MaxVersion,   \* versions are 1..MaxVersion, ordered as is_newer does
          RootVersion,  \* the version the flat installation was made with
          Prereleases,  \* the versions a feed may never install
          MaxOperations, \* bound on the updates, repairs, rollbacks and restarts
          Ids,          \* repair identities an owner or coordinator submits
          Root, Plain, None

VARIABLES current,    \* current.txt
          previous,   \* previous.txt
          gens,       \* per version, the bundle selection file
          bundles,    \* the complete bundle directories on disk
          running,    \* the slot this process runs from
          remote,     \* permissions.remote_updates
          op,         \* the holder of .update.lock
          receipts,   \* .package-repair-receipts.json
          operations  \* how many operations and restarts there have been

pointers == <<current, previous, gens, bundles>>
vars == <<pointers, running, remote, op, receipts, operations>>

Versions == 1..MaxVersion
Slots == [version : Versions, name : {Root, Plain} \cup Ids]
Slot(v, n) == [version |-> v, name |-> n]
RootSlot == Slot(RootVersion, Root)

Count == operations < MaxOperations /\ operations' = operations + 1

(***************************************************************************)
(* Pointers                                                                *)
(***************************************************************************)

\* bundle_selection::selected_directory
SelectedSlot(v) == Slot(v, IF gens[v] # None THEN gens[v].slot ELSE Plain)

\* bundle_selection::pending_executable: a restart would start another bundle.
Pending ==
    /\ current # 0
    /\ ~(current = running.version /\ gens[current] = None)
    /\ SelectedSlot(current) # running

\* install_request and repair_sources::running refuse while a package is pending.
Settled == current \in {0, running.version} /\ ~Pending

\* selected_handoff_command: an executable launched from a slot stays there or
\* hands off to the selection.
Launched(slot) ==
    IF current = 0 \/ (current = slot.version /\ gens[current] = None)
    THEN slot
    ELSE SelectedSlot(current)

(***************************************************************************)
(* Updates.  A stage names the last thing done; `authorized` and later     *)
(* stages hold the caller's authorization guard.                           *)
(***************************************************************************)
Guarded == {"authorized", "staging", "renamed", "staged", "selecting",
            "generation", "pointer", "previous"}

Holding(owner) == op # None /\ op.owner = owner /\ op.stage \in Guarded

\* is_newer: versions are totally ordered.
is_newer(v, w) == v > w

\* apply_for rechecks the manifest it installs: no prerelease through a feed.
FeedOffers(v) == v \notin Prereleases

\* updater::check, which the update services of both programs ask first.
UpdateAvailable(v) == FeedOffers(v) /\ is_newer(v, running.version)

\* A service's automatic or requested update asks `check` first; the node.update
\* command of a coordinator goes to apply_for; an explicit update names its
\* version, needs the permission and refuses while another update is pending.
Asked(v, owner) ==
    /\ owner = "service" => UpdateAvailable(v)
    /\ owner = "feed" => FeedOffers(v)
    /\ owner = "remote" => /\ remote
                           /\ is_newer(v, running.version)
                           /\ current \in {0, running.version}

UpdateAllowed(v) ==
    /\ current # 0 /\ gens[current] # None => ~Pending
    /\ Slot(v, Plain) \notin bundles /\ gens[v] = None
    /\ is_newer(v, current)

\* apply_for and apply_explicit_for up to the download.
UpdateBegin(v, owner) ==
    /\ op = None
    /\ Asked(v, owner) /\ UpdateAllowed(v)
    /\ op' = [kind |-> "update", owner |-> owner, version |-> v, id |-> None,
              stage |-> "downloading", selected |-> current, defect |-> "none"]
    /\ Count
    /\ UNCHANGED <<pointers, running, remote, receipts>>

\* Variant: the permission checked before the download is enough.
AuthorizedBefore(o) == TRUE

\* What the authorization closure of the operation's caller checks.
Authorized(o) == o.owner = "remote" => remote

\* What may be wrong with the bytes that arrive, one thing at a time.
Defects == {"none", "size", "digest", "paths", "binary", "metadata", "build", "inventory"}

\* fetch_with_policy and the size check: exactly the declared size arrives.
SizeMatches(defect) == defect # "size"

DigestMatches(defect) == defect # "digest"

\* extract_zip: every entry stays inside the staging directory, within bounds.
PathsSafe(defect) == defect # "paths"

\* find_binary: the program's executable is in the package.
HasBinary(defect) == defect # "binary"

\* verify_inventory: every required file is listed, present and as listed.
InventoryComplete(defect) == defect # "inventory"

\* The metadata of a feed package is not compared with the manifest; only a
\* repair must carry the running executable and a complete inventory.
Accepts(o, defect) ==
    /\ SizeMatches(defect) /\ DigestMatches(defect) /\ PathsSafe(defect) /\ HasBinary(defect)
    /\ o.owner \in {"feed", "service"} \/ defect # "metadata"
    /\ o.kind = "repair" => defect # "build" /\ InventoryComplete(defect)

\* The package arrived and passed its checks; the guard is taken.
Verified ==
    /\ op # None
    /\ \/ op.kind = "update" /\ op.stage = "downloading"
       \/ op.kind = "repair" /\ op.stage = "verifying"
    /\ Authorized(op)
    /\ \E defect \in Defects :
         /\ Accepts(op, defect)
         /\ op' = [op EXCEPT !.stage = "authorized", !.defect = defect]
    /\ UNCHANGED <<pointers, running, remote, receipts, operations>>

\* A renamed staging directory counts as a bundle when a launch finds its program.
Placed(name) ==
    bundles' = IF HasBinary(op.defect) THEN bundles \cup {Slot(op.version, name)} ELSE bundles

\* Variant: the pointer is switched before the directory is in place.
UpdateRenameLast ==
    /\ op # None /\ op.kind = "update" /\ op.stage = "authorized"
    /\ current' = op.version
    /\ op' = [op EXCEPT !.stage = "renamed"]
    /\ UNCHANGED <<previous, gens, bundles, running, remote, receipts, operations>>

\* fs::rename of the staging directory, then previous.txt, then current.txt.
UpdateRename ==
    /\ op # None /\ op.kind = "update" /\ op.stage = "authorized"
    /\ Placed(Plain)
    /\ op' = [op EXCEPT !.stage = "renamed"]
    /\ UNCHANGED <<current, previous, gens, running, remote, receipts, operations>>

UpdatePrevious ==
    /\ op # None /\ op.kind = "update" /\ op.stage = "renamed"
    /\ previous' = op.selected
    /\ op' = [op EXCEPT !.stage = "previous"]
    /\ UNCHANGED <<current, gens, bundles, running, remote, receipts, operations>>

UpdateCurrent ==
    /\ op # None /\ op.kind = "update" /\ op.stage = "previous"
    /\ current' = op.version
    /\ op' = None
    /\ UNCHANGED <<previous, gens, bundles, running, remote, receipts, operations>>

UpdateFails ==
    /\ op # None /\ op.kind = "update"
    /\ op' = None
    /\ UNCHANGED <<pointers, running, remote, receipts, operations>>

\* rollback_for: a repaired version first returns to the slot it replaced.
Rollback ==
    /\ op = None
    /\ \/ /\ current # 0 /\ gens[current] # None /\ gens[current].previous # None
          /\ Slot(current, gens[current].previous) \in bundles
          /\ gens' = [gens EXCEPT ![current] =
                        [slot |-> @.previous, previous |-> None]]
          /\ UNCHANGED current
       \/ /\ current # 0 /\ gens[current] # None => gens[current].previous = None
          /\ previous # 0
          /\ SelectedSlot(previous) \in bundles
          /\ current' = previous
          /\ UNCHANGED gens
    /\ Count
    /\ UNCHANGED <<previous, bundles, running, remote, op, receipts>>

(***************************************************************************)
(* Verified repair and its receipts                                        *)
(***************************************************************************)
Steps == <<"admitted", "downloading", "verifying", "staging", "staged", "selecting", "selected">>
Ordinal(step) == CHOOSE n \in 1..7 : Steps[n] = step
Receipt(by) == [step |-> "admitted", outcome |-> "in_progress", by |-> by]
Leased(id) == op # None /\ op.id = id

\* Variant: an attempt that did not select may be admitted again.
AdmissibleAgain(id) == receipts[id] # None => receipts[id].outcome # "selected"

\* Attempt::begin: an identity is admitted once, whatever became of it.
Admissible(id) == receipts[id] = None

\* install_request up to the durable admission
Begin(id, owner) ==
    /\ op = None
    /\ Settled
    /\ Slot(running.version, id) \notin bundles
    /\ Admissible(id)
    /\ receipts' = [receipts EXCEPT ![id] = Receipt(owner)]
    /\ op' = [kind |-> "repair", owner |-> owner, version |-> running.version, id |-> id,
              stage |-> "admitted", selected |-> current, defect |-> "none"]

\* An owner's or a permitted coordinator's exact request, submitted at any
\* time and any number of times.
RepairBegin(id, owner) ==
    /\ owner = "remote" => remote
    /\ Begin(id, owner)
    /\ Count
    /\ UNCHANGED <<pointers, running, remote>>

\* Attempt::step: the next ordinal is made durable, before its effect.
Follow == [admitted |-> "downloading", downloading |-> "verifying", authorized |-> "staging",
           renamed |-> "staged", staged |-> "selecting"]

Journal ==
    /\ op # None /\ op.kind = "repair" /\ op.stage \in DOMAIN Follow
    /\ op' = [op EXCEPT !.stage = Follow[op.stage]]
    /\ receipts' = [receipts EXCEPT ![op.id].step = Follow[op.stage]]
    /\ UNCHANGED <<pointers, running, remote, operations>>

\* The directory is renamed after the step that says it may be staged.
Stage ==
    /\ op # None /\ op.kind = "repair" /\ op.stage = "staging"
    /\ Placed(op.id)
    /\ op' = [op EXCEPT !.stage = "renamed"]
    /\ UNCHANGED <<current, previous, gens, running, remote, receipts, operations>>

\* Variant: the generation is written before the step that announces it.
SelectBeforeStep ==
    /\ op # None /\ op.kind = "repair" /\ op.stage = "staged"
    /\ gens' = [gens EXCEPT ![op.version] = [slot |-> op.id, previous |-> running.name]]
    /\ op' = [op EXCEPT !.stage = "generation"]
    /\ UNCHANGED <<current, previous, bundles, running, remote, receipts, operations>>

\* bundle_selection::write
SelectGeneration ==
    /\ op # None /\ op.kind = "repair" /\ op.stage = "selecting"
    /\ gens' = [gens EXCEPT ![op.version] = [slot |-> op.id, previous |-> running.name]]
    /\ op' = [op EXCEPT !.stage = "generation"]
    /\ UNCHANGED <<current, previous, bundles, running, remote, receipts, operations>>

\* A flat first installation gets its version pointer after the generation.
SelectPointer ==
    /\ op # None /\ op.kind = "repair" /\ op.stage = "generation"
    /\ current' = IF op.selected = 0 THEN op.version ELSE current
    /\ op' = [op EXCEPT !.stage = "pointer"]
    /\ UNCHANGED <<previous, gens, bundles, running, remote, receipts, operations>>

RepairSelected ==
    /\ op # None /\ op.kind = "repair" /\ op.stage = "pointer"
    /\ receipts' = [receipts EXCEPT ![op.id].step = "selected", ![op.id].outcome = "selected"]
    /\ op' = None
    /\ UNCHANGED <<pointers, running, remote, operations>>

\* Any error on the way: `failed` is recorded if the journal can be written.
RepairFails ==
    /\ op # None /\ op.kind = "repair"
    /\ \E outcome \in {"failed", "in_progress"} :
         receipts' = [receipts EXCEPT ![op.id].outcome = outcome]
    /\ op' = None
    /\ UNCHANGED <<pointers, running, remote, operations>>

(***************************************************************************)
(* The machine around it                                                   *)
(***************************************************************************)
\* The permission is saved under the configuration lock the guard holds.
SetRemote ==
    /\ ~Holding("remote")
    /\ remote => op # None /\ op.owner = "remote"
    /\ remote' = ~remote
    /\ UNCHANGED <<pointers, running, op, receipts, operations>>

\* The process ends, by a crash or a requested restart, at any point, and is
\* launched again, from the root executable or from the one that was running;
\* nothing that was in progress is resumed.
Restart ==
    /\ \E slot \in {RootSlot, running} :
         /\ Launched(slot) \in bundles
         /\ running' = Launched(slot)
    /\ op' = None
    /\ Count
    /\ UNCHANGED <<pointers, remote, receipts>>

Init ==
    /\ current = 0 /\ previous = 0
    /\ gens = [v \in Versions |-> None]
    /\ bundles = {RootSlot}
    /\ running = RootSlot
    /\ remote = TRUE
    /\ op = None
    /\ receipts = [id \in Ids |-> None]
    /\ operations = 0

Next ==
    \/ \E v \in Versions, owner \in {"service", "feed", "remote"} : UpdateBegin(v, owner)
    \/ Verified \/ UpdateRename \/ UpdatePrevious \/ UpdateCurrent \/ UpdateFails
    \/ Rollback
    \/ \E id \in Ids, owner \in {"owner", "remote"} : RepairBegin(id, owner)
    \/ Journal \/ Stage \/ SelectGeneration \/ SelectPointer \/ RepairSelected \/ RepairFails
    \/ SetRemote \/ Restart

Spec == Init /\ [][Next]_vars

(***************************************************************************)
(* Properties                                                              *)
(***************************************************************************)

\* The bundle the pointers select is always complete on disk, so that a launch
\* after a crash between any two writes of install_manifest, install_request
\* or rollback_for starts a whole program; what previous.txt and a repair's
\* previous slot name is complete too, so a rollback has somewhere to go.
SelectionComplete ==
    /\ Launched(RootSlot) \in bundles /\ Launched(running) \in bundles
    /\ current # 0 => SelectedSlot(current) \in bundles
    /\ \A v \in Versions : gens[v] # None =>
          /\ Slot(v, gens[v].slot) \in bundles
          /\ gens[v].previous # None => Slot(v, gens[v].previous) \in bundles

\* Repair receipts never understate: a repair directory exists only once its
\* receipt says it may be staged, a generation only once it says selection
\* began, and a receipt that reports a selection is right about the disk.
ReceiptsHonest ==
    /\ \A id \in Ids, v \in Versions :
         /\ Slot(v, id) \in bundles =>
               receipts[id] # None /\ Ordinal(receipts[id].step) >= Ordinal("staging")
         /\ gens[v] # None /\ gens[v].slot = id =>
               Ordinal(receipts[id].step) >= Ordinal("selecting")
    /\ \A id \in Ids : receipts[id] # None /\ receipts[id].outcome = "selected" =>
         \E v \in Versions : Slot(v, id) \in bundles

\* An admitted repair identity is never run again: once its lease is released,
\* by success, failure, interruption or a crash, its receipt never changes.
AdmittedOnce ==
    \A id \in Ids : receipts[id] # None /\ ~Leased(id) => receipts'[id] = receipts[id]

\* Consent holds at the moment of publication: a remote operation moves a
\* pointer only while remote updates are allowed, and a feed never selects a
\* prerelease.
Consented ==
    op # None /\ <<current, gens>>' # <<current, gens>> =>
        /\ op.owner = "remote" => remote
        /\ op.owner \in {"feed", "service"} => current' \notin Prereleases
=============================================================================

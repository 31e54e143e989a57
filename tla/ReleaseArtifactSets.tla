------------------------- MODULE ReleaseArtifactSets -------------------------
(***************************************************************************)
(* scripts/release_artifact_set.py and its command line: the updater set,  *)
(* the DMG set and the distribution set that joins them are each sealed in *)
(* a staging directory and renamed to a fixed path.  A seal names what it  *)
(* covers by digest; here a digest is the application, the verifier inputs *)
(* or the evidence it identifies.  While a command runs, other programs    *)
(* may rebuild the candidate, authorise it again, change the verifier's    *)
(* sources or collect the evidence anew, any number of times and between   *)
(* any two reads of a command.  A command is the sequence of steps it      *)
(* still has to take.                                                      *)
(***************************************************************************)
EXTENDS Naturals, Sequences

CONSTANTS Candidates,      \* how many different candidates are built
          MaxSetsFaults    \* failing calls, interrupts, crashes and losses of power

ASSUME ReleaseArtifactSetsAssumption == Candidates \in Nat \ {0} /\ MaxSetsFaults \in Nat

\* Numbered in the order of their first build.
Apps == 1..Candidates
Inputs == 1..2
Some(S) == S \cup {0}

VARIABLES world,    \* the candidate, its prepackage stage, the verifier inputs, the evidence
          staged,   \* the updater staging directory
          updater,  \* the published updater set
          dmgSet,      \* the DMG set, sealed in the DMG transaction's final-set
          stage,    \* the distribution staging directory
          dist,     \* the published distribution set
          cmd,
          returned, \* history: an earlier candidate was put back
          setsFaults
setsVars == <<world, staged, updater, dmgSet, stage, dist, cmd, returned, setsFaults>>

-----------------------------------------------------------------------------
(* What the directories hold.                                              *)

\* The verifier's receipt: the archive whose signature it accepted, and the
\* inputs the verifier was built from.
NoReceipt == [archive |-> 0, inputs |-> 0]
NoUpdaterSeal == [archive |-> 0, signature |-> 0, receipt |-> NoReceipt, app |-> 0, pre |-> 0, inputs |-> 0]
\* The archive holds an application; the signature is that of an archive.
\* synced: the tree, and its name, is on disk.
NoUpdater == [there |-> FALSE, archive |-> 0, signature |-> 0, receipt |-> NoReceipt, seal |-> NoUpdaterSeal,
              synced |-> FALSE, named |-> FALSE]
NoDmgSeal == [image |-> 0, app |-> 0, pre |-> 0]
NoDmg == [there |-> FALSE, image |-> 0, pre |-> 0, seal |-> NoDmgSeal, placed |-> FALSE]
NoDistSeal == [bundle |-> 0, gatekeeper |-> 0, app |-> 0, updater |-> NoUpdaterSeal, dmg |-> NoDmgSeal, evidence |-> 0]
NoDist == [there |-> FALSE, bundle |-> 0, gatekeeper |-> 0, seal |-> NoDistSeal, synced |-> FALSE, named |-> FALSE]

UpdaterSeals == [archive : Some(Apps), signature : Some(Apps), receipt : [archive : Some(Apps), inputs : Some(Inputs)],
                 app : Some(Apps), pre : Some(Apps), inputs : Some(Inputs)]
DmgSeals == [image : Some(Apps), app : Some(Apps), pre : Some(Apps)]
UpdaterSets == [there : BOOLEAN, archive : Some(Apps), signature : Some(Apps),
                receipt : [archive : Some(Apps), inputs : Some(Inputs)], seal : UpdaterSeals,
                synced : BOOLEAN, named : BOOLEAN]
DistSets == [there : BOOLEAN, bundle : Some(Apps), gatekeeper : Some(Apps),
             seal : [bundle : Some(Apps), gatekeeper : Some(Apps), app : Some(Apps), updater : UpdaterSeals,
                     dmg : DmgSeals, evidence : Some(Apps)],
             synced : BOOLEAN, named : BOOLEAN]

Commands == {"seal-updater", "seal-dmg", "seal-release", "verify-release"}
Outcomes == {"none", "ok", "failed", "unremoved", "unknown"}
\* session: the verifier inputs the command's session was opened on; existed: the
\* set was there at the start, orphan: a staging directory was; seen, pre, app, evidence: what its running step has read.
IdleCommand == [op |-> "none", todo |-> <<>>, session |-> 0, existed |-> FALSE, orphan |-> FALSE, pre |-> 0,
         seen |-> NoUpdater, app |-> 0, evidence |-> 0, outcome |-> "none"]

SetsTypeOK ==
    /\ world \in [app : Apps, pre : Some(Apps), inputs : Inputs, evidence : Some(Apps)]
    /\ staged \in UpdaterSets /\ updater \in UpdaterSets /\ stage \in DistSets /\ dist \in DistSets
    /\ dmgSet \in [there : BOOLEAN, image : Some(Apps), pre : Some(Apps), seal : DmgSeals, placed : BOOLEAN]
    /\ cmd.op \in Commands \cup {"none"} /\ cmd.outcome \in Outcomes /\ cmd.session \in Some(Inputs)
    /\ {cmd.pre, cmd.app, cmd.evidence} \subseteq Some(Apps)
    /\ returned \in BOOLEAN /\ setsFaults \in 0..MaxSetsFaults

SetsInit ==
    /\ world = [app |-> 1, pre |-> 1, inputs |-> 1, evidence |-> 1]
    /\ staged = NoUpdater /\ updater = NoUpdater /\ dmgSet = NoDmg /\ stage = NoDist /\ dist = NoDist
    /\ cmd = IdleCommand /\ returned = FALSE /\ setsFaults = 0

-----------------------------------------------------------------------------
(* The commands as the steps they consist of.                              *)

VerifyUpdater(d) == << <<"inspect", d>>, <<"replay", d>>, <<"prove", d>>, <<"reprove", d>>, <<"rebind", d>> >>
VerifyDmg == << <<"inspectDmg", "dmg">>, <<"proveDmg", "dmg">>, <<"reproveDmg", "dmg">>, <<"reopenDmg", "dmg">> >>
\* The slow closure, between two looks at the sets.
Authorized(d, before, after) ==
    << <<before, d>>, <<"closure", d>>, <<"authorize", d>>, <<"closed", d>>, <<after, d>> >>
VerifyDistribution(d) ==
    << <<"inspectDist", d>> >> \o VerifyUpdater("updater") \o VerifyDmg
        \o Authorized(d, "join", "recheck")
Verify(op, d) == IF op = "seal-updater" THEN VerifyUpdater(d) ELSE VerifyDistribution(d)
Close == << <<"close", "-">> >>
Confirmed(op, d) == Verify(op, d) \o << <<"confirm", d>> >> \o Verify(op, d) \o Close
Publishing(op, from, to) ==
    Verify(op, from) \o << <<"sync", from>>, <<"publish", to>>, <<"confirm", to>> >> \o Verify(op, to) \o Close

SealUpdater ==
    IF updater.there THEN Confirmed("seal-updater", "updater")
    ELSE << <<"reset", "staged">>, <<"produce", "staged">>, <<"record", "staged">>, <<"build", "staged">>,
            <<"sealUpdater", "staged">> >> \o Publishing("seal-updater", "staged", "updater")
SealDmg == (IF dmgSet.seal = NoDmgSeal THEN << <<"buildDmg", "dmg">>, <<"sealDmg", "dmg">> >> ELSE << >>)
              \o VerifyDmg \o Close
SealDistribution ==
    IF dist.there THEN Confirmed("seal-release", "dist")
    ELSE << <<"mkdtemp", "stage">>, <<"project", "stage">>, <<"bundle", "stage">> >> \o VerifyUpdater("updater")
            \o VerifyDmg \o Authorized("stage", "bind", "sealDist")
            \o Publishing("seal-release", "stage", "dist")
VerifyRelease == << <<"only", "dist">> >> \o VerifyDistribution("dist") \o Close

-----------------------------------------------------------------------------
(* One step at a time.                                                     *)

On(step) == cmd.todo # <<>> /\ Head(cmd.todo)[1] = step
Dir == Head(cmd.todo)[2]
Continue(c) == cmd' = [c EXCEPT !.todo = Tail(@)]
\* A raise: seal-release removes its stage, and the sessions are closed.
Raised(outcome) ==
    [cmd EXCEPT !.outcome = outcome,
                !.todo = (IF cmd.op = "seal-release" /\ stage.there THEN << <<"remove", "stage">> >> ELSE <<>>) \o Close]
Require(ok, c) == IF ok THEN Continue(c) ELSE cmd' = Raised("failed")
Untouched == UNCHANGED <<world, staged, updater, dmgSet, stage, dist, returned, setsFaults>>

\* The candidate's tree, recomputed and found to be the one its manifest describes.
CandidateApp == world.app
BindsCandidate(seal) == seal.app = CandidateApp
\* The application inside an archive or an image is the candidate, entry for entry.
Packages(app, candidate) == app = candidate
\* The image is attached read-only, its application read, and detached.
ImageApp == dmgSet.image
Records(u) == <<u.archive, u.signature, u.receipt>>
\* The directory holds its documents and its seal, and nothing else.
Inventory(s, unsealed) == s.there /\ s.seal # unsealed
\* The stored receipt is of the archive beside it.
ReceiptValid(u) == u.receipt.archive = u.archive
RecordsMatch(u) == Records(u) = <<u.seal.archive, u.seal.signature, u.seal.receipt>>
\* A session compiles the verifier from the inputs that are there, and holds while
\* workspace, sources, tools and executable are those it recorded.
CompiledFrom == world.inputs
SessionStable == world.inputs = cmd.session
BindsVerifier(seal) == seal.inputs = world.inputs

\* _reopen_prepackage_binding: the prepackage stage is verified against the frozen
\* candidate, by a verifier whose inputs are those the command's session was opened on.
Reopens == world.pre = world.app /\ (cmd.op # "seal-dmg" => SessionStable)

Begin(op) ==
    /\ cmd.todo = <<>> /\ Untouched
    /\ op = "seal-dmg" => dmgSet.there /\ ~dmgSet.placed
    /\ cmd' = [IdleCommand EXCEPT !.op = op, !.session = CompiledFrom, !.todo = << <<"start", op>> >>,
                           !.existed = IF op = "seal-updater" THEN updater.there ELSE dist.there,
                           !.orphan = stage.there]
Start ==
    /\ On("start") /\ Untouched
    /\ LET plan == CASE cmd.op = "seal-updater" -> SealUpdater [] cmd.op = "seal-dmg" -> SealDmg
                     [] cmd.op = "seal-release" -> SealDistribution [] OTHER -> VerifyRelease
           ok == CASE cmd.op = "seal-updater" -> Reopens /\ (updater.there \/ staged.there)
                   [] cmd.op = "seal-dmg" -> Reopens /\ dmgSet.pre = world.pre
                   [] OTHER -> TRUE
       IN cmd' = IF ok THEN [cmd EXCEPT !.todo = plan, !.pre = world.pre] ELSE Raised("failed")

-----------------------------------------------------------------------------
(* The updater set.                                                        *)

UpdaterSet(d) == IF d = "staged" THEN staged ELSE updater
\* The compiled verifier exits with a receipt for the archive's own signature only.
SignatureAccepted(u) == u.signature = u.archive
\* A replay of the compiled verifier: the embedded key accepts the archive's own
\* signature, and seal-updater's session still has the inputs it was built from; the
\* other commands build the verifier for each replay.
Accepts(u) == SignatureAccepted(u) /\ (cmd.op = "seal-updater" => SessionStable)

Reset ==
    /\ On("reset") /\ staged' = [staged EXCEPT !.receipt = NoReceipt, !.seal = NoUpdaterSeal, !.synced = FALSE]
    /\ Continue(cmd) /\ UNCHANGED <<world, updater, dmgSet, stage, dist, returned, setsFaults>>
Produce == On("produce") /\ Require(Accepts(staged), [cmd EXCEPT !.seen = staged]) /\ Untouched
Record ==
    /\ On("record") /\ Require(staged = cmd.seen, cmd)
    /\ staged' = [staged EXCEPT !.receipt = IF staged = cmd.seen THEN [archive |-> staged.archive, inputs |-> cmd.session] ELSE @]
    /\ UNCHANGED <<world, updater, dmgSet, stage, dist, returned, setsFaults>>
\* _build_updater_seal: the candidate is read before the archive and again after it.
Build == On("build") /\ Require(Packages(staged.archive, CandidateApp), [cmd EXCEPT !.app = CandidateApp]) /\ Untouched
SealUpdaterSet ==
    /\ On("sealUpdater") /\ Require(CandidateApp = cmd.app, cmd)
    /\ staged' = IF CandidateApp # cmd.app THEN staged ELSE
          [staged EXCEPT !.seal = [archive |-> staged.archive, signature |-> staged.signature, receipt |-> staged.receipt,
                                   app |-> cmd.app, pre |-> cmd.pre, inputs |-> cmd.session]]
    /\ UNCHANGED <<world, updater, dmgSet, stage, dist, returned, setsFaults>>

\* verify_updater_set, up to the replay of the verifier, over it, and after it.
Inspect ==
    /\ On("inspect") /\ Untouched
    /\ LET u == UpdaterSet(Dir) IN
       Require(/\ Reopens /\ Inventory(u, NoUpdaterSeal) /\ u.seal.pre = world.pre
               /\ RecordsMatch(u) /\ ReceiptValid(u),
               [cmd EXCEPT !.seen = u, !.pre = world.pre])
Replay ==
    /\ On("replay") /\ Untouched
    /\ LET u == UpdaterSet(Dir) IN
       Require(Accepts(u) /\ u = cmd.seen /\ u.receipt.inputs = CompiledFrom /\ BindsVerifier(u.seal), cmd)
Prove == On("prove") /\ Untouched /\ Require(BindsCandidate(UpdaterSet(Dir).seal), cmd)
\* The archive is compared with the candidate the seal names, which is read again.
Reprove ==
    /\ On("reprove") /\ Untouched
    /\ LET u == UpdaterSet(Dir) IN
       Require(Packages(u.archive, u.seal.app) /\ u = cmd.seen /\ BindsCandidate(u.seal), cmd)
Rebind ==
    /\ On("rebind") /\ Untouched
    /\ Require(BindsVerifier(UpdaterSet(Dir).seal) /\ Reopens /\ world.pre = cmd.pre, cmd)

-----------------------------------------------------------------------------
(* The DMG set.                                                            *)

BuildDmg == On("buildDmg") /\ Require(Packages(ImageApp, CandidateApp), [cmd EXCEPT !.app = CandidateApp]) /\ Untouched
SealDmgSet ==
    /\ On("sealDmg") /\ Require(CandidateApp = cmd.app, cmd)
    /\ dmgSet' = IF CandidateApp # cmd.app THEN dmgSet
              ELSE [dmgSet EXCEPT !.seal = [image |-> dmgSet.image, app |-> cmd.app, pre |-> cmd.pre]]
    /\ UNCHANGED <<world, staged, updater, stage, dist, returned, setsFaults>>
\* The published set, or the one in the transaction's final-set.
InspectDmg ==
    /\ On("inspectDmg") /\ Untouched
    /\ Require(/\ Inventory(dmgSet, NoDmgSeal) /\ (cmd.op # "seal-dmg" => dmgSet.placed) /\ Reopens
               /\ dmgSet.seal.pre = world.pre /\ dmgSet.seal.image = dmgSet.image,
               [cmd EXCEPT !.pre = world.pre])
ProveDmg == On("proveDmg") /\ Untouched /\ Require(BindsCandidate(dmgSet.seal), cmd)
ReproveDmg ==
    /\ On("reproveDmg") /\ Untouched
    /\ Require(Packages(ImageApp, dmgSet.seal.app) /\ BindsCandidate(dmgSet.seal), cmd)
ReopenDmg == On("reopenDmg") /\ Untouched /\ Require(Reopens /\ world.pre = cmd.pre, cmd)

-----------------------------------------------------------------------------
(* The distribution set.                                                   *)

Dist(d) == IF d = "stage" THEN stage ELSE dist
StageOnly == UNCHANGED <<world, staged, updater, dmgSet, dist, returned, setsFaults>>

\* Anything else in the distribution root refuses the command, which then removes
\* nothing: an earlier command's stage is not its own.
Mkdtemp ==
    /\ On("mkdtemp") /\ StageOnly
    /\ \/ stage.there /\ UNCHANGED stage /\ cmd' = [cmd EXCEPT !.todo = Close, !.outcome = "failed"]
       \/ ~stage.there /\ stage' = [NoDist EXCEPT !.there = TRUE] /\ Continue(cmd)
Project ==
    /\ On("project") /\ StageOnly /\ Require(dmgSet.placed, cmd)
    /\ stage' = IF dmgSet.placed THEN [stage EXCEPT !.gatekeeper = dmgSet.image] ELSE stage
\* The evidence files and documents that a bundle is made of.
BundleSources == world.evidence
Bundle ==
    /\ On("bundle") /\ StageOnly /\ Require(BundleSources # 0, cmd)
    /\ stage' = [stage EXCEPT !.bundle = BundleSources]
\* _build_distribution_seal after its two verifications.
Joined(s) == updater.seal.app = dmgSet.seal.app /\ updater.seal.pre = dmgSet.seal.pre /\ BindsCandidate(s)
BindSets ==
    /\ On("bind") /\ Untouched
    /\ Require(Joined(updater.seal), [cmd EXCEPT !.app = CandidateApp])
EvidenceTree == world.evidence
\* _authorized_publication_binding: the evidence is read and its stage authorization
\* reopens the prepackage; its meaning is verified for the candidate; then both again.
Closure == On("closure") /\ Untouched /\ Require(Reopens, [cmd EXCEPT !.evidence = EvidenceTree])
Authorize == On("authorize") /\ Untouched /\ Require(Packages(EvidenceTree, CandidateApp), cmd)
Closed ==
    /\ On("closed") /\ Untouched
    /\ Require(/\ EvidenceTree = cmd.evidence /\ Reopens
               /\ (Dist(Dir).seal # NoDistSeal => Dist(Dir).seal.evidence = EvidenceTree), cmd)
SealDist ==
    /\ On("sealDist") /\ StageOnly /\ Continue(cmd)
    /\ stage' = [stage EXCEPT !.seal = [bundle |-> stage.bundle, gatekeeper |-> stage.gatekeeper, app |-> cmd.app,
                                        updater |-> updater.seal, dmg |-> dmgSet.seal, evidence |-> cmd.evidence]]

\* Mutant: the bundle is not compared with the evidence that is there.
BundleTrusted(d) == d.gatekeeper = dmgSet.image
\* _validate_publication_bundle: the bundle holds the evidence that is there, and the
\* projection is that of the DMG set.
BundleValid(d) == d.bundle = BundleSources /\ d.gatekeeper = dmgSet.image
AssetsMatch(d) ==
    /\ d.seal.bundle = d.bundle /\ d.seal.gatekeeper = d.gatekeeper
    /\ d.seal.updater = updater.seal /\ d.seal.dmg = dmgSet.seal
InspectDist ==
    /\ On("inspectDist") /\ Untouched
    /\ Require(Inventory(Dist(Dir), NoDistSeal) /\ BundleValid(Dist(Dir)), cmd)
Join ==
    /\ On("join") /\ Untouched
    /\ LET d == Dist(Dir) IN
       Require(Joined(d.seal) /\ updater.seal.app = d.seal.app /\ AssetsMatch(d), cmd)
\* What was checked before the slow closure is checked again after it.
Recheck ==
    /\ On("recheck") /\ Untouched
    /\ LET d == Dist(Dir) IN Require(AssetsMatch(d) /\ BindsCandidate(d.seal) /\ BundleValid(d), cmd)
\* verify_release_sets: the distribution root holds the one set and nothing else.
Only == On("only") /\ Require(dist.there /\ ~stage.there, cmd) /\ Untouched

-----------------------------------------------------------------------------
(* Publication, shared by both sets.                                       *)

Synced(s) == [s EXCEPT !.synced = TRUE]
Sync ==
    /\ On("sync") /\ Continue(cmd) /\ UNCHANGED <<world, updater, dmgSet, dist, returned, setsFaults>>
    /\ IF Dir = "staged" THEN staged' = Synced(staged) /\ UNCHANGED stage
       ELSE stage' = Synced(stage) /\ UNCHANGED staged
Rename ==
    IF Dir = "updater" THEN updater' = [staged EXCEPT !.named = FALSE] /\ staged' = NoUpdater /\ UNCHANGED <<stage, dist>>
    ELSE dist' = [stage EXCEPT !.named = FALSE] /\ stage' = NoDist /\ UNCHANGED <<staged, updater>>
Named(s) == [s EXCEPT !.synced = TRUE, !.named = TRUE]
SetNamed == IF Dir = "updater" THEN updater' = Named(updater) /\ UNCHANGED dist ELSE dist' = Named(dist) /\ UNCHANGED updater
\* publish_exclusive renames; when its barrier fails after the rename the set is
\* verified and confirmed all the same.
PublishSet ==
    /\ On("publish") /\ Rename /\ UNCHANGED <<world, dmgSet, returned>>
    /\ \/ Continue(cmd) /\ UNCHANGED setsFaults
       \/ /\ setsFaults < MaxSetsFaults /\ setsFaults' = setsFaults + 1
          /\ cmd' = [cmd EXCEPT !.todo = Confirmed(cmd.op, Dir)]
\* Mutant: a set found published is taken to be on disk.
ConfirmSkipped == On("confirm") /\ Continue(cmd) /\ Untouched
\* confirm_published_tree_durable: the source name is gone, tree and names are synced.
Confirm == On("confirm") /\ Continue(cmd) /\ SetNamed /\ UNCHANGED <<world, staged, dmgSet, stage, returned, setsFaults>>

\* _remove_private_distribution_stage.
Remove == On("remove") /\ stage' = NoDist /\ Continue(cmd) /\ StageOnly
\* _run_verification_command: the sessions close over the same inputs, or a set that
\* this command published is reported as of unknown outcome.
PublishedNow == IF cmd.op = "seal-updater" THEN updater.there ELSE cmd.op = "seal-release" /\ dist.there
CloseSession ==
    /\ On("close") /\ Untouched
    /\ LET stable == cmd.op = "seal-dmg" \/ SessionStable IN
       Continue([cmd EXCEPT !.outcome =
           CASE stable -> IF @ = "none" THEN "ok" ELSE @
             [] ~stable /\ @ = "none" -> IF cmd.op = "verify-release" THEN "failed" ELSE "unknown"
             [] OTHER -> IF PublishedNow /\ ~cmd.existed THEN "unknown" ELSE @])

-----------------------------------------------------------------------------
(* Faults, and the programs around the commands.                           *)

SetsFault == setsFaults < MaxSetsFaults /\ setsFaults' = setsFaults + 1
\* Any call fails, or the operator interrupts; so may the removal of the stage.
Fails ==
    /\ SetsFault /\ cmd.todo # <<>> /\ ~On("close") /\ UNCHANGED <<world, staged, updater, dmgSet, stage, dist, returned>>
    /\ cmd' = IF On("remove") THEN [cmd EXCEPT !.todo = Close, !.outcome = "unremoved"]
              ELSE IF On("start") \/ On("mkdtemp") THEN [cmd EXCEPT !.todo = Close, !.outcome = "failed"] ELSE Raised("failed")
Crash ==
    /\ SetsFault /\ cmd.todo # <<>> /\ cmd' = IdleCommand
    /\ UNCHANGED <<world, staged, updater, dmgSet, stage, dist, returned>>
\* What was not on disk may be lost, and a name may be the earlier one again.
Lost(s, empty) == IF s.named \/ ~s.there THEN {s} ELSE IF s.synced THEN {s, empty} ELSE {s, empty, [s EXCEPT !.seal = empty.seal]}
PowerLoss ==
    /\ SetsFault /\ cmd' = IdleCommand /\ UNCHANGED <<world, dmgSet, returned>>
    /\ staged' \in Lost(staged, NoUpdater) /\ updater' \in Lost(updater, NoUpdater)
    /\ stage' \in Lost(stage, NoDist) /\ dist' \in Lost(dist, NoDist)

Change(w) ==
    w # world /\ world' = w /\ UNCHANGED <<staged, updater, dmgSet, stage, dist, cmd, setsFaults>>
\* A new candidate, or one that was there before.
Rebuild == \E a \in Apps : Change([world EXCEPT !.app = a]) /\ returned' = (returned \/ a < world.app)
Reauthorise == Change([world EXCEPT !.pre = world.app]) /\ UNCHANGED returned
ChangeInputs == (\E i \in Inputs : Change([world EXCEPT !.inputs = i])) /\ UNCHANGED returned
Recollect == Change([world EXCEPT !.evidence = world.app]) /\ UNCHANGED returned
\* The packaging script makes the archive of the candidate that is there; its
\* signature may be one made for another build.
Package ==
    /\ cmd.todo = <<>> /\ ~updater.there
    /\ \E s \in Apps : staged' = [NoUpdater EXCEPT !.there = TRUE, !.archive = world.app, !.signature = s]
    /\ UNCHANGED <<world, updater, dmgSet, stage, dist, cmd, returned, setsFaults>>
\* The DMG transaction prepares its final-set, and renames it once it is sealed.
PrepareDmg ==
    /\ cmd.todo = <<>> /\ ~dmgSet.there /\ dmgSet' = [NoDmg EXCEPT !.there = TRUE, !.image = world.app, !.pre = world.pre]
    /\ UNCHANGED <<world, staged, updater, stage, dist, cmd, returned, setsFaults>>
PlaceDmg ==
    /\ cmd.todo = <<>> /\ cmd.op = "seal-dmg" /\ cmd.outcome = "ok" /\ ~dmgSet.placed /\ dmgSet' = [dmgSet EXCEPT !.placed = TRUE]
    /\ UNCHANGED <<world, staged, updater, stage, dist, cmd, returned, setsFaults>>

Step ==
    \/ Start \/ Reset \/ Produce \/ Record \/ Build \/ SealUpdaterSet \/ Inspect \/ Replay \/ Prove
    \/ Reprove \/ Rebind \/ BuildDmg \/ SealDmgSet \/ InspectDmg \/ ProveDmg \/ ReproveDmg \/ ReopenDmg
    \/ Mkdtemp \/ Project \/ Bundle \/ BindSets \/ Closure \/ Authorize \/ Closed \/ SealDist \/ InspectDist \/ Join \/ Recheck \/ Only
    \/ Sync \/ PublishSet \/ Confirm \/ Remove \/ CloseSession
SetsNext ==
    \/ \E op \in Commands : Begin(op)
    \/ Step \/ Fails \/ Crash \/ PowerLoss
    \/ Rebuild \/ Reauthorise \/ ChangeInputs \/ Recollect \/ Package \/ PrepareDmg \/ PlaceDmg
SetsSpec == SetsInit /\ [][SetsNext]_setsVars

-----------------------------------------------------------------------------
(* Properties.                                                             *)

\* What seal-release and verify-release report as released is an updater archive, a
\* disk image and evidence of one and the same application, however often a new
\* candidate was built between and during the commands that sealed them, as long as
\* no earlier candidate was put back (verify_distribution_set, seal_distribution_set).
OneApplication ==
    ~returned /\ cmd.outcome = "ok" /\ cmd.op \in {"seal-release", "verify-release"} =>
        /\ updater.there /\ dmgSet.placed /\ dist.there
        /\ {updater.archive, dmgSet.image, dist.bundle, dist.gatekeeper, dist.seal.evidence} = {dist.seal.app}

\* The same of every change of the candidate, the comment in verify_distribution_set
\* (release_artifact_set.py:4193-4195): everything is reopened once more after the
\* closure "so a concurrent mutation cannot hide inside that interval".  It does not
\* hold: a candidate that is put back after each look at the evidence is not seen.
NoMutationHides ==
    cmd.outcome = "ok" /\ cmd.op \in {"seal-release", "verify-release"} =>
        {updater.archive, dmgSet.image, dist.bundle, dist.seal.evidence} = {dist.seal.app}

\* A sealing command that reports success has published a set that stays.
SuccessIsDurable ==
    cmd.outcome = "ok" => /\ cmd.op = "seal-updater" => updater.there /\ updater.named
                          /\ cmd.op = "seal-release" => dist.there /\ dist.named

\* A seal-release that ended by itself, in success or in failure, leaves no staging
\* directory of its own, which would refuse every later one.
EndedLeavesNoStage ==
    cmd.op = "seal-release" /\ cmd.outcome \in {"ok", "failed", "unknown"} /\ cmd.todo = <<>> /\ ~cmd.orphan
        => ~stage.there
=============================================================================

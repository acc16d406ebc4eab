----------------------------- MODULE Packaging -----------------------------
(***************************************************************************)
(* The scripts that package the game: build-www fills www/, build-deploy   *)
(* runs it and assembles deploy/ from www/ and the server binary, and      *)
(* verify-deploy tries what was assembled.  An action is one step of a     *)
(* script; a step may be cut short (a failed command, a full disk, a kill) *)
(* with any part of its files written or removed.  The next script starts  *)
(* from what is left.                                                      *)
(*                                                                         *)
(* A file is the revision of the source it was made from.  The source is   *)
(* edited between scripts and not while one runs; one script runs at a     *)
(* time.                                                                   *)
(***************************************************************************)
EXTENDS Naturals, Sequences, FiniteSets

CONSTANTS MaxRevisions,  \* bound: states of the source
          MaxScripts     \* bound: scripts started

ASSUME PackagingAssumption == MaxRevisions \in Nat \ {0} /\ MaxScripts \in Nat

VARIABLES tree,     \* the revisions of the source, the last is checked out
          dist,     \* revision packages/core/dist was compiled from, 0: none
          binary,   \* revision of server/build-deploy/agenticrpg-server, 0: none
          www,      \* www/: its files
          deploy,   \* deploy/: the binary, the README, the files of www/
          script,   \* the script that runs, its step and its --skip flag
          started,  \* scripts started
          verified  \* verify-deploy passed, and nothing has touched deploy/ since

buildVars == <<tree, dist, binary, www, deploy, script, started, verified>>

\* What a revision has under samples/, and what is wrong with it: its bundle uses a
\* banned API, or its data do not fit its schemas.
Samples == {{}, {"town"}, {"town", "cave"}}
Revision == [data : Samples, flaw : {"none", "banned API", "bad data"}]
Page == {"manifest.json", "index.html"}
Idle == [name |-> "none", step |-> "none", skip |-> FALSE]
NoFiles == << >>
NoDeploy == [server |-> 0, readme |-> 0, www |-> NoFiles]

head == Len(tree)
Keep(dir, names) == [f \in DOMAIN dir \cap names |-> dir[f]]
\* The files of dir, written over by others.
Over(files, dir) ==
  [f \in DOMAIN files \union DOMAIN dir |-> IF f \in DOMAIN files THEN files[f] ELSE dir[f]]
PutFiles(dir, names) == Over([f \in names |-> head], dir)

BuildInit == /\ tree \in {<<r>> : r \in Revision}
             /\ dist = 0 /\ binary = 0
             /\ www = NoFiles /\ deploy = NoDeploy
             /\ script = Idle /\ started = 0
             /\ verified = FALSE

\* Somebody commits.
Edit == /\ script = Idle /\ head < MaxRevisions
        /\ \E r \in Revision : tree' = Append(tree, r)
        /\ UNCHANGED <<dist, binary, www, deploy, script, started, verified>>

StartScript(name, step) ==
  /\ script = Idle /\ started < MaxScripts
  /\ started' = started + 1
  /\ \E skip \in BOOLEAN : script' = [name |-> name, step |-> step, skip |-> skip]
  /\ UNCHANGED <<tree, dist, binary, www, deploy, verified>>
StartBuildWww == StartScript("build-www", "clean")        \* --skip-bundle or not
StartBuildDeploy == StartScript("build-deploy", "build")  \* --skip-server-build or not

GoTo(step) == script' = [script EXCEPT !.step = step]
Fail == script' = Idle
At(step) == script.step = step

-----------------------------------------------------------------------------
(* build-www                                                                *)

Files(step) == CASE step = "bundle" -> {"runtime.js"}
                 [] step = "copy data" -> tree[head].data
                 [] step = "write page" -> Page

CleanDir == /\ At("clean")
            /\ www' = NoFiles
            /\ GoTo("bundle")
            /\ UNCHANGED <<tree, dist, binary, deploy, started, verified>>

\* build-deploy runs build-www without its flag.
SkipBundle == script.skip /\ script.name = "build-www"

Bundle == /\ At("bundle")
          /\ IF SkipBundle
               THEN /\ IF "runtime.js" \in DOMAIN www THEN GoTo("copy data") ELSE Fail
                    /\ UNCHANGED www
               ELSE www' = PutFiles(www, Files("bundle")) /\ GoTo("copy data")
          /\ UNCHANGED <<tree, dist, binary, deploy, started, verified>>

CopyData == /\ At("copy data")
            /\ IF tree[head].data = {}
                 THEN Fail /\ UNCHANGED www
                 ELSE www' = PutFiles(www, Files("copy data")) /\ GoTo("write page")
            /\ UNCHANGED <<tree, dist, binary, deploy, started, verified>>

\* The placeholder atlas, the manifest, index.html and the READMEs.
WritePage == /\ At("write page")
             /\ www' = PutFiles(www, Files("write page"))
             /\ GoTo("check bundle")
             /\ UNCHANGED <<tree, dist, binary, deploy, started, verified>>

CheckBannedApis ==
  /\ At("check bundle")
  /\ IF tree[www["runtime.js"]].flaw # "banned API" THEN GoTo("check data") ELSE Fail
  /\ UNCHANGED <<tree, dist, binary, www, deploy, started, verified>>

\* ensureCoreDist compiles core only when it was never compiled: schemas of another
\* revision may accept what these refuse, and the reverse.
ValidateDataFiles ==
  /\ At("check data")
  /\ dist' = IF dist = 0 THEN head ELSE dist
  /\ \E ok \in BOOLEAN :
       /\ dist' = head => ok = (tree[head].flaw # "bad data")
       /\ IF ~ok THEN Fail
          ELSE IF script.name = "build-deploy" THEN GoTo("server") ELSE script' = Idle
  /\ UNCHANGED <<tree, binary, www, deploy, started, verified>>

-----------------------------------------------------------------------------
(* build-deploy                                                             *)

\* pnpm -r build, then build-www.
BuildPackages == /\ At("build")
                 /\ dist' = head
                 /\ GoTo("clean")
                 /\ UNCHANGED <<tree, binary, www, deploy, started, verified>>

\* cmake runs only when there is no binary at all.
BuildServer == /\ At("server")
               /\ IF binary = 0 /\ script.skip
                    THEN Fail /\ UNCHANGED binary
                    ELSE /\ binary' = IF binary = 0 THEN head ELSE binary
                         /\ GoTo("remove")
               /\ UNCHANGED <<tree, dist, www, deploy, started, verified>>

\* Mutant: assemble over what is there.
RmrfNot == /\ At("remove")
           /\ GoTo("assemble")
           /\ UNCHANGED <<tree, dist, binary, www, deploy, started, verified>>

Rmrf == /\ At("remove")
        /\ deploy' = NoDeploy
        /\ verified' = FALSE
        /\ GoTo("assemble")
        /\ UNCHANGED <<tree, dist, binary, www, started>>

\* cp of the binary, cp -r of www/.
Assembled(names) == [deploy EXCEPT !.server = binary, !.www = Over(Keep(www, names), @)]

Assemble == /\ At("assemble")
            /\ deploy' = Assembled(DOMAIN www)
            /\ GoTo("write README")
            /\ UNCHANGED <<tree, dist, binary, www, started, verified>>

WriteReadme == /\ At("write README")
               /\ deploy' = [deploy EXCEPT !.readme = head]
               /\ script' = Idle
               /\ UNCHANGED <<tree, dist, binary, www, started, verified>>

-----------------------------------------------------------------------------
\* A step that stops half-way ends its script, and the script that called it.
CutShort ==
  /\ script # Idle
  /\ \/ /\ At("clean") /\ \E left \in SUBSET DOMAIN www : www' = Keep(www, left)
        /\ UNCHANGED <<deploy, verified>>
     \/ /\ script.step \in {"bundle", "copy data", "write page"}
        /\ ~(At("bundle") /\ SkipBundle)
        /\ \E written \in SUBSET Files(script.step) : www' = PutFiles(www, written)
        /\ UNCHANGED <<deploy, verified>>
     \/ /\ At("remove")
        /\ \E left \in SUBSET DOMAIN deploy.www, s \in {0, deploy.server}, r \in {0, deploy.readme} :
             deploy' = [server |-> s, readme |-> r, www |-> Keep(deploy.www, left)]
        /\ verified' = FALSE
        /\ UNCHANGED www
     \/ /\ At("assemble") /\ \E copied \in SUBSET DOMAIN www : deploy' = Assembled(copied)
        /\ UNCHANGED <<www, verified>>
     \/ /\ script.step \in {"build", "check bundle", "check data", "server", "write README"}
        /\ UNCHANGED <<www, deploy, verified>>
  /\ Fail
  /\ UNCHANGED <<tree, dist, binary, started>>

\* What verify-deploy asks the file system and the server for: one map of those there are.
PageFiles == {"index.html", "runtime.js", "manifest.json", "town"}

\* The server may also fail to start, or find its port taken: its own log has to
\* show the address it listens on.
Verify == /\ script = Idle /\ started < MaxScripts
          /\ started' = started + 1
          /\ verified' \in {FALSE, /\ deploy.server # 0 /\ deploy.readme # 0
                                   /\ PageFiles \subseteq DOMAIN deploy.www}
          /\ UNCHANGED <<tree, dist, binary, www, deploy, script>>

BuildNext == \/ Edit \/ StartBuildWww \/ StartBuildDeploy
             \/ CleanDir \/ Bundle \/ CopyData \/ WritePage \/ CheckBannedApis \/ ValidateDataFiles
             \/ BuildPackages \/ BuildServer \/ Rmrf \/ Assemble \/ WriteReadme
             \/ CutShort \/ Verify

BuildSpec == BuildInit /\ [][BuildNext]_buildVars

-----------------------------------------------------------------------------
BuildTypeOK ==
  /\ tree \in Seq(Revision) /\ {dist, binary} \subseteq 0..head
  /\ {DOMAIN www, DOMAIN deploy.www} \subseteq SUBSET ((UNION Samples) \union Page \union {"runtime.js"})
  /\ {deploy.server, deploy.readme} \subseteq 0..head
  /\ verified \in BOOLEAN

RevisionsOf(dir) == {dir[f] : f \in DOMAIN dir}

\* build-deploy.mjs:137-142: whatever was cut short before, deploy/ never mixes two
\* builds, and what it serves has passed build-www's checks, which leave their
\* rejects lying in www/.
DeployIsOneBuild ==
  LET made == RevisionsOf(deploy.www) \union ({deploy.readme} \ {0})
  IN /\ Cardinality(made) <= 1
     /\ \A r \in made : tree[r].flaw = "none" /\ tree[r].data # {}

\* verify-deploy.mjs:16 "this script covers everything the C++ server and the built
\* artifacts can verify headlessly": what it passes is a whole build.
VerifiedIsWhole ==
  verified => DOMAIN deploy.www = {"runtime.js"} \union Page \union tree[deploy.readme].data

\* build-deploy.mjs:228 "regenerates this folder from source (www bundle + C++ server binary)"
ServerIsCurrent == deploy.readme # 0 => deploy.server \in {0, deploy.readme}

\* deploy/ never mixes two builds and serves what has passed the checks of build-www,
\* whichever scripts were cut short before.
OneCheckedBuild == BuildTypeOK /\ DeployIsOneBuild
=============================================================================

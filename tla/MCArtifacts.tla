---------------------------- MODULE MCArtifacts -----------------------------
(***************************************************************************)
(* Artifacts for TLC.  Instance 3 follows the host's frida-tools and has   *)
(* three modules, of which two share a basename and the third's looks like *)
(* the prefixed form of theirs; one process runs all verbs on it (scene    *)
(* "one").  Instance 4 has binder: vm on a row of either backend, and a    *)
(* zip of the user's in modules/ ("flip").  Instances 1 and 2 use the same *)
(* release and the same module, pinned by one of them; a process applies   *)
(* each, while the servers change only when none runs ("shared") or any    *)
(* time ("retry").                                                         *)
(***************************************************************************)
EXTENDS Artifacts, TLC

VARIABLE scene

MCUrls   == {<<"url", 1>>, <<"url", 2>>}
MCLength == {<<"url", 2>>}
MCFiles  == {<<"path", 3>>, <<"path", 4>>}
MCInside == <<"path", 4>> :> 4
MCBase   == (<<"url", 1>> :> <<-1>>) @@ (<<"url", 2>> :> <<-1>>) @@ (<<"path", 3>> :> <<1, -1>>)
            @@ (<<"path", 4>> :> <<-2>>)

Mod(k, pin) == [key |-> k, pin |-> pin]
MCAdds == {Mod(<<"url", 2>>, "none"), Mod(<<"path", 3>>, "A"), Mod(<<"path", 4>>, "none")}

MCInstOf == [p \in 1..4 |-> p]
MCCfg ==
  << [ver |-> "v1", pin |-> "A", binder |-> "auto"],
     [ver |-> "v1", pin |-> "none", binder |-> "auto"],
     [ver |-> "auto", pin |-> "none", binder |-> "auto"],
     [ver |-> "v1", pin |-> "none", binder |-> "vm"] >>
MCMods ==
  << << Mod(<<"url", 1>>, "A") >>,
     << Mod(<<"url", 1>>, "none") >>,
     << Mod(<<"path", 3>>, "A"), Mod(<<"url", 1>>, "none"), Mod(<<"url", 2>>, "A") >>,
     << Mod(<<"url", 2>>, "none") >> >>

\* One command at a time works on an instance, and the instances that pin what
\* they share pin it alike.
ASSUME SharingAssumption ==
  /\ \A p, q \in Procs : InstOf[p] = InstOf[q] => p = q
  /\ \A i, j \in Insts :
       /\ /\ Cfg[i].ver = Cfg[j].ver /\ "none" \notin {Cfg[i].pin, Cfg[j].pin}
          => Cfg[i].pin = Cfg[j].pin
       /\ \A m \in DOMAIN FirstMods[i], n \in DOMAIN FirstMods[j] :
            LET a == FirstMods[i][m] b == FirstMods[j][n] IN
            a.key = b.key => a.pin = b.pin \/ (i # j /\ "none" \in {a.pin, b.pin})

\* What happens in a scene.
Scene ==
  /\ scene \in {"shared", "retry"} => \A p \in Procs : job'[p].verb \in {"none", "apply"}
  /\ scene # "retry" /\ upstream' # upstream => \A p \in Procs : At(p, "idle")

SceneInit == Init /\ scene \in {"one", "flip", "shared", "retry"}
SceneNext == Next /\ Scene /\ UNCHANGED scene
SceneSpec == SceneInit /\ [][SceneNext]_<<vars, scene>>

\* The processes of a scene at a size TLC can explore.
Cast == CASE scene = "one" -> {3} [] scene = "flip" -> {4} [] OTHER -> {1, 2}

\* The files that its processes may ask for.
Served ==
  IF scene = "one" THEN Urls \cup {<<"frida", v, ResolveArch("auto")>> : v \in Vers}
  ELSE {<<"url", 1>>, <<"frida", "v1", HostArch>>}

Bounds ==
  /\ Scene
  /\ \A p \in Procs \ Cast : UNCHANGED job[p]
  /\ \A k \in DOMAIN upstream \ Served : upstream'[k] = upstream[k]

MCInit ==
  /\ SceneInit
  /\ scene # "one" => tools = "none" /\ latest = "v1" /\ \A k \in Files : cache[k] = "A"
  /\ cache[<<"path", 4>>] = "A"
  /\ \A i \in Insts : scene # "flip" \/ i \notin Cast => frida[i] = Empty
  /\ archEnv # HostArch /\ (scene \in {"shared", "retry"} => archEnv = "none")
  /\ \A i \in Insts : scene \in {"shared", "retry"} \/ i \notin Cast => kind[i] = "redroid"
MCNext == SceneNext /\ Bounds

\* A command that failed is tried again, and none waits for anything.
Retried(p) == p \in Cast /\ Command(p) /\ Bounds
MCSpec ==
  /\ MCInit /\ [][MCNext]_<<vars, scene>>
  /\ \A p \in Procs : WF_<<vars, scene>>(Retried(p) /\ UNCHANGED scene)

\* A binary of the pinned version and a module with a sha256 that lie in the
\* instance are the ones the digest names (StagedMatchesPin), whoever shares the
\* cache, as long as apply staged them and the server does not change while the
\* file is verified and copied.
SharedMatchesPin == scene = "shared" => StagedMatchesPin
=============================================================================

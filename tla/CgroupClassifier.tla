-------------------------- MODULE CgroupClassifier --------------------------
(* internal/cgroups/classifier/classifier.go: which service a control group  *)
(* stands for, and whether it is a total: collected whole, but for the       *)
(* children in its list, instead of being traversed.                         *)
(*                                                                           *)
(* A path is a sequence of names, the root's is empty.  A name is abstracted *)
(* to what the regular expressions tell apart, after "\x2d" is unescaped:    *)
(*   kind   "system.slice", "user.slice", "machine.slice", "app.slice",      *)
(*          "session.slice", "init.scope", "subslice", "user-*.slice",       *)
(*          "user@.service", "service", "healthcheck", "dbus", "docker",     *)
(*          "docker-builder", "snap", "libpod", "libpod-conmon", "buildah",  *)
(*          "mount", "socket" or any other                                   *)
(*   id     the user, container or (subslice, dbus, docker-builder) the      *)
(*          slice that is in the name                                        *)
(*   text   what the name may give to the service: a unit's name...          *)
(* A service is the sequence of what its name has between slashes.           *)
EXTENDS Naturals, Sequences

CONSTANTS Users,    \* Users[uid]: its name; other users are not resolved
          Docker,   \* Docker[id]: the container; others are not resolved
          Podman

Name(kind) == [kind |-> kind, id |-> "", text |-> ""]

NameOf(kind, id) == [kind |-> kind, id |-> id, text |-> ""]

NameWith(kind, text) == [kind |-> kind, id |-> "", text |-> text]

Container(name, temporary) == [name |-> name, temporary |-> temporary]

Result(outcome, service, isTotal, excluding) ==
    [outcome |-> outcome, service |-> service, isTotal |-> isTotal,
     excluding |-> excluding]

\* A resolver's error, and a group that is not classified.
Failed == Result("failed", <<>>, FALSE, <<>>)

NotClassified == Result("none", <<>>, FALSE, <<>>)

System == [slice |-> "system", user |-> <<>>]

\* The context of a user whose name is known.
UserContext(uid) == [slice |-> "app", user |-> <<Users[uid]>>]

ClassifyAs(context, service) ==
    Result("classified", context.user \o service, FALSE, <<>>)

ClassifyTotal(context, service, excluding) ==
    Result("classified", context.user \o service, TRUE, excluding)

\* What is done in the context of a user, once it is resolved.
ForUser(uid, result) == IF uid \in DOMAIN Users THEN result ELSE Failed

\* A temporary container has a generated name: they all share the other one.
ContainerService(container, shared) ==
    <<IF container.temporary THEN shared ELSE container.name>>

-----------------------------------------------------------------------------
(* Where a group is                                                          *)

Kinds(path) == [i \in 1..Len(path) |-> path[i].kind]

IsSubslice(name, slice) == name.kind \in {"subslice", "dbus"} /\ name.id = slice

UserManager == <<"user.slice", "user-*.slice", "user@.service">>

IsUserAppSlice(path) == Kinds(path) = Append(UserManager, "app.slice")

\* systemSlicePathRegex, with its optional part.
IsSystemSubslice(path) ==
    /\ Len(path) = 2
    /\ path[1].kind = "system.slice" /\ IsSubslice(path[2], "system")

\* userSlicePathRegex, with all its parts but the last optional one.
IsInUserServices(path) ==
    /\ Len(path) \in {4, 5}
    /\ Kinds(SubSeq(path, 1, 3)) = UserManager
    /\ path[4].kind \in {"app.slice", "session.slice"}
    /\ Len(path) = 5 => \E slice \in {"app", "session"} : IsSubslice(path[5], slice)

-----------------------------------------------------------------------------
(* Names                                                                     *)

IsService(name) == name.kind \in {"service", "user@.service", "healthcheck"}

\* classifySupplementaryChild
ClassifySupplementaryChild(context, name) ==
    IF name.kind \in {"mount", "socket"} THEN ClassifyAs(context, <<name.text>>)
    ELSE NotClassified

\* classifyServiceSliceChild and, if it has no answer, the supplementary ones.
ClassifySliceChild(context, name) ==
    CASE \/ name.kind = "dbus" /\ name.id = context.slice
         \/ IsService(name) ->
            ClassifyTotal(context, <<name.text>>, <<>>)
      [] name.kind = "docker" ->
            IF name.id \in DOMAIN Docker
            THEN ClassifyAs(context, ContainerService(Docker[name.id],
                                                      "docker-containers"))
            ELSE Failed
      [] name.kind = "docker-builder" /\ name.id = context.slice ->
            ClassifyAs(context, <<"docker-builder">>)
      [] name.kind = "snap" -> ClassifyAs(context, <<name.text>>)
      [] OTHER -> ClassifySupplementaryChild(context, name)

\* A container of the system's podman, its supervisor or its health check.
ClassifyPodmanContainer(id, suffix) ==
    IF id \in DOMAIN Podman
    THEN ClassifyTotal(System, ContainerService(Podman[id], "podman-containers")
                               \o suffix, <<>>)
    ELSE Failed

-----------------------------------------------------------------------------
(* ClassifySlice.  Each regular expression of its chain of conditions says   *)
(* where the group is: here the conditions are grouped by the parent.        *)

\* "/"
ClassifyRoot == ClassifyAs(System, <<"kernel">>)

\* /*
ClassifyRootChild(name) ==
    CASE name.kind = "buildah" ->
            ClassifyTotal(System, <<"podman-builder">>, <<>>)
      [] name.kind = "init.scope" -> ClassifyAs(System, <<"init">>)
      [] OTHER -> ClassifySupplementaryChild(System, name)

\* /machine.slice/*
ClassifyMachineSliceChild(name) ==
    CASE name.kind = "libpod" -> ClassifyPodmanContainer(name.id, <<>>)
      [] name.kind = "libpod-conmon" ->
            ClassifyPodmanContainer(name.id, <<"supervisor">>)
      [] OTHER -> NotClassified

\* /system.slice/*
ClassifySystemSliceChild(name) ==
    CASE name.kind = "buildah" ->
            ClassifyTotal(System, <<"podman-builder">>, <<>>)
      [] name.kind = "healthcheck" ->
            ClassifyPodmanContainer(name.id, <<"healthcheck">>)
      [] OTHER -> ClassifySliceChild(System, name)

\* /user.slice/*: all of a user but the service manager is "sessions".
ClassifyUserSliceChild(name) ==
    IF name.kind = "user-*.slice"
    THEN ForUser(name.id, ClassifyTotal(UserContext(name.id), <<"sessions">>,
                                        <<NameOf("user@.service", name.id)>>))
    ELSE NotClassified

\* /user.slice/user-1000.slice/*: the service manager.
ClassifyUserGroup(uid, name) ==
    ForUser(uid, IF name.kind = "user@.service" /\ name.id = uid
                 THEN ClassifyTotal(UserContext(uid), <<>>,
                                    <<Name("app.slice"), Name("init.scope")>>)
                 ELSE NotClassified)

\* /user.slice/user-1000.slice/user@1000.service/*
ClassifyManagerChild(uid, name) ==
    ForUser(uid, IF name.kind = "init.scope"
                 THEN ClassifyAs(UserContext(uid), <<"init">>)
                 ELSE NotClassified)

\* app.slice and session.slice of a user, and their slices.
ClassifyUserService(uid, name, isAppSlice) ==
    ForUser(uid,
        CASE isAppSlice /\ name.kind = "buildah" ->
                ClassifyTotal(UserContext(uid), <<"podman-builder">>, <<>>)
          [] isAppSlice /\ name.kind = "healthcheck" ->
                ClassifyTotal(UserContext(uid),
                              <<"podman-containers", "healthcheck">>, <<>>)
          [] OTHER -> ClassifySliceChild(UserContext(uid), name))

Classify(parent, name) ==
    CASE parent = <<>> -> ClassifyRootChild(name)
      [] Kinds(parent) = <<"machine.slice">> -> ClassifyMachineSliceChild(name)
      [] Kinds(parent) = <<"system.slice">> -> ClassifySystemSliceChild(name)
      [] IsSystemSubslice(parent) -> ClassifySliceChild(System, name)
      [] Kinds(parent) = <<"user.slice">> -> ClassifyUserSliceChild(name)
      [] Kinds(parent) = <<"user.slice", "user-*.slice">> ->
            ClassifyUserGroup(parent[2].id, name)
      [] Kinds(parent) = UserManager -> ClassifyManagerChild(parent[2].id, name)
      [] IsInUserServices(parent) ->
            ClassifyUserService(parent[2].id, name, IsUserAppSlice(parent))
      [] OTHER -> NotClassified

ClassifySlice(path) ==
    IF path = <<>> THEN ClassifyRoot
    ELSE Classify(SubSeq(path, 1, Len(path) - 1), path[Len(path)])
=============================================================================

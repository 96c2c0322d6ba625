-------------------------- MODULE MCCgroupsCollector --------------------------
(* Instance of CgroupsCollector over paths that CgroupClassifier classifies: *)
(* a container, and a user's slice down to the service manager.  The user    *)
(* and the container have the same name, so the service manager and the      *)
(* container are the same service.                                           *)
EXTENDS CgroupsCollector, CgroupClassifier

MCUsers == "1000" :> "dmitry"

MCDocker == "1" :> Container("dmitry", FALSE)

MCPodman == <<>>

MCOrder == <<"/", "system.slice", "docker-1.scope", "user.slice",
             "user-1000.slice", "user@1000.service", "app.slice", "init.scope">>

MCGroups == ToSet(MCOrder)

MCListing ==
    [s \in SUBSET MCGroups |-> SelectSeq(MCOrder, LAMBDA g : g \in s)]

Path == LET userSlice == <<Name("user.slice"), NameOf("user-*.slice", "1000")>>
            manager == Append(userSlice, NameOf("user@.service", "1000"))
        IN  "/"                 :> <<>> @@
            "system.slice"      :> <<Name("system.slice")>> @@
            "docker-1.scope"    :> <<Name("system.slice"), NameOf("docker", "1")>> @@
            "user.slice"        :> <<Name("user.slice")>> @@
            "user-1000.slice"   :> userSlice @@
            "user@1000.service" :> manager @@
            "app.slice"         :> Append(manager, Name("app.slice")) @@
            "init.scope"        :> Append(manager, Name("init.scope"))

GroupAt(path) == CHOOSE g \in MCGroups : Path[g] = path

MCParent == [g \in MCGroups \ {"/"} |-> GroupAt(Front(Path[g]))]

Classification == [g \in MCGroups |-> ClassifySlice(Path[g])]

MCService == [g \in MCGroups |-> Classification[g].service]

MCUnclassified == NotClassified.service

MCTotals == {g \in MCGroups : Classification[g].isTotal}

MCExcluding ==
    [g \in MCTotals |->
        LET names == Classification[g].excluding
        IN  [i \in DOMAIN names |-> GroupAt(Append(Path[g], names[i]))]]

\* What the classifier says while no user and no container can be resolved.
Unresolved == INSTANCE CgroupClassifier
              WITH Users <- <<>>, Docker <- <<>>, Podman <- <<>>

UnresolvedClassification ==
    [g \in MCGroups |-> Unresolved!ClassifySlice(Path[g])]

MCUnresolvable ==
    {g \in MCGroups : UnresolvedClassification[g].outcome = "failed"}

\* The memory controller of a child that is subtracted from its parent and
\* collected itself: it then lacks its io metrics as well, which come last.
MCSwitchable == {<<"memory", "init.scope">>}
=============================================================================

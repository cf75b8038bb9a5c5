---------------------------- MODULE OpenSessionMC ----------------------------
EXTENDS OpenSession, TLC

\* Two servers, one of which opens two sessions at a time.
ServerOfMC == "t1" :> "s1" @@ "t2" :> "s1" @@ "t3" :> "s2"

All(product) == [t \in {"t1", "t2", "t3"} |-> product]
MixesMC == {All("fluent"),
            "t1" :> "mechanical" @@ "t2" :> "none" @@ "t3" :> "mechanical",
            "t1" :> "workbench" @@ "t2" :> "mechanical" @@ "t3" :> "none",
            "t1" :> "other" @@ "t2" :> "workbench" @@ "t3" :> "none"}

\* An older release without Workbench, and one from which Workbench can be launched.
InstalledMC == 241 :> {"fluent", "mechanical"} @@ 252 :> {"fluent", "mechanical", "workbench"}
AskedMC == "t1" :> NoOne @@ "t2" :> 241 @@ "t3" :> 252

RetryCountMC == "t1" :> 1 @@ "t2" :> 1 @@ "t3" :> 2
StartTimeoutMC == "t1" :> 1 @@ "t2" :> 4 @@ "t3" :> 3
=============================================================================

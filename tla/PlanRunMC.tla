----------------------------- MODULE PlanRunMC ------------------------------
(***************************************************************************)
(* Instances of PlanRun for TLC: plans of one to three steps over a        *)
(* session that is described and one that is not.                          *)
(***************************************************************************)
EXTENDS PlanRun

Home == <<"home">>

Value(v) == [root |-> "value", value |-> v, tail |-> <<>>]
Ref(root, key, field, tail) == [root |-> root, key |-> key, field |-> field, tail |-> tail]

File(x) == [file_name |-> x]

\* Files inside and outside, by name, by way of another step and of a session.
Writes == {File(Value(Text(<<"case">>))),
           File(Value(Text(<<"..", "home", "case">>))),
           File(Value(Text(<<"..", "other", "case">>))),
           File(Value(Absolute(<<"data", "case">>))),
           File(Ref("steps", "one", "file", <<>>)),
           File(Ref("steps", "one", "ok", <<>>)),
           File(Ref("steps", "one", "error", <<"log">>)),
           File(Ref("sessions", "main", "workspace", <<"outputs", "case">>))}
Picture(file, contour) ==
  [images |-> Value(List(<<Dict([name |-> Word("front"), file_name |-> file, contour |-> contour])>>))]
Pictures == {Picture(Text(<<"front">>), Dict(<<>>)),
             Picture(Text(<<"..", "other", "front">>), Dict([object_name |-> Word("skin")])),
             Picture(Text(<<"front">>), Word("skin"))}
Tui == [command |-> Value(Word("solve"))]

Step1(session, action, params, label, goOn) ==
  [session |-> session, adapter |-> NoName, action |-> action, params |-> params,
   label |-> label, goOn |-> goOn]

AnyStep == [session : {"main", "fluent"}, adapter : {NoName}, action : {"write_case"},
            params : Writes, label : {NoName, "one"}, goOn : BOOLEAN]
           \cup [session : {"main"}, adapter : {NoName}, action : {"tui"},
                 params : {Tui}, label : {NoName}, goOn : {FALSE}]
           \cup [session : {"main"}, adapter : {NoName}, action : {"export_results"},
                 params : Pictures, label : {NoName}, goOn : {FALSE}]
           \cup [session : {NoName, "main"}, adapter : {"fluent"}, action : {"version"},
                 params : {<<>>}, label : {"one"}, goOn : {FALSE}]

FewSteps == {Step1("main", "write_case", File(Value(Text(<<"case">>))), "one", TRUE),
             Step1("fluent", "write_case", File(Value(Absolute(<<"data", "case">>))), NoName, TRUE),
             Step1("fluent", "write_case", File(Ref("steps", "one", "file", <<>>)), "one", FALSE),
             Step1("main", "write_case", File(Ref("steps", "one", "file", <<"bak">>)), "two", FALSE),
             Step1("main", "tui", Tui, "two", FALSE)}

Session(adapter, profile, raw) ==
  [adapter |-> adapter, profile |-> profile, raw |-> raw,
   roots |-> {Text(<<"..", "data">>)}, cwd |-> Home]

Document(key, session, steps, goOn) ==
  [key |-> key, sessions |-> [h \in {"main"} |-> session], steps |-> steps,
   goOn |-> goOn, direct |-> FALSE]

Sessions == {Session("fluent", "expert", TRUE), Session("fluent", "safe", TRUE),
             Session(NoName, "expert", TRUE)}

TwoSteps == {Document("sessions", c, <<s, t>>, FALSE) :
               c \in Sessions, s \in AnyStep, t \in AnyStep}
ThreeSteps == {Document(key, Session("fluent", "expert", TRUE), <<s, t, u>>, goOn) :
                 key \in {"sessions", "adapters", "both"}, goOn \in BOOLEAN,
                 s \in FewSteps, t \in FewSteps, u \in FewSteps}

Direct == {[Document("sessions", c, <<s>>, FALSE) EXCEPT !.direct = TRUE] :
             c \in Sessions \ {Session(NoName, "expert", TRUE)},
             s \in {t \in AnyStep : t.session = "main" /\ t.adapter = NoName}}

Plans == TwoSteps \cup ThreeSteps \cup Direct \cup {Document("sessions", Session("fluent", "safe", FALSE), <<>>, FALSE)}
=============================================================================

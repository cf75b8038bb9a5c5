-------------------------- MODULE FluentTemplateMC --------------------------
(***************************************************************************)
(* Instances of FluentTemplate for TLC.  One document is varied in one     *)
(* part at a time, and the parts that meet in a file name or in the chunk  *)
(* loop together.                                                          *)
(***************************************************************************)
EXTENDS FluentTemplate

Home == <<"home">>
Outputs1 == <<"home", "outputs", "run">>

Case == Text(<<"case">>)
Report == [name |-> Word("drag"), command_path |-> Text(<<"results", "report", "drag">>)]
Image == [name |-> Word("front"), file_name |-> Text(<<"front">>)]

Plain == [transcript |-> NoField, final_case |-> NoField, final_case_data |-> NoField,
          checkpoints |-> NoField, reports |-> <<>>, images |-> <<>>]
Block(name, paths) == [name |-> name, paths |-> paths]

Steady == [workflow |-> "steady", source |-> [kind |-> "mesh", path |-> Case],
           sections |-> [setup |-> <<Block("models", <<Text(<<"setup", "models">>)>>)>>],
           solve |-> [initialization |-> NoField, total |-> Whole(3), chunk |-> Whole(2),
                      stepSize |-> NoField, perStep |-> NoField],
           outputs |-> Plain]
Reflow == [Steady EXCEPT
  !.workflow = "reflow",
  !.sections = [zones |-> <<Block("gravity", <<Text(<<"setup", "gravity">>)>>)>>,
                physics |-> <<Block("energy", <<Text(<<"e">>), Text(<<"f">>)>>)>>],
  !.solve.stepSize = Whole(1), !.solve.perStep = Whole(5)]
Bases == {Steady, Reflow}

Obj(enabled, name, file) ==
  Dict(IF enabled = NoField THEN (name :> file) ELSE ("enabled" :> enabled) @@ (name :> file))
File(name) == Text(<<name>>)

Files == {NoField, Null, Truth(TRUE), Truth(FALSE), Whole(1), Whole(2), Text(<<>>), File("final"),
          Text(<<"..", "..", "..", "other">>), Absolute(<<"data", "final">>),
          Obj(NoField, "file_name", File("final-data")), Obj(Whole(0), "file_name", Null),
          Obj(Truth(TRUE), "file_name", Whole(1))}

Sources == {[b EXCEPT !.source = [kind |-> k, path |-> p]] :
              b \in Bases, k \in {"mesh", "case", "case_data", "data"},
              p \in {Case, Text(<<>>), Whole(1), Absolute(<<"data", "case">>), Absolute(<<"case">>),
                     Text(<<"..", "case">>)}}

Settings == {[b EXCEPT !.sections = x] : b \in Bases, x \in
               {[n \in {name} |-> <<Block(block, <<path>>)>>] :
                  name \in {"setup", "physics", "zones"}, block \in {"models", "materials", "energy"},
                  path \in {File("a"), Text(<<>>)}}}

Solves == {[b EXCEPT !.solve.total = n, !.solve.chunk = c, !.outputs.checkpoints = p,
                     !.outputs.reports = r] :
             b \in Bases, n \in {Whole(0), Whole(1), Whole(3), Whole(4), Number(2)},
             c \in {NoField, Whole(0), Whole(1), Whole(2), Whole(5)},
             p \in {NoField, Null, Truth(TRUE), Truth(FALSE), Whole(0), Whole(1), File("x"), Dict(<<>>),
                    Obj(NoField, "every_chunks", Whole(2)), Obj(Truth(TRUE), "every_chunks", Null),
                    Obj(Truth(FALSE), "every_chunks", Whole(0)),
                    Obj(Word("no"), "every_chunks", Whole(2)),
                    Obj(NoField, "file_name_template", File("step-{completed_steps}")),
                    Obj(NoField, "file_name_template", File("part-{chunk_index}")),
                    Obj(NoField, "file_name_template", File("step-{x}")),
                    Obj(NoField, "file_name_template", File("step")),
                    Obj(NoField, "file_name_template", Absolute(<<"data", "step">>))},
             r \in {<<>>, <<Report>>}}

\* A case or a case with data that gets the name of the second step's checkpoint.
Second == File("step-{completed_steps}" \o ToString(2))
Clashes == {[Reflow EXCEPT !.solve.total = Whole(3), !.outputs.final_case = f,
                           !.outputs.final_case_data = g,
                           !.outputs.checkpoints =
                             Obj(NoField, "file_name_template", File("step-{completed_steps}"))] :
              f \in {NoField, Second}, g \in {NoField, Second}}

Steps == {[Reflow EXCEPT !.solve.stepSize = x, !.solve.perStep = n, !.solve.initialization = i] :
            x \in {Whole(0), Whole(2), Number(1), Truth(TRUE)}, n \in {Whole(0), Whole(1), NoField},
            i \in {NoField, Word("standard"), Word("none")}}

Writings == {[b EXCEPT !.outputs.transcript = f, !.outputs.final_case = g,
                       !.outputs.final_case_data = h] :
               b \in Bases, f \in Files, g \in Files, h \in Files}

Exports == {[b EXCEPT !.outputs.images = <<Image, i>>, !.outputs.reports = <<r>>] :
              b \in Bases,
              i \in {[Image EXCEPT !.file_name = f] : f \in {File("back"), Text(<<>>),
                                                      Absolute(<<"data", "back">>)}}
                    \cup {[Image EXCEPT !.name = Whole(1)], [name |-> Word("front")],
                          Image @@ [size |-> Whole(1)]}
                    \cup {Image @@ [kind |-> k] : k \in {Word("contour"), Word("plot")}},
              r \in {Report, Report @@ [args |-> List(<<Word("x")>>), kwargs |-> Dict(<<>>)],
                     Report @@ [args |-> Word("x")], Report @@ [kwargs |-> Null],
                     [Report EXCEPT !.name = Text(<<>>)],
                     [Report EXCEPT !.command_path = Text(<<"solution", "run">>)]}}

\* Two pictures of one contour or of two, one or both of them in a state of its own.
ContourAt(name, state) == Dict([object_name |-> name, state |-> Dict(state)])
Contour(name, state) == ContourAt(Word(name), state)
Views == {Image, Image @@ [picture_state |-> Dict([zoom |-> Whole(2)])],
          Image @@ [contour |-> Dict([state |-> Dict(<<>>)])],
          Image @@ [contour |-> Contour("skin", [field |-> Word("heat")]) , picture_state |-> Dict([zoom |-> Whole(1)])],
          Image @@ [contour |-> Contour("skin", [field |-> Word("speed"), nodes |-> Truth(FALSE)])],
          Image @@ [contour |-> Contour("skin", <<>>)],
          Image @@ [contour |-> Contour("core", [field |-> Word("heat")])],
          Image @@ [contour |-> Contour("core]", [field |-> Word("heat")])],
          Image @@ [contour |-> Contour("skin.left", [field |-> Word("heat")])],
          Image @@ [contour |-> ContourAt(Text(<<"skin", "left">>), [field |-> Word("speed")])],
          Image @@ [contour |-> Contour("sk\\x69n", [field |-> Word("heat")])]}
Album == {[b EXCEPT !.outputs.images = <<v, [u EXCEPT !.file_name = f], [v EXCEPT !.file_name = File("third")]>>] :
            b \in Bases, v \in Views, u \in Views, f \in {File("back"), File("front")}}

AllDocuments == Sources \cup Settings \cup Solves \cup Clashes \cup Steps \cup Writings \cup
                Exports \cup Album
Counted == {"checkpoint-step", "step-{completed_steps}"}
Parts == {"part-{chunk_index}"}
Unknown == {"step-{x}"}
Bracketed == {"core]"}
Unescaped == "sk\\x69n" :> "skin"
=============================================================================

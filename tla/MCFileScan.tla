------------------------------- MODULE MCFileScan ------------------------------
(***************************************************************************)
(* Small files for FileScan: every line the scanners tell apart, and dates *)
(* on both sides of each boundary.                                         *)
(***************************************************************************)
EXTENDS FileScan

On(d) == {[rank |-> d, real |-> TRUE]}
NoSuchDay(d) == {[rank |-> d, real |-> FALSE]}

Marks == {[lead |-> "comment", ends |-> FALSE], [lead |-> "comment", ends |-> TRUE],
          [lead |-> "fence", ends |-> FALSE], [lead |-> "text", ends |-> TRUE]}

Todo(ends, named, high, field, tagged) ==
    [lead |-> "todo", ends |-> ends, named |-> named, high |-> high,
     field |-> field, tagged |-> tagged]

Dated(date, tags, said) ==
    [lead |-> "dated", ends |-> FALSE, date |-> CHOOSE d \in date : TRUE,
     tags |-> tags, said |-> said]

Fact(status, last) ==
    [lead |-> "fact", ends |-> status = {} /\ last = {}, status |-> status,
     last |-> last, past |-> status = {}]

Line(lead, ends) == [lead |-> lead, ends |-> ends]

SmallFiles ==
    [k \in Kind |->
       CASE k = "actions" ->
              Marks \cup
              {Todo(FALSE, FALSE, TRUE, {}, {}), Todo(TRUE, TRUE, TRUE, {}, {}),
               Todo(FALSE, TRUE, FALSE, On(1), On(1)),
               Todo(FALSE, TRUE, FALSE, On(2), On(1)),
               Todo(FALSE, TRUE, FALSE, NoSuchDay(1), On(1)),
               Todo(FALSE, TRUE, FALSE, {}, On(1))} \cup
              {[lead |-> "done", ends |-> FALSE, tagged |-> t] :
                  t \in {{}, On(1), NoSuchDay(2)}}
         [] k = "observations" ->
              Marks \cup
              {Dated(On(1), <<{"x"}>>, TRUE), Dated(On(2), <<{"x", "y"}>>, TRUE),
               Dated(On(3), <<{"y"}, {"y"}>>, TRUE), Dated(On(3), <<{}>>, FALSE),
               Dated(NoSuchDay(3), <<{"x"}>>, TRUE)}
         [] OTHER ->
              {Line("heading", FALSE), Line("comment", FALSE), Line("comment", TRUE),
               Line("blank", FALSE),
               Fact({}, {}), Fact({"active"}, On(1)), Fact({"inactive"}, {}),
               Fact({"active"}, {}), Fact({}, On(0)), Fact({}, NoSuchDay(0))}]
================================================================================

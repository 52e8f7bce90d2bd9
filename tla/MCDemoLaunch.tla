---------------------------- MODULE MCDemoLaunch ----------------------------
(* Two launches, of two services and Alloy.  The applications differ in    *)
(* one thing each.                                                         *)
EXTENDS DemoLaunch

App(names, built, checked) ==
  [sound |-> TRUE, names |-> names, built |-> built, checked |-> checked,
   host |-> {}, joined |-> {}, env |-> [s \in Names |-> {}]]

Two == [App({"api", "db", "alloy"}, {"api", "db"}, {"api", "db"})
          EXCEPT !.env["api"] = {"exporter", "cloud"}, !.host = {"alloy"}]
One == App({"api", "db", "alloy"}, {"api"}, {"api", "alloy"})

Others ==
  { One,
    App({"api", "alloy"}, {"api", "alloy"}, {}),
    App({"db", "alloy"}, {"alloy"}, {"alloy"}),
    App({"api"}, {"api"}, {"api"}),
    [One EXCEPT !.sound = FALSE],
    [One EXCEPT !.host = {"db"}],
    [One EXCEPT !.joined = {"api"}] }

MCPlans == {<<One, Two>>, <<Two, One>>} \cup {<<One, p>> : p \in Others}
             \cup {<<p, One>> : p \in Others}
=============================================================================

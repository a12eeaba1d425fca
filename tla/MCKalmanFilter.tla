--------------------------- MODULE MCKalmanFilter ---------------------------
(***************************************************************************)
(* Two states, one or two measured at a time, two steps: models that       *)
(* forget, shear and exchange, noise that makes S singular or puts a zero  *)
(* on its diagonal, and the problems the filter has to refuse.             *)
(***************************************************************************)
EXTENDS KalmanFilter

Zero == << <<0, 0>>, <<0, 0>> >>
One == << <<1, 0>>, <<0, 1>> >>
Shear == << <<1, 1>>, <<0, 1>> >>
Forget == << <<1, 0>>, <<0, 0>> >>
Exchange == << <<0, 1>>, <<1, 0>> >>
Mixed == << <<2, 1>>, <<1, 3>> >>

Sound ==
    [n : {2}, m : {1}, steps : {2}, F : {One, Shear, Forget},
     H : {<< <<1, 0>> >>, << <<1, 2>> >>}, Q : {Zero, Mixed}, R : {<< <<0>> >>, << <<3>> >>},
     x0 : {<< <<1>>, <<2>> >>}, P0 : {Zero, One, Mixed},
     z : {<< << <<1>> >>, << <<4>> >> >>},
     process : {"asserted"}, process_source : {"none"},
     measurement : {"asserted"}, source : {"none"}]
    \cup
    [n : {2}, m : {2}, steps : {2}, F : {One, Shear, Forget},
     H : {One, Exchange, Shear, Forget}, Q : {Zero, Mixed}, R : {Zero, One, Exchange, Mixed},
     x0 : {<< <<1>>, <<2>> >>}, P0 : {Zero, One, Mixed},
     z : {<< << <<1>>, <<0>> >>, << <<4>>, <<3>> >> >>},
     process : {"asserted"}, process_source : {"none"},
     measurement : {"supplied"}, source : {"id"}]

Base ==
    [n |-> 2, m |-> 2, steps |-> 2, F |-> Shear, H |-> Shear, Q |-> Mixed, R |-> Mixed,
     x0 |-> << <<1>>, <<2>> >>, P0 |-> One, z |-> << << <<1>>, <<0>> >>, << <<4>>, <<3>> >> >>,
     process |-> "asserted", process_source |-> "none",
     measurement |-> "supplied", source |-> "id"]

Unsound ==
    {[Base EXCEPT !.steps = 0], [Base EXCEPT !.steps = 3], [Base EXCEPT !.m = 1],
     [Base EXCEPT !.F[1][2] = NaN], [Base EXCEPT !.z[2][1][1] = NaN],
     [Base EXCEPT !.process = "supplied"], [Base EXCEPT !.process_source = "id"],
     [Base EXCEPT !.source = "none"],
     [Base EXCEPT !.measurement = "asserted"], [Base EXCEPT !.P0 = Shear],
     [Base EXCEPT !.Q = Shear], [Base EXCEPT !.R = Shear], [Base EXCEPT !.R[1][1] = NaN]}

AllProblems == Sound \cup Unsound
=============================================================================

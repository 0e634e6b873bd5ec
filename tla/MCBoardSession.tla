---------------------------- MODULE MCBoardSession ----------------------------
(***************************************************************************)
(* Instance of BoardSession: a phone that leans over the board from one    *)
(* side and sees it in every way, and one nearly above it.                 *)
(***************************************************************************)
EXTENDS BoardSession

MCStart == [front |-> [cm |-> 60, deg |-> 30], rear |-> [cm |-> -14, deg |-> -8]]

MCSteps == [front |-> {[cm |-> 5, deg |-> 0], [cm |-> 1, deg |-> 1], [cm |-> 0, deg |-> 4]}, rear |-> {}]

Fit(mirrored, residual) ==
    [mirrored |-> mirrored, height |-> 100, residual |-> residual, front |-> TRUE]

View(fits) ==
    [corners |-> 24, coverage |-> 30, fits |-> fits, tracked |-> TRUE, layout |-> "landscape"]

Clear == View({Fit(FALSE, 9), Fit(TRUE, 40)})
Ambiguous == View({Fit(FALSE, 9), Fit(TRUE, 5)})
EdgeOn == View({Fit(FALSE, 25), Fit(TRUE, 5)})
Under == View({[Fit(FALSE, 9) EXCEPT !.height = -100]})

(* Views that are not accepted, or end the session.                        *)
Bad == {[Clear EXCEPT !.corners = 7], [Clear EXCEPT !.coverage = 1],
        [Clear EXCEPT !.tracked = FALSE], [Clear EXCEPT !.layout = "portrait"],
        View({[Fit(FALSE, 9) EXCEPT !.front = FALSE]}), View({Fit(FALSE, 30)})}

MCViews == [front |-> {Clear, Ambiguous, EdgeOn, Under} \cup Bad,
            rear |-> {Clear}]

===============================================================================

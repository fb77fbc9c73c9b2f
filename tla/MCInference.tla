---------------------------- MODULE MCInference -----------------------------
(***************************************************************************)
(* One dataset for each command.  Rasters are a few cells wide; a window   *)
(* of 3 keeps its centre in the circle, one of 7 the 5x5 pixels within.    *)
(***************************************************************************)
EXTENDS Inference

B == "baseline"
T == "treatment"

Fire(surface, crown) == [burned |-> surface \cup crown, crowned |-> crown]

\* Classes of fuel: 2 nearly everywhere, 3 where it is treated.
Raw(h, w, class, rock, missing) ==
    [c \in (0 .. h - 1) \X (0 .. w - 1) |->
       IF c \in missing THEN NoData ELSE IF c \in rock THEN N ELSE class]

Base ==
    [cmd |-> "run_dl", h |-> 5, w |-> 4, ws |-> 3, circle |-> TRUE,
     roles |-> <<B, T>>,
     raw |-> [r \in {B, T} |-> IF r = B THEN Raw(5, 4, 2, {<<0, 1>>}, {<<4, 3>>})
                               ELSE Raw(5, 4, 3, {<<2, 2>>}, {<<4, 3>>})],
     area |-> {<<1, 1>>, <<2, 1>>, <<2, 2>>}, burned |-> FALSE, cache |-> FALSE,
     numbers |-> <<>>, points |-> <<>>, draws |-> {}, target |-> 0,
     batch |-> 2, sims |-> 1, workers |-> 1, cancels |-> FALSE, fails |-> FALSE,
     fires |-> {}]

\* Shuffled items of three ignitions with two roles, two of them at borders.
Train(cached) ==
    [Base EXCEPT !.cmd = "train", !.area = NoArea, !.burned = TRUE, !.cache = cached,
                 !.numbers = <<7, 1, 2>>, !.batch = 1,
                 !.points = <<<<1, 1>>, <<0, 2>>, <<4, 0>>>>]

\* Samples may miss the raster, rock and missing data.
Draws ==
    {<<<<1, 1>>, <<2, 2>>, <<1, 2>>>>, <<<<-1, 0>>, <<0, 1>>, <<4, 3>>>>,
     <<<<0, 0>>, <<3, 3>>, <<2, 1>>>>}

RunEmulator ==
    [Base EXCEPT !.draws = Draws, !.target = 3, !.cancels = TRUE,
                 !.fires = {Fire({}, {}), Fire({<<1, 1>>}, {}), Fire({<<0, 0>>}, {<<1, 1>>})}]

Plain(h, w) == [r \in {B, T} |-> Raw(h, w, IF r = B THEN 2 ELSE 3, {}, {})]

\* A burn that reaches the lower border on a detour, and one in two parts.
Detour == Fire({<<4, 4>>, <<5, 3>>, <<5, 2>>, <<5, 1>>}, {<<4, 1>>})
Parts == Fire({<<3, 3>>}, {<<3, 5>>})

RunWide ==
    [RunEmulator EXCEPT !.h = 7, !.w = 8, !.ws = 7, !.raw = Plain(7, 8),
                        !.area = {<<5, 1>>, <<6, 0>>},
                        !.draws = {<<<<3, 3>>, <<4, 2>>>>}, !.target = 2, !.cancels = FALSE,
                        !.fires = {Detour, Parts}]

RunPt ==
    [RunEmulator EXCEPT !.cmd = "run_pt", !.h = 3, !.w = 3, !.raw = Plain(3, 3),
                        !.area = {<<1, 1>>, <<1, 2>>}, !.fails = TRUE,
                        !.draws = {<<<<1, 1>>, <<0, 2>>, <<2, 2>>, <<0, 0>>>>},
                        !.target = 4,
                        !.fires = {Fire({<<0, 0>>}, {}), Fire({<<1, 0>>}, {<<2, 1>>, <<1, 1>>})}]

\* Three rasters in two batches, twice over.
Evaluate ==
    [RunWide EXCEPT !.cmd = "evaluate", !.roles = <<B>>, !.raw = [r \in {B} |-> Plain(7, 8)[r]],
                    !.area = NoArea, !.draws = {}, !.target = 0, !.fails = TRUE,
                    !.points = <<<<3, 3>>, <<1, 6>>, <<4, 2>>>>, !.numbers = <<0, 1, 2>>,
                    !.sims = 2, !.workers = 2]

EvaluatePt ==
    [Evaluate EXCEPT !.cmd = "evaluate_pt", !.workers = 1, !.sims = 1,
                     !.fires = RunPt.fires]

AllDatasets ==
    {Train(TRUE), Train(FALSE), RunEmulator, RunWide, RunPt, Evaluate, EvaluatePt}

=============================================================================

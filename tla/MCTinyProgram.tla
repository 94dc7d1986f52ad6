----------------------------- MODULE MCTinyProgram ----------------------------
(* The configurations of TinyProgram for TLC: the ones without blocks are   *)
(* about the setup, the small ones with blocks about the run.               *)
EXTENDS TinyProgram

Config(kind, size, connectivity, h, s, algo, percent, powers, blocks, txs) ==
  [kind |-> kind, size |-> size, connectivity |-> connectivity, honest |-> h, selfish |-> s,
   algo |-> algo, percent |-> percent, powers |-> powers, blocks |-> blocks, txs |-> txs]

MCConfigs == {
  Config("erdos",    4, 4, 2, 0, "random",     0,  {1, 2}, 0, 0),
  Config("erdos",    4, 9, 1, 2, "highdegree", 50, {1, 2}, 0, 0),
  Config("erdos",    5, 6, 1, 1, "random",     50, {1},    0, 0),
  Config("barabasi", 4, 1, 1, 2, "random",     60, {1, 2}, 0, 0),
  Config("barabasi", 5, 2, 1, 1, "highdegree", 50, {1, 3}, 0, 0),
  Config("barabasi", 1, 1, 1, 0, "random",     0,  {1},    1, 0),
  Config("erdos",    1, 0, 1, 0, "random",     0,  {1},    1, 0),
  Config("erdos",    3, 2, 2, 1, "random",     50, {1, 2}, 1, 0),
  Config("erdos",    3, 2, 1, 1, "highdegree", 50, {1},    2, 0),
  Config("erdos",    2, 1, 0, 1, "random",     100, {1},   3, 0),
  Config("erdos",    3, 2, 1, 0, "random",     0,  {1},    1, 1),
  Config("erdos",    2, 1, 2, 0, "random",     0,  {1},    4, 0),
  Config("erdos",    2, 1, 0, 1, "random",     20, {1},    1, 0),
  Config("erdos",    2, 1, 2, 0, "random",     20, {1},    1, 0),
  Config("ring",     2, 1, 1, 0, "random",     0,  {1},    1, 0),
  Config("erdos",    2, 1, 1, 0, "first",      0,  {1},    1, 0)}
==============================================================================

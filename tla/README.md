# PatriotsRTES: a verification development

PatriotsRTES is a real-time game in C on POSIX threads (through the `ptask`
library) and Allegro: attacker missiles fall towards a goal, the program launches
defender missiles that aim at them, and all of them share one grid of cells in
which they find their collisions. This directory holds TLA+ models of the program
(`../src/src`), the configurations with which TLC checks them on small instances,
and theorems with proofs that TLAPS checks.

Run inside this directory:

    tlasany M.tla                       # parse a module
    tlc -workers 2 -config X.cfg M      # check a run (PROJECT.json lists them)
    tlapm EnvAccessProofs.tla           # check the proofs (and every other *Proofs.tla)

## 1. The system

| component | source | state | operations | interacts with |
|---|---|---|---|---|
| environment monitor | `gestor.c:320-383` | `env.mutex`, `env.count`, per priority a private semaphore and its `blk` | `access_env(prio)`, `release_env(prio)` | every task; the mutex is *handed* to the task that is woken |
| grid, collisions, scores | `gestor.c:52-185, 385-696` | `env.cell[x][y] = (type, value, target)`, `atk_points`, `def_points` | `update_missile_env`, `scan_env_for_target_pos`, `search_screen_for_target` | missiles (by index, through `delete_*_missile`, `assign_target_to_atk`), the screen |
| missile index queues | `launchers.c:29-39, 74-97, 186-327` | `freeIndex`, `headIndex`, `tailIndex`, `next[N]`, mutex, `read_sem`, `write_sem` | `request_atk_launch`, `get_next_index`, `request_def_index`, `splice_index` | main (producer), launchers (consumers), missiles (refill) |
| missile threads | `launchers.c:329-453, 827-845` | `missile_t`: position, `deleted`, `assigned_target`, `index` | movement loop, `clear_missile` | monitor, grid, queue |
| launchers | `launchers.c:470-577, 879-961` | a local index | launch loops | queues, screen and grid, ptask |
| defender aiming | `launchers.c:619-825` | samples of the target's position and time, float interval of the bisection | `collect_positions`, `get_expected_position_x` | scans of the grid |
| display manager | `gestor.c:698-936` | the buffer, the screen | `draw_env`, `blit` | the grid (highest access priority); the defence launcher reads the screen back |
| main | `patriots.c` | the flag `end`, the keyboard | `init`, `spawn_tasks`, SPACE, ESC | the attack queue, every loop that tests `end` |
| deadline checks, messages | `gestor.c:187-228` | none | write to stderr | none |
| ptask, Allegro, Makefile, Dockerfile | external | | | |

Attackers: SPACE → `request_atk_launch` reserves a free index and wakes the attack
launcher, which starts a thread; the thread moves, collides, clears its structure
and gives the index back. Defenders: the defence launcher takes an index, looks on
the screen for red pixels whose cell holds a missile that is not tracked, writes
its index into that cell and missile, and starts a thread, which first scans the
grid for *its index* several times to estimate the trajectory, then climbs.

### What is hard, and what makes each part correct

* **Monitor.** Passing the mutex to a woken task means that the semaphore's value
  alone says nothing: correct is that the mutex always has exactly one owner, that
  at most one task is inside, that no wakeup is lost between the `sem_post` of the
  mutex and the `sem_wait` on the private semaphore, that every blocked priority is
  served, and how many others may go first.
* **Queues.** Two lists share one `next` array and the mutex is passed as above.
  Correct: no index is lost or owned twice, whoever is woken finds an index (the
  `assert`s), an accepted launch takes place.
* **Grid.** Missiles refer to each other by index through cells and flags that are
  read and written at different times. Correct: a cell names a missile that is
  really there (no ghosts after an index is used again), an attacker is worth one
  point at most, each missile ends, the goal survives.
* **Targets.** The defence launcher combines an old frame with the current cells,
  and the index that links defender and attacker outlives the defender. This is
  where the code departs from its documents (section 5).
* **Screen.** The defence launcher finds attackers by reading the screen back: a
  frame is drawn under the lock, copied without it, and searched later. Correct: an
  attacker that is there is found, also when its first defender has missed it.
* **Aiming.** Positions are rounded to pixels, sampled in one period and moved in
  another, and a float bisection picks the column. Correct: defender and attacker
  meet there, before the goal.
* **End.** `end` is only looked at between iterations; nobody wakes a blocked
  launcher.

The list in `PROJECT.json` ("hazards") gives each of these at its line.

## 2. Modules

| module | what it is |
|---|---|
| `EnvLock` | abstract: a lock with waiting tasks and at most one user |
| `EnvAccess` | `access_env` / `release_env`, one action per semaphore operation and the accesses that follow it |
| `EnvOvertaking` | `EnvAccess` with a history variable: which priorities were let in while another is blocked |
| `EnvAccessProofs` | theorems about `EnvAccess`, that it implements `EnvLock`, and the bound of `EnvOvertaking` |
| `IndexPool` | abstract: each index is free, ready, given or flying |
| `FifoQueue` | one `fifo_queue_gestor_t` with its tasks; as the attack or as the defence queue |
| `FifoQueueProofs` | theorems about `FifoQueue`, and that it implements `IndexPool` |
| `Scoreboard` | abstract: an attacker ends once, with the point it is worth |
| `Battlefield` | the grid, missiles, scores, and a defence launcher that may find any untracked missile |
| `BattlefieldProofs` | theorems about `Battlefield`, and that it implements `Scoreboard` |
| `BattlefieldRangeProofs` | the ranges of `Battlefield`'s variables: points, positions |
| `Display` | `Battlefield` with the buffer, the screen and the search of the screen |
| `DisplayProofs` | `Display` implements `Battlefield` |
| `Aiming` | one attacker and its defenders, with the periods, speeds and sizes of the program |
| `AimingProofs` | theorems about `Aiming`: the bisection, and the ranges |
| `AimingMeetingProofs` | theorems about `Aiming`: defender and target meet, and above the goal |
| `NumberTheorems` | a set of numbers has a least one: the induction the other proofs use |
| `MCEnvAccess`, `MCFifoQueue`, `MCBattlefield`, `MCDisplay`, `MCAiming` | instances for TLC |

### How they fit together

`Battlefield` takes what a task does between `access_env` and `release_env` as one
action. That is what "`EnvAccess` implements `EnvLock`" (proved) licenses: at most
one task is inside. `Battlefield` also takes *any* index not in use at a launch,
which "`FifoQueue` implements `IndexPool`" (proved) licenses. `FifoQueue` in turn
assumes that the movement loop of a missile ends, which is `MissilesEnd` of
`Battlefield`. `Battlefield` lets the search find any candidate; `Display` restricts it
to what is on the screen and implements `Battlefield` (proved), so that what is shown
of the one holds however old or torn a frame is. `Battlefield` also takes any column
between the target and a limit as a start; `Aiming` computes the column, and its
bisection stays in that interval (proved).

### State and actions against the code

**EnvAccess.** `mutex`, `count`, `blk[p]`, `sem[p]` are the fields of `env_t`; `pc[t]`
says which semaphore operation a task is about to make. `AccessBusy`/`AccessFree`
are `sem_wait(&env.mutex)` with the tests of lines 334-344 and 349; `Block` is the
`sem_post` of 345; `Woken` the private `sem_wait` with 347 and 349; `Enter` the
`sem_post` of 351; `Release` is 363-365; `HandOver` and `PostMutex` are the two ends
of the loop of 370-382. `Nth(p, k)` is the k-th priority that loop looks at.
Accesses to `count` and `blk` are grouped with the semaphore operation before them
because only the owner of the mutex makes them (`OneOwner`).
The `lock` half of the test in line 342 is kept as it is; given `NoLostWakeup` it is
implied by `count`, at this granularity, whenever the mutex is free.

**FifoQueue.** The variables are the fields of `fifo_queue_gestor_t`, plus `pc` and
`held` (the local `index`) of each task and `thread[i]`, the life of the missile of
index `i`. The attack queue instance has main and the attack launcher, the defence
queue the defence launcher; both have the missile threads that refill it. `Accept` is
`update_queue_head`; `Splice` the relinking of `splice_index`. The branch of
`get_next_index` that finds an index ready is in `GetNextIndex`, although
`request_atk_launch` only accepts a launch for a blocked reader and the program
never takes it. `Chain(start)` is the list that begins at `start`: the smallest set of
indexes that contains it and is closed under `next`.

**Battlefield.** `cell` is `env.cell`; `missile[k][i]` is `atk_gestor.queue[i]` or
`def_gestor.queue[i]`: `pos` is the integer position, `phase` replaces `index`
(`"none"` is `NONE`) and the program counter of the thread. `Step` is one period:
`move_missile` and the whole of `update_missile_env` (deleted or not, emptying the
old cell, `check_borders`, `collision_around` in row-major order, the first
obstacle's deletion and score, the new cell); `CollideAround` is `collision_around`,
whose loops stop at the first obstacle. `Candidates` is `check_pixel` without
the colour, `SearchFinds(c)` what `search_screen_for_target` does with the cell it
finds; `FirstScan` and `LastScan` are the calls of `scan_env_for_target_pos` whose
results are used.

**Display.** `buffer` and `screen` are the pixels in the attackers' colour. `Draw` is
`reset_buffer` and `draw_env` (one critical section): discs and pixels in the order of
the loops, then legend and text over them (`Frame`). `Blit` is `draw_buffer_to_screen`;
until it is done, each pixel that a search asks for may be of the old or of the new frame
(`Copied`): blit and search may be preempted and overtake each other any number of times.
`Disc` is what `circlefill` is asked to draw; Allegro clips it to the bitmap, and the search
never looks at a pixel outside. `SearchScreen` is a search that finds something; one that
does not changes nothing.

**Aiming.** A handler per period: `AtkStep` is `move_missile` and the collisions of an
attacker, `DefStep` of a defender, `FirstSample` and `Sample` are the iterations of
`collect_positions` (`SampleAgain` is its condition), and the last one computes the
start with `StartPosition`. `atk_due` and `def_due` count to the next activations. In
`Late` the comparison of `tmp_dsa` with `dsa` is multiplied out: both contain the
factor sqrt(1 + m^2), and what is left are integers. `UpperHalf` is the nested
conditional of lines 704-707, `Halve` the body of that loop, and `Window` the interval it
starts from.

## 3. Runs

| run | expects | shows |
|---|---|---|
| `env_access` | pass | mutual exclusion, one owner of the mutex, no lost wakeup, exact `blk`, a lock is implemented, each blocked priority is served and sees each other one let in at most once before it |
| `fifo_attack` | pass | attack queue: indexes conserved, woken finds index, an accepted launch flies, a pool is implemented |
| `fifo_defence` | pass | defence queue: the same, and a waiting launcher is served |
| `fifo_space` | violation | a press of SPACE may launch nothing although indexes are free |
| `battlefield` | pass | two missiles of a kind, side by side: no ghosts, right score, a collision ends two missiles and no more |
| `battlefield_ends` | pass | walls, drift and varying starts: no ghosts, field intact, every missile ends |
| `display` | pass | an attacker that stays is assigned a defender, again after a miss |
| `target_unique` | violation | two attackers may carry the same defender's index |
| `target_is_attacker` | violation | a defender may be taken for an attacker |
| `steps_in_grid` | violation | a defender may start outside the array |
| `aiming` | pass | the bisection finds the meeting column, full sampling hits, and above the goal; no attacker reaches the goal |
| `aiming_precision` | violation | sampling goes on although the speeds agree within the precision |

### Bounds, and why they are enough

* **Environment.** Five tasks: the display (priority 0), two attackers (1), a
  defender, which scans at 2 and moves at 1, and the launcher (2). Every priority can
  have a user, a blocked task and a newcomer at once, and priority 1 two blocked
  tasks. The proofs remove the bound for safety. No symmetry is used: the
  run checks liveness.
* **Queues.** N = 4 as in `patriots.h`; one main, one launcher, as in the program.
  Deadlock is not checked: after ESC the tasks end or stay blocked.
* **Battlefield.** The radius is 1 instead of 5: a missile looks at a box of 2 x 2 cells
  instead of 10 x 10. It advances one cell (a defender) or one or two (an attacker) a
  period; in the program at most 2 cells (130 cells/s at 15 ms, 100 cells/s at 10 ms).
  In both a missile never jumps over its own box. What the geometry must allow is that a
  defender meets an attacker: an attacker's first cell must not lie below the row of a
  defender's first step. With `GOAL_START_Y` two rows higher no interception
  would ever happen, and the mutants of `Delete` and `Stop` would not be found.
  `battlefield` has two missiles of a kind in two adjacent columns of a 2 x 9 grid, so that
  one may have two others in its box. It has no walls, to stay small: missiles that
  hit nothing end at the border, through `check_borders`. `battlefield_ends` has one missile
  of a kind on 8 x 12 with walls two cells thick on the left and, as `wall_init_check` has
  it, one on the right, start columns inside and over the walls (a missile that starts
  there takes a cell of the wall away), and drift, so that the trajectory has a slope and
  the start positions of `StartPositions` vary. As in the program, no missile gets past its
  walls, and `check_borders` never stops one. With a radius of 1 the goal and a defender
  are never in one box (with 5 they may be): for that case there is the proof of
  `OneCollision`. `LAUNCHES` = 2 bounds the attackers launched: an index is used again
  when N = 1, two attackers fly together when N = 2. Defenders are not bounded. A start at
  x = XWIN, which the rounding of `frand` allows, is in no run: its first step overwrites
  the semaphores of `env_t`, which the model does not describe.
* **Display.** One attacker on 5 x 8, which in each period may stay, drift to either
  side or fall, so that defenders miss it, and one text pixel. The wall is one cell thick, so
  there is none on the right, and an attacker that drifts out there is stopped by
  `check_borders`; this is a case of the model only. Frames are as old as the display is
  slow. Defenders, and so retries, are not bounded.
* **Aiming.** The program's own constants. Sixteen velocities (upright and the largest
  angles, slow and fast, to both sides, and (-3, 67), for which rounding stops the
  sampling after MIN_SAMPLES), seven columns (five between the walls, and the two borders),
  three delays. Each flight
  is run through step by step; only these choices are bounded, and the
  proofs remove the bound for all but `Intercepts`.
* `StepsInGrid`, `TargetUnique`, `TargetIsAttacker` are violated in grids of the same
  kind, with real frames; the counterexamples use one or two missiles of a kind.
* Deadlock is not checked in the runs of `Battlefield`, `Display` and `Aiming`: the
  player launches no more attackers, and a search that finds nothing is no step.

### Fairness

* `EnvAccess`: weak fairness of each task *inside* the monitor. The tasks are real
  threads, their critical sections are bounded loops; no task has to call
  `access_env` at all. `sem_wait` needs no strong fairness for what is claimed: the
  claim is about a blocked *priority*, served by a handover, not about the mutex.
* `FifoQueue`: weak fairness of main inside `request_atk_launch`, of the launchers in
  the queue operations, of the missile threads (their movement ends: `MissilesEnd`),
  and of the attack launcher's launch. The keyboard owes nothing. The defence
  launcher's launch is not fair: it waits for a target.
* `Battlefield`: weak fairness of each missile's next period, its scans and its
  clearing: periodic tasks. The launchers and the player owe nothing.
* `Display`: weak fairness of drawing, copying, the search and the defenders, all
  periodic tasks. Weak is enough: once an attacker stays where it is, every further
  frame shows it. Nothing is asked of the attackers.
* `Aiming` needs none: its properties are safety.

## 4. Proofs

`EnvAccessProofs` assumes only `EnvAccessAssumption`: a finite set of tasks, at least
one priority, any priorities per task. The invariants the runs check are not
inductive alone: mutual exclusion depends on who owns the mutex, and that on what is
still to be posted. The inductive invariant `IInv` has four parts:

* `Types`: types without the bounds of the counters;
* `Baton`: the mutex is free, or one task owns it, or it was handed to one priority
  that has a blocked task, and nothing else is posted;
* `Users`: at most one task is inside, `count` is 1 while one is (and while a task that
  found the environment busy still owns the mutex), and 0 while a wakeup is under way
  or a task is about to hand over or post the mutex;
* `NoLostWakeup`.

From `SpecIInv` follow `SpecMutualExclusion`, `SpecNoLostWakeup` and `SpecOneOwner`.
`SpecBlkCounts` is a second induction with `IInv`, on cardinalities: `BlockedStep` says how a
step changes the set of tasks blocked at a priority. `SpecTypeOK` adds the bounds of
the counters from it. `SpecImplementsLock` maps every step to `Ask`, `LetIn`, `GiveBack`
or a stutter of `EnvLock`; `IInv` is needed for `LetIn`, whose guard says that nobody is
inside. `NthReachesAll` is the arithmetic fact that the circular scan of
`release_env` visits every priority; without it `PostMutex` could lose a wakeup.

Its last part bounds overtaking (`SpecNoSecondPass`). `release_env` searches the
priorities in a circle that starts after its own, and `Dist(r, p)` says how many it looks
at to find p. The invariant `Behind`: while p is blocked, the priorities that were let in
are no nearer to p, on that circle, than the one that has the environment, and strictly
farther than one it was handed to. A second pass would have to be both. It needs
`EnvAccess`'s `IInv`, since only the task inside moves on along the circle.

`BattlefieldProofs` assumes `BattlefieldAssumption`: sizes are natural numbers, the radius
is not 0, attackers start above the goal. The steps `Drift`, `Fall` and `Climb` are any, so
a missile may jump over cells, and there may be any number of launches. Two inductive
invariants:

* `IInv`: types; an index that the defence launcher holds has no missile; and `CellOwner`.
  `OthersOwn` is the heart of it: a missile that moves erases its old cell, so no cell
  of it is left behind when it stops, and `CollideInv` shows that the cell of the
  missile that is hit goes with its `deleted` flag.
* `FieldInv`: `IInv`, `FieldIntact`, and that no moving missile is over the goal, or over
  the wall except in a start row (`Placed`). The last part is needed because a missile erases the
  cell it leaves without looking; it holds because a missile only advances to a cell
  that it found empty or its own, and needs the radius not to be 0, or `Around` would
  not contain the missile's own cell.

`SpecCellOwner` and `SpecFieldIntact` follow. `SpecImplementsScore` maps each step to one of
`Scoreboard`: `CollideScored` uses `CellOwner` for the missile that was hit, which is in flight
and was not deleted, so that its end is counted once and not again when it finds its
flag. `FirstIsMember` is the fact that the search in grid order returns an obstacle.
`SpecOneCollision` is about the flag `deleted`: `OneChanged` says that no step but a
collision sets it, `CollideFlags` that a collision sets it for one missile, which by
`CellOwner` was in flight, so that exactly this one and the one that moved end.
By `DisplayImplementsBattlefield` all four hold of `DisplaySpec` too.

`DisplayProofs` shows that every step of `DisplaySpec` is a step of `Battlefield`'s `Next`
or leaves its variables alone; the choice of the first pixel never matters, only that
what is found is a candidate.

`FifoQueueProofs` assumes only `FifoQueueAssumption`. Its inductive invariant `IInv`:

* `Types`, and `Baton`: who owns the mutex, said without counting;
* `Wakeups`: a launcher is only woken when an index is there for it, and one is blocked
  for reading (writing) only while nothing is ready (free) or its wakeup is under way;
* `Places`: ready, given and flying indexes are different, and no two launchers hold
  the same one;
* `Links`: the indexes chained from `freeIndex` are exactly those in no other place, no two
  links lead to the same one, none leads back to the first, and the ready index
  has no next.

`Wakeups` and `Links` need each other: `splice_index` relinks before it wakes, so the
index a launcher finds is free because of `Links`, and the list is not empty because of
`Wakeups`. The lemmas `Reach...` and `Move...` say what one assignment to `next` does to
the chains; they rest on `Chain` being the smallest closed set, not on a recursion.
`SpecWokenFindsIndex`, `SpecNoLostWakeup`, `SpecOneOwner` and `SpecConserved` follow.
`SpecImplementsPool` maps each step to one of `IndexPool`; `Links` shows that the index
that is taken was free. `SpecTypeOK` is a second induction, on the
cardinality of the sets of blocked launchers.

`BattlefieldRangeProofs` proves `TypeOK`. Points and attackers in flight together never
exceed the launches (`Points`), since a step that scores also ends an attacker. A position
leaves the grid by one row or column at most (`Place`), since a missile only moves to
a cell. For this `BattlefieldAssumption` says that the goal begins inside the grid (384 of
480 rows) and that a start column fits between the walls (2 + 5 < 640).

`AimingProofs` assumes `AimingAssumption`: any speeds between the limits of `launchers.h`,
any angle at least 30 degrees steep, any starts and delays.

* `BisectStays` and `BisectFinds` are about the bisection. `Bisect` is a recursive function of
  the number of halvings: `HalvesExist` shows that there is one, `RoundsInduction`
  carries a property from the first interval to the last. `LateFalls` is the reason that it
  converges: if the target falls no faster than a defender climbs, the defender is the less
  late the farther on the target's way it waits. `Brackets` is what each halving keeps: late
  at one end, early at the other unless it is the limit. After 16 halvings the
  interval is a hundredth of a pixel.
* `IInv` is about the threads. `Sampled` bounds how far the attacker has fallen since the first
  sample, by the ms that have passed; it gives `Aimed`, that target and samples meet
  `LateFalls`'s condition, because there are at least `MIN_SAMPLES` of them: with four, a
  rounding could make the target look faster than a defender.

`SpecBisectionFindsIntercept` follows. `SpecTypeOK` has the hypothesis that no attacker starts at
x = XWIN: such a start is outside of the grid from the beginning (section 3 and the hazards).
Every other start is covered: at these angles an attacker moves less than a pixel sideways
in a period, so that one in a border column meets the wall before it leaves the grid.

`AimingMeetingProofs` proves from the same assumption that a defender which took all its samples
hits (`SpecFullSamplingHits`), and that it does so above the goal (`SpecFullSamplingSaves`) if the
samples ended while the target was above the defenders' first rows. Such a defender knows the
target's speed only up to three errors: positions are rounded down to cells, 99 sample periods
are N = 148 or 149 periods of the target and up to 5 ms more or less, and the start is
rounded down to a column. The argument does without real numbers:

* `Closing` (Q) and `Gap` (Z) are the speed with which the two close in and the way between them, as
  the defender sees them after the last sample. n periods of the target later the meeting is
  due when n * Q - N * Z, times the speed with which the two really close in, reaches
  `Due(N, Q, Z)`. This offset centres the errors, so that the first n for which the meeting is
  due is one at which target and defender overlap.
* `RowMeets`: the distance of the two in rows, times Q, is a sum of one term per error, each
  linear in that error; it lies between -400 and 500 hundredths of a pixel at that moment.
  `ColumnMeets` does the same for the columns, between -300 and 400 hundredths; here the
  angle counts, which bounds how far the target moves sideways (`SpeedBounds`). `StartNearRoot` relates the column of
  the bisection to the exact one. `InBox` allows 5 pixels on one side and 4 on the other, and
  `Meets` shows that these bounds fit into it.
* A gap of at most 6 pixels is closed in the defender's first period, before the due time makes
  sense: `MeetsAtOnce`.
* `Unmet` is the invariant: while the target of such a defender flies on, the meeting is not due
  (`NotDue`), and the activations of the two threads differ by less than a period
  (`Approaching`). `Sampling` says of the first sample what `Unmet` needs of it, and `AboveGoal`
  where an attacker in flight is. Each step of the attacker either keeps `NotDue` or makes
  the two meet (`AtkStepUnmet`). That the two have not passed each other bounds the
  defender's flight (`NotLater`), which keeps it from the upper wall, and the target's
  (`NotLower`), which keeps that from the goal.

Only model-checked: the liveness properties (`BlockedServed`, `AcceptedFlies`,
`WaitingServed`, `MissilesEnd`, `AttackerIsTracked`), as liveness under fairness is beyond the
provers used here; and `Intercepts`. This one does not hold for every value of the
constants: after a delay that is long enough an attacker is at the goal, whatever a defender does.
Where it holds it depends on how many tries a delay leaves time for when
sampling stopped early; `SpecFullSamplingSaves` is what can be said without that.

## 5. Where the code and its documents disagree

* `fifo_space`: `request_atk_launch` refuses unless the launcher is blocked
  (`launchers.c:226`), and the launcher sleeps half a second after each launch.
  README line 12 promises a missile "if the current number is not over limit".
* `target_unique`: the index that marks an attacker as tracked is not withdrawn when its
  defender ends, and is later assigned to another attacker. The new defender scans for
  its index and may follow the wrong attacker.
* `target_is_attacker`: `check_pixel` looks at the colour of the pixel, not at the type of the
  cell. The red rectangle of the legend, and the disc of an attacker next to it, are
  drawn over a defender.
* `steps_in_grid`: when the target is gone before it is scanned, the start
  position is `NONE`, and the first step empties `env.cell[-1][378]`. The model takes
  the write to change nothing it describes.
* `aiming_precision`: `EPSILON` is an integer division, 0, and not the precision the README
  speaks of. The effect is benign: almost every defender takes all 100 samples, and
  `FullSamplingHits` shows that then it meets its target. Stopping after 20, as equal
  speeds allow, is what makes defenders miss.

## 6. Not modelled, and abstractions to know about

* In `Battlefield` the float arithmetic of `move_missile` is the set of cells a missile
  may advance, and the bisection is the interval its result lies in. It never ends on the
  target's own coordinate, so -1 is a start position only when both scans fail. A
  start at -1 truncates to 0 after the first move.
* In `Aiming` floats are fixed-point numbers of a hundredth of a pixel, velocities are whole
  pixels per second, tasks start exactly at their periods and the measured times are
  exact. In the program they are not, so equal speeds are rarer still. The scans and
  moves of one period are instantaneous. The first step of a defender empties the cell it
  starts from (row 378): an attacker exactly there is not found by that step, but finds the
  defender in its next period, 10 ms at most later. `DefStep` lets the two collide at once.
* Except in `Aiming`, deadlines, periods and priorities of the scheduler are not timed: every interleaving
  is allowed, which includes those the periods exclude.
* `missile_t.mutex` and `private_sem_t.count` are initialised and never used.
* The game is modelled up to ESC in `Battlefield` and `Display`: after it `main` calls
  `allegro_exit` and returns, which ends the process. What a task does to the screen in
  that time is up to Allegro.
* `ptask_create` is taken to succeed.
* Reads of `deleted` and of `index` outside their locks are atomic reads of an int. A search
  is one action: that a defender ends between two of its tests, so that an attacker passed
  over is untracked when another one below it is chosen, is not a step of `Display`, but
  `Battlefield`, which lets the search find any untracked missile, has it.
* A write outside the array of cells is taken to hit nothing that is modelled (`Erase`).

## 7. Plan

Done: every component with its model, and proofs of every safety invariant and action property
the passing runs check, except `Intercepts`. What could follow:

1. Bounds of the delay for which `Intercepts` holds: if all samples are taken,
   `SpecFullSamplingSaves` needs the target above row 372 some 1.5 s after the launch; if not, the speeds for which
   rounding stops the sampling early, and how far such a defender misses.
2. The start at x = XWIN (section 3), with the layout of `env_t` around its grid.

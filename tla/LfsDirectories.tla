--------------------------- MODULE LfsDirectories ---------------------------
(***************************************************************************)
(* What littlefs promises of its directories: a call takes effect at once, *)
(* at most once, and before it returns; a loss of power loses no more than *)
(* the call under way.  LfsTree implements it.                             *)
(***************************************************************************)
EXTENDS Integers, Sequences, FiniteSets

VARIABLES
  tree,   \* what is at each path: "dir", or which file
  call,   \* the call under way, or the last, and what the tree was before
  phase   \* of the call: it has begun, is done, or how it ended

vars == <<tree, call, phase>>

Parents(p) == SubSeq(p, 1, Len(p) - 1)
IsDir(t, p) == p = << >> \/ (p \in DOMAIN t /\ t[p] = "dir")
Under(p, q) == Len(q) >= Len(p) /\ SubSeq(q, 1, Len(p)) = p
Empty(t, p) == \A q \in DOMAIN t : Under(p, q) => q = p
Without(t, p) == [q \in DOMAIN t \ {p} |-> t[q]]
With(t, p, what) == [q \in DOMAIN t \cup {p} |-> IF q = p THEN what ELSE t[q]]

\* Everything under p moves along.
Moved(t, p, to) ==
  LET place(q) == to \o SubSeq(q, Len(p) + 1, Len(q))
      moving == {q \in DOMAIN t : Under(p, q)}
      staying == DOMAIN t \ (moving \cup {to})
  IN [q \in staying \cup {place(r) : r \in moving} |->
        IF q \in staying THEN t[q] ELSE t[CHOOSE r \in moving : place(r) = q]]

Replaceable(t, p, to) ==
  to \in DOMAIN t => /\ t[to] = "dir" <=> t[p] = "dir"
                     /\ t[to] = "dir" => Empty(t, to) \/ to = p

Allowed(t, c) ==
  CASE c.op \in {"mkdir", "create"} -> c.path \notin DOMAIN t /\ IsDir(t, Parents(c.path))
    [] c.op = "remove" -> c.path \in DOMAIN t /\ Empty(t, c.path)
    [] c.op = "rename" -> c.path \in DOMAIN t /\ IsDir(t, Parents(c.to)) /\ Replaceable(t, c.path, c.to)

After(t, c) ==
  CASE c.op = "mkdir" -> With(t, c.path, "dir")
    [] c.op = "create" -> With(t, c.path, c.what)
    [] c.op = "remove" -> Without(t, c.path)
    [] c.op = "rename" -> IF c.to = c.path THEN t ELSE Moved(t, c.path, c.to)

Idle == phase \notin {"begun", "done"}
Begun == phase = "begun" /\ UNCHANGED call
Effect == Allowed(call.before, call) /\ tree' = After(call.before, call)

Starts == Idle /\ phase' = "begun" /\ call'.before = tree /\ UNCHANGED tree
TakesEffect == Begun /\ phase' = "done" /\ Effect
\* A call may take effect as it returns.
Returns == phase' = "ok" /\ UNCHANGED call /\ (IF phase = "begun" THEN Effect ELSE phase = "done" /\ UNCHANGED tree)
Refuses == Begun /\ phase' = "refused" /\ ~ Allowed(call.before, call) /\ UNCHANGED tree
RunsOut == Begun /\ phase' = "full" /\ UNCHANGED tree
LosesPower == phase' = "cut" /\ UNCHANGED tree
Next == Starts \/ TakesEffect \/ Returns \/ Refuses \/ RunsOut \/ LosesPower
Spec == [][Next]_vars
=============================================================================

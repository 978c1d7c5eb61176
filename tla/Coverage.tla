------------------------------ MODULE Coverage ------------------------------
(***************************************************************************)
(* What can be said of a plan before it is run.  Each module is judged from *)
(* its own recipe and what the modules it requires leave behind, not from   *)
(* the runs; that runs of a plan so judged go well is proved, for every     *)
(* catalog, in Provision_proofs.                                            *)
(*                                                                          *)
(* `calm` is the claim about runs without a mishap; otherwise commands may  *)
(* fail and runs may be killed.                                             *)
(***************************************************************************)
EXTENDS Provision

Given(steps) == UNION {steps[k].gives : k \in DOMAIN steps}

(* The facts that some step of the platform's catalog takes away, or leaves *)
(* torn. Only the others can be counted on once they are there.             *)
LostTable ==
  LET recipe == Recipe
  IN [mach \in Machines |-> [calm \in BOOLEAN |->
       UNION {UNION {recipe[mach.os][n].steps[k].takes
                       \cup (IF calm THEN {} ELSE recipe[mach.os][n].steps[k].torn) :
                     k \in DOMAIN recipe[mach.os][n].steps} : n \in DOMAIN recipe[mach.os]}]]
Lost(mach, calm) == LostTable[mach][calm]

(* The left out groups of steps that an install at step i has come past,    *)
(* and that would have carried it over step j.                              *)
JumpsOver(steps, j, i) ==
  {h \in 1..j : steps[h].unless # {} /\ j < h + steps[h].over /\ h + steps[h].over <= i}

(* An install at step i did not leave step j out.                           *)
ComesBy(steps, j, i) == j < i /\ JumpsOver(steps, j, i) = {}

(* Without a mishap the step after step k is done too.                      *)
Follows(steps, k, lost) ==
  /\ k + 1 \in DOMAIN steps
  /\ steps[k + 1].unless = {}
  /\ steps[k + 1].needs \subseteq steps[k].gives \ lost

(* What is there when step k has been done.                                 *)
Backs(steps, k, calm, lost) ==
  (steps[k].needs \cup steps[k].gives
     \cup (UNION {steps[j].gives : j \in {j \in 1..k : ComesBy(steps, j, k) /\ steps[j].checked}})
     \cup (IF calm /\ Follows(steps, k, lost) THEN steps[k + 1].gives ELSE {}))
  \ lost

(* A fact is tied to those that whatever brings it brings too: each step    *)
(* that gives it, the machine, the user.                                    *)
TieTable ==
  LET recipe == Recipe
      shipped == Shipped
  IN [mach \in Machines |-> [calm \in BOOLEAN |->
       LET backing(g) ==
             UNION {{Backs(recipe[mach.os][n].steps, k, calm, Lost(mach, calm)) :
                       k \in {k \in DOMAIN recipe[mach.os][n].steps :
                                g \in recipe[mach.os][n].steps[k].gives}} :
                    n \in DOMAIN recipe[mach.os]}
       IN [g \in UNION {Given(recipe[mach.os][n].steps) : n \in DOMAIN recipe[mach.os]} |->
            {f \in UNION backing(g) :
               /\ \A B \in backing(g) : f \in B
               /\ g \in shipped[mach] => f \in shipped[mach]
               /\ g \in UserFacts => f \in UserFacts}]]]

(* Facts, and those they are tied to.                                       *)
Grown(mach, calm, X) ==
  LET ties == TieTable[mach][calm]
  IN X \cup UNION {ties[g] : g \in X \cap DOMAIN ties}

-----------------------------------------------------------------------------
(* One module of plan p                                                     *)

ModuleAt(mach, p, i) == Recipe[mach.os][p[i]]

(* What is there when the turn of p[i] comes and nothing it requires has    *)
(* failed.                                                                  *)
Have(mach, p, i, calm) ==
  LET required == {j \in DOMAIN p : /\ j < i
                                    /\ p[j] \in ModuleAt(mach, p, i).requires
                                    /\ ~SkippedOn(mach, ModuleAt(mach, p, j))}
      brought == UNION {ModuleAt(mach, p, j).reads : j \in required}
      base == (Shipped[mach] \cup UserFacts \cup brought) \ Lost(mach, calm)
  IN Grown(mach, calm, Grown(mach, calm, base))

(* And when its install is at step k, and did the steps of T it came by.    *)
Sure(mach, calm, steps, have, T, k) ==
  have \cup UNION {{f \in steps[j].gives \ Lost(mach, calm) :
                       \A h \in JumpsOver(steps, j, k) : f \in Grown(mach, calm, steps[h].unless)} :
                   j \in {j \in T : j < k}}

(* It can do the steps of T.                                                *)
Sound(mach, calm, steps, have, T) ==
  \A j \in T : steps[j].needs \subseteq Sure(mach, calm, steps, have, T, j)

(* Its install gets to its end, or to a return it may take, with what its   *)
(* verify reads.                                                            *)
Through(mach, calm, mod, have, T) ==
  LET sure(j) == Sure(mach, calm, mod.steps, have, T, j)
  IN /\ Sound(mach, calm, mod.steps, have, T)
     /\ \A j \in DOMAIN mod.steps \ T :
          \/ mod.steps[j].unless # {} /\ mod.steps[j].unless \subseteq sure(j)
          \/ mod.steps[j].stops /\ mod.reads \subseteq sure(j)
          \/ ~mod.steps[j].stops /\ ~mod.steps[j].checked
     /\ mod.reads \subseteq sure(Len(mod.steps) + 1)

(* A module never fails of itself.                                          *)
Covered(mach, p, i, calm) ==
  LET have == Have(mach, p, i, calm)
      mod == ModuleAt(mach, p, i)
  IN \/ mod.reads \subseteq have
     \/ \E U \in SUBSET DOMAIN mod.steps : Through(mach, calm, mod, have, DOMAIN mod.steps \ U)

(* "requires" is complete, but for the modules that are listed.             *)
Excused(mach, calm) == Gaps[mach.os] \cup (IF calm THEN {} ELSE Fragile)

Suffices(mach, p, calm) ==
  \A i \in DOMAIN p : \/ p[i] \in Excused(mach, calm)
                      \/ SkippedOn(mach, ModuleAt(mach, p, i))
                      \/ Covered(mach, p, i, calm)

-----------------------------------------------------------------------------
(* Its place among the others                                               *)

(* What there may be when the turn of p[i] comes.                           *)
Before(mach, p, i) ==
  Shipped[mach] \cup UserFacts
    \cup UNION {Given(ModuleAt(mach, p, m).steps) : m \in {m \in DOMAIN p : m < i}}

(* Step k of p[m] comes after step j of p[i].                               *)
IsAfter(m, k, i, j) == i < m \/ (i = m /\ j < k)

GivenAfter(mach, p, i, j) ==
  UNION {UNION {ModuleAt(mach, p, m).steps[k].gives :
                  k \in {k \in DOMAIN ModuleAt(mach, p, m).steps : IsAfter(m, k, i, j)}} :
         m \in DOMAIN p}

(* Without this fact, which it does not bring itself, the module fails: all *)
(* its steps that bring something its verify reads need it.                 *)
Vital(mach, p, i, x) ==
  LET mod == ModuleAt(mach, p, i)
  IN /\ x \notin Given(mod.steps) \cup Lost(mach, TRUE)
     /\ \E g \in mod.reads \ Before(mach, p, i) :
          \A k \in DOMAIN mod.steps : g \in mod.steps[k].gives => x \in mod.steps[k].needs

(* What its steps need, and comes later in the plan, is there before as     *)
(* well, or the module fails without it.                                    *)
InTime(mach, p, i, have, T) ==
  LET steps == ModuleAt(mach, p, i).steps
  IN /\ Sound(mach, TRUE, steps, have, T)
     /\ \A j \in DOMAIN steps : \A x \in steps[j].needs \cap GivenAfter(mach, p, i, j) :
          x \in Sure(mach, TRUE, steps, have, T, j) \/ Vital(mach, p, i, x)

(* No module before it can make its verify content.                         *)
New(mach, p, i) == ~(ModuleAt(mach, p, i).reads \subseteq Before(mach, p, i))

(* Or there is then nothing for its install to do.                          *)
Whole(mach, p, i, have) ==
  LET mod == ModuleAt(mach, p, i)
      known == Grown(mach, TRUE, have \cup (mod.reads \ Lost(mach, TRUE)))
  IN \A j \in DOMAIN mod.steps :
       \/ mod.steps[j].gives \subseteq known
       \/ \E h \in 1..j : LET s == mod.steps[h]
                         IN \/ s.unless # {} /\ s.unless \subseteq known /\ j < h + s.over
                            \/ s.stops /\ ~(s.needs \subseteq Before(mach, p, Len(p) + 1))

(* What it brings, and what makes it leave steps out, is not taken away.    *)
Stays(mach, p, i) ==
  LET steps == ModuleAt(mach, p, i).steps
  IN \A j \in DOMAIN steps : \A m \in DOMAIN p : \A k \in DOMAIN ModuleAt(mach, p, m).steps :
       (IsAfter(m, k, i, j) \/ (m = i /\ k = j)) =>
         ModuleAt(mach, p, m).steps[k].takes \cap (steps[j].gives \cup steps[j].unless) = {}

(* "after" is complete.                                                     *)
Ordered(mach, p) ==
  \A i \in DOMAIN p :
    \/ SkippedOn(mach, ModuleAt(mach, p, i))
    \/ LET have == Have(mach, p, i, TRUE)
           steps == ModuleAt(mach, p, i).steps
       IN /\ \E U \in SUBSET DOMAIN steps : InTime(mach, p, i, have, DOMAIN steps \ U)
          /\ New(mach, p, i) \/ Whole(mach, p, i, have)
          /\ Stays(mach, p, i)

-----------------------------------------------------------------------------
(* All plans                                                                *)

AllSuffice(calm) == \A mach \in Machines : \A p \in Plans[mach.os] : Suffices(mach, p, calm)
AllOrdered == \A mach \in Machines : \A p \in Plans[mach.os] : Ordered(mach, p)

(* Every plan whose first run begins is good: what an install needs is      *)
(* brought by what its module requires, with and without a mishap, or the   *)
(* module is listed as a gap or as fragile; and nothing is brought too late.*)
GoodPlan ==
  [][runs = 0 => /\ Suffices(machine, plan, TRUE)
                 /\ Suffices(machine, plan, FALSE)
                 /\ Ordered(machine, plan)]_vars
=============================================================================

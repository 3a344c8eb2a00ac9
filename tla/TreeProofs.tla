----------------------------- MODULE TreeProofs -----------------------------
(***************************************************************************)
(* The balanced tree for any keys and traversers, under any sequence of    *)
(* calls, and its copy for any tree, wherever the copy fails.              *)
(*                                                                         *)
(* What is under a node, how high it is and which link leads to it are     *)
(* recursive in the links.  The invariant says that there are a T, an h    *)
(* and a P with the equations of the three at each node; a step gives new  *)
(* ones, which differ at the nodes of the way, and only the equations at   *)
(* the nodes whose links or balances change have to be looked at.          *)
(*                                                                         *)
(* Of the copy, each node that is made is finished or waits on the stack;  *)
(* what is given back is a tree again at every step, which loses a node or *)
(* is turned to the right.                                                 *)
(***************************************************************************)
EXTENDS AvlCopy, BasicFacts, FiniteSetTheorems

-----------------------------------------------------------------------------
(* The tree.                                                               *)
Places == AvlNodes \cup {NULLNODE}
Parents == AvlNodes \cup {Anchor}
Steps == [node : Parents, side : Sides]

(* k lies on side d of n.                                                  *)
On(d, k, n) == IF d = 1 THEN n < k ELSE k < n

LinkType(link) == link \in [Parents -> [Sides -> Places]]

(* The nodes of N hang together below the anchor, each from one link, and  *)
(* T[n] are the keys below n, in their order.                              *)
Shaped(link, N, T, P) ==
  /\ N \subseteq AvlNodes
  /\ T \in [Places -> SUBSET AvlNodes] /\ P \in [Places -> Steps]
  /\ \A m \in N \cup {Anchor}, d \in Sides : link[m][d] \in N \cup {NULLNODE}
  /\ \A m \in N \cup {Anchor}, d \in Sides : link[m][d] # NULLNODE => P[link[m][d]] = Step(m, d)
  /\ T[NULLNODE] = {} /\ T[link[Anchor][0]] = N /\ link[Anchor][1] = NULLNODE
  /\ \A m \in N : T[m] \subseteq N /\ T[m] = {m} \cup T[link[m][0]] \cup T[link[m][1]]
  /\ \A m \in N, d \in Sides : \A k \in T[link[m][d]] : On(d, k, m)

(* h[n] is the height below n, and the balances are right, but that the    *)
(* subtree of the step low is lower by one than its node knows.            *)
Known(link, h, low, m, d) == h[link[m][d]] + (IF low = Step(m, d) THEN 1 ELSE 0)

Levelled(b, l, r, height) ==
  /\ b = r - l /\ b \in {-1, 0, 1}
  /\ height = 1 + (IF l < r THEN r ELSE l)

Balanced(link, balance, N, h, low) ==
  /\ h \in [Places -> Nat] /\ h[NULLNODE] = 0
  /\ \A m \in N : Levelled(balance[m], Known(link, h, low, m, 0), Known(link, h, low, m, 1), h[m])

-----------------------------------------------------------------------------
(* Links that are set, one after the other.                                *)
LEMMA HungIs ==
  ASSUME NEW link, LinkType(link), NEW step \in Steps, NEW n \in Places
  PROVE  /\ LinkType(Hung(link, step, n))
         /\ \A m \in Parents, d \in Sides :
              Hung(link, step, n)[m][d] = IF Step(m, d) = step THEN n ELSE link[m][d]
<1> USE DEF LinkType, Steps
<1>1. link[step.node] \in [Sides -> Places]
  OBVIOUS
<1>2. [link[step.node] EXCEPT ![step.side] = n] \in [Sides -> Places]
  BY <1>1
<1>3. Hung(link, step, n) = [link EXCEPT ![step.node] = [link[step.node] EXCEPT ![step.side] = n]]
  BY DEF Hung
<1>4. step = Step(step.node, step.side)
  BY DEF Step
<1>5. \A m, d : Step(m, d) = step <=> m = step.node /\ d = step.side
  BY <1>4 DEF Step
<1>6. ASSUME NEW m \in Parents, NEW d \in Sides
      PROVE  Hung(link, step, n)[m][d] = IF Step(m, d) = step THEN n ELSE link[m][d]
  BY <1>1, <1>2, <1>3, <1>5
<1> QED BY <1>2, <1>3, <1>6

LEMMA StepIs ==
  ASSUME NEW m, NEW d
  PROVE  /\ Step(m, d).node = m /\ Step(m, d).side = d
         /\ m \in Parents /\ d \in Sides => Step(m, d) \in Steps
         /\ \A n, e : Step(m, d) = Step(n, e) <=> m = n /\ d = e
BY DEF Step, Steps

(* The numbers that stand for nodes and sides.                             *)
LEMMA NumbersOf ==
  /\ AvlNodes \subseteq Nat \ {0} /\ NULLNODE \notin AvlNodes /\ Anchor \notin AvlNodes
  /\ NULLNODE # Anchor /\ Anchor \notin Places
  /\ \A d \in Sides : 1 - d \in Sides /\ 1 - d # d /\ 1 - (1 - d) = d
  /\ \A d, e \in Sides : e = d \/ e = 1 - d
  /\ \A d \in Sides : Sign(d) \in {-1, 1} /\ Sign(1 - d) = -Sign(d)
<1>1. AvlNodes \subseteq Nat \ {0}
  BY AvlAssumption DEF AvlNodes
<1>2. NULLNODE \notin AvlNodes /\ Anchor \notin AvlNodes /\ NULLNODE # Anchor
  BY <1>1 DEF NULLNODE, Anchor
<1>3. \A d \in Sides : 1 - d \in Sides /\ 1 - d # d /\ 1 - (1 - d) = d
  BY DEF Sides
<1>4. \A d, e \in Sides : e = d \/ e = 1 - d
  BY DEF Sides
<1>5. \A d \in Sides : Sign(d) \in {-1, 1} /\ Sign(1 - d) = -Sign(d)
  BY DEF Sides, Sign
<1> QED BY <1>1, <1>2, <1>3, <1>4, <1>5 DEF Places

(* The nodes of a tree, what hangs at them, and the links they have.       *)
LEMMA ShapedIs ==
  ASSUME NEW link, NEW N, NEW T, NEW P, Shaped(link, N, T, P)
  PROVE  /\ N \subseteq AvlNodes /\ N \subseteq Places /\ N \subseteq Parents
         /\ NULLNODE \notin N /\ Anchor \notin N
         /\ \A m \in N, d \in Sides :
              /\ 1 - d \in Sides /\ link[m][d] \in Places /\ link[m][1 - d] \in Places
              /\ Step(m, d) \in Steps /\ Step(m, 1 - d) \in Steps
<1>1. N \subseteq AvlNodes /\ N \subseteq Places /\ N \subseteq Parents
  BY DEF Shaped, Places, Parents
<1>2. NULLNODE \notin N /\ Anchor \notin N
  BY <1>1, NumbersOf
<1>3. ASSUME NEW m \in N, NEW d \in Sides
      PROVE  /\ 1 - d \in Sides /\ link[m][d] \in Places /\ link[m][1 - d] \in Places
             /\ Step(m, d) \in Steps /\ Step(m, 1 - d) \in Steps
  <2>1. 1 - d \in Sides
    BY NumbersOf
  <2>2. link[m][d] \in N \cup {NULLNODE} /\ link[m][1 - d] \in N \cup {NULLNODE}
    BY <2>1 DEF Shaped
  <2>3. link[m][d] \in Places /\ link[m][1 - d] \in Places
    BY <1>1, <2>2 DEF Places
  <2>4. Step(m, d) \in Steps /\ Step(m, 1 - d) \in Steps
    BY <1>1, <2>1, StepIs
  <2> QED BY <2>1, <2>3, <2>4
<1> QED BY <1>1, <1>2, <1>3

-----------------------------------------------------------------------------
(* The rotations.  z is the link to y, which is too high on side d, and x  *)
(* the node there; in a double rotation w is the inner child of x.         *)
LinksOnce(old, new, x, y, z, d) ==
  \A m \in Parents, e \in Sides :
    new[m][e] = IF Step(m, e) = z THEN x
                ELSE IF Step(m, e) = Step(y, d) THEN old[x][1 - d]
                ELSE IF Step(m, e) = Step(x, 1 - d) THEN y
                ELSE old[m][e]

LinksTwice(old, new, w, x, y, z, d) ==
  \A m \in Parents, e \in Sides :
    new[m][e] = IF Step(m, e) = z THEN w
                ELSE IF Step(m, e) = Step(x, 1 - d) THEN old[w][d]
                ELSE IF Step(m, e) = Step(w, d) THEN x
                ELSE IF Step(m, e) = Step(y, d) THEN old[w][1 - d]
                ELSE IF Step(m, e) = Step(w, 1 - d) THEN y
                ELSE old[m][e]

(* What hangs at a link is below its node, and apart from what hangs at    *)
(* the other.                                                              *)
Nested(link, N, T) ==
  /\ \A m \in N : T[m] \subseteq AvlNodes /\ T[m] \subseteq N /\ m \in T[m]
  /\ \A m \in N, d \in Sides :
       /\ link[m][d] \in N \cup {NULLNODE}
       /\ T[link[m][d]] \subseteq T[m] /\ m \notin T[link[m][d]]
       /\ T[m] = {m} \cup T[link[m][d]] \cup T[link[m][1 - d]]
       /\ \A k \in T[link[m][d]] : k \notin T[link[m][1 - d]]

LEMMA NestedIs ==
  ASSUME NEW link, NEW N, NEW T, NEW P, Shaped(link, N, T, P)
  PROVE  Nested(link, N, T)
<1> USE DEF Shaped
<1>1. \A m \in N : T[m] \subseteq AvlNodes /\ T[m] \subseteq N /\ m \in Nat /\ m \in T[m]
  BY NumbersOf DEF Places
<1>2. ASSUME NEW m \in N, NEW d \in Sides PROVE T[m] = {m} \cup T[link[m][d]] \cup T[link[m][1 - d]]
  BY DEF Sides
<1>3. ASSUME NEW m \in N, NEW d \in Sides, NEW k \in T[link[m][d]]
      PROVE  k \notin T[link[m][1 - d]] /\ k # m /\ k \in T[m]
  <2>1. k \in T[m]
    BY <1>2
  <2>2. k \in Nat /\ m \in Nat /\ On(d, k, m)
    BY <1>1, <2>1, NumbersOf
  <2>3. ~ On(1 - d, k, m) /\ k # m
    BY <2>2 DEF On, Sides
  <2> QED BY <2>1, <2>3, NumbersOf
<1> QED BY <1>1, <1>2, <1>3 DEF Nested

(* The link above a node is not one of the node, nor of what is below it.  *)
LEMMA AboveIs ==
  ASSUME NEW link, NEW N, NEW T, NEW P, Shaped(link, N, T, P),
         NEW z \in Steps, z.node \in N \cup {Anchor}, NEW y \in N, link[z.node][z.side] = y
  PROVE  z.node \notin T[y]
<1> SUFFICES ASSUME z.node \in T[y] PROVE FALSE
  OBVIOUS
<1>1. z.side \in Sides
  BY DEF Steps
<1>2. Nested(link, N, T)
  BY NestedIs
<1>3. z.node \in N
  BY <1>2, NumbersOf DEF Nested
<1> QED BY <1>1, <1>2, <1>3 DEF Nested
(* A rotation hangs what was below y below the new top, in its order.      *)
LEMMA OnceShaped ==
  ASSUME NEW link, NEW N, NEW T, NEW P, Shaped(link, N, T, P),
         NEW y \in N, NEW d \in Sides, NEW x \in N, link[y][d] = x,
         NEW z \in Steps, z.node \in N \cup {Anchor}, link[z.node][z.side] = y,
         NEW new, LinksOnce(link, new, x, y, z, d)
  PROVE  \E U, Q : Shaped(new, N, U, Q)
<1> DEFINE c == link[x][1 - d]
           U == [T EXCEPT ![x] = T[y], ![y] = {y} \cup T[link[y][1 - d]] \cup T[c]]
           Q == [P EXCEPT ![x] = z, ![y] = Step(x, 1 - d), ![c] = Step(y, d)]
<1>1. Nested(link, N, T) /\ z.node \notin T[y]
  BY NestedIs, AboveIs
<1>2. z.side \in Sides /\ z = Step(z.node, z.side) /\ 1 - d \in Sides /\ N \subseteq Places /\ N \subseteq Parents
  BY NumbersOf DEF Steps, Step, Shaped, Places, Parents
<1>3. x # y /\ z.node # x /\ z.node # y /\ c # x /\ c # y /\ c \in N \cup {NULLNODE}
  BY <1>1, <1>2, NumbersOf DEF Nested, Shaped
<1>4. /\ U \in [Places -> SUBSET AvlNodes] /\ Q \in [Places -> Steps]
      /\ U[x] = T[y] /\ U[y] = {y} \cup T[link[y][1 - d]] \cup T[c]
      /\ \A n \in Places : n # x /\ n # y => U[n] = T[n]
      /\ Q[x] = z /\ Q[y] = Step(x, 1 - d) /\ Q[c] = Step(y, d)
      /\ \A n \in Places : n # x /\ n # y /\ n # c => Q[n] = P[n]
  BY <1>1, <1>2, <1>3, StepIs DEF Shaped, Places, Nested, Parents
<1> HIDE DEF U, Q
<1>5. ASSUME NEW m \in N \cup {Anchor}, NEW e \in Sides
      PROVE  /\ new[m][e] = IF m = z.node /\ e = z.side THEN x
                            ELSE IF m = y /\ e = d THEN c
                            ELSE IF m = x /\ e = 1 - d THEN y ELSE link[m][e]
             /\ link[m][e] = y => m = z.node /\ e = z.side
             /\ link[m][e] = x => m = y /\ e = d
             /\ link[m][e] = c /\ c # NULLNODE => m = x /\ e = 1 - d
  <2>1. m \in Parents
    BY <1>2 DEF Parents
  <2>2. \A n, f : Step(m, e) = Step(n, f) <=> m = n /\ e = f
    BY StepIs
  <2>3. Step(m, e) = z <=> m = z.node /\ e = z.side
    BY <1>2, <2>2
  <2>4. new[m][e] = IF Step(m, e) = z THEN x ELSE IF Step(m, e) = Step(y, d) THEN c
                    ELSE IF Step(m, e) = Step(x, 1 - d) THEN y ELSE link[m][e]
    BY <2>1 DEF LinksOnce
  <2>5. /\ link[m][e] = y => P[y] = Step(m, e)
        /\ link[m][e] = x => P[x] = Step(m, e)
        /\ link[m][e] = c /\ c # NULLNODE => P[c] = Step(m, e)
    BY NumbersOf DEF Shaped
  <2>6. P[y] = z /\ P[x] = Step(y, d) /\ (c # NULLNODE => P[c] = Step(x, 1 - d))
    <3>1. x # NULLNODE /\ y # NULLNODE
      BY ShapedIs
    <3>2. \A n \in N \cup {Anchor}, f \in Sides : link[n][f] # NULLNODE => P[link[n][f]] = Step(n, f)
      BY DEF Shaped
    <3>3. P[y] = z
      BY <1>2, <3>1, <3>2
    <3>4. P[x] = Step(y, d)
      BY <3>1, <3>2
    <3>5. c # NULLNODE => P[c] = Step(x, 1 - d)
      BY <1>2, <3>2
    <3> QED BY <3>3, <3>4, <3>5
  <2> QED BY <2>2, <2>3, <2>4, <2>5, <2>6
<1>6. \A m \in N \cup {Anchor}, e \in Sides : new[m][e] \in N \cup {NULLNODE}
  BY <1>3, <1>5 DEF Shaped
<1>7. ASSUME NEW m \in N \cup {Anchor}, NEW e \in Sides, new[m][e] # NULLNODE
      PROVE  Q[new[m][e]] = Step(m, e)
  <2>1. \A n \in N \cup {Anchor}, f \in Sides : link[n][f] # NULLNODE => P[link[n][f]] = Step(n, f)
    BY DEF Shaped
  <2> QED BY <1>2, <1>3, <1>4, <1>5, <1>6, <1>7, <2>1
<1>8. ASSUME NEW m \in N, NEW e \in Sides, m # x, m # y PROVE U[new[m][e]] = T[link[m][e]]
  <2>1. link[m][e] \in N \cup {NULLNODE}
    BY DEF Shaped
  <2> QED BY <1>2, <1>3, <1>4, <1>5, <1>8, <2>1 DEF Places
<1>9. /\ U[new[x][d]] = T[link[x][d]] /\ U[new[x][1 - d]] = {y} \cup T[link[y][1 - d]] \cup T[c]
      /\ U[new[y][d]] = T[c] /\ U[new[y][1 - d]] = T[link[y][1 - d]]
  <2>1. link[x][d] \in N \cup {NULLNODE} /\ link[y][1 - d] \in N \cup {NULLNODE}
    BY <1>2 DEF Shaped
  <2>2. link[x][d] # x /\ link[x][d] # y /\ link[y][1 - d] # x /\ link[y][1 - d] # y
    BY <1>2, <1>3, <1>5, NumbersOf
  <2>3. new[x][d] = link[x][d] /\ new[y][d] = c /\ new[x][1 - d] = y /\ new[y][1 - d] = link[y][1 - d]
    BY <1>2, <1>3, <1>5, NumbersOf
  <2> QED BY <1>2, <1>3, <1>4, <2>1, <2>2, <2>3 DEF Places
<1>10. ASSUME NEW m \in N
       PROVE  /\ U[m] = {m} \cup U[new[m][0]] \cup U[new[m][1]]
              /\ \A e \in Sides : \A k \in U[new[m][e]] : On(e, k, m)
  <2>1. CASE m # x /\ m # y
    BY <1>2, <1>4, <1>8, <2>1 DEF Shaped, Sides
  <2>2. T[y] = {y} \cup T[x] \cup T[link[y][1 - d]] /\ T[x] = {x} \cup T[link[x][d]] \cup T[c]
    BY <1>1, <1>2 DEF Nested
  <2>3. U[m] = {m} \cup U[new[m][0]] \cup U[new[m][1]] <=> U[m] = {m} \cup U[new[m][d]] \cup U[new[m][1 - d]]
    BY DEF Sides
  <2>4. /\ \A k \in T[x] : On(d, k, y)
        /\ \A k \in T[link[y][1 - d]] : On(1 - d, k, y)
        /\ \A k \in T[link[x][d]] : On(d, k, x) 
        /\ \A k \in T[c] : On(1 - d, k, x)
    BY <1>2 DEF Shaped
  <2>5. x \in T[x] /\ T[c] \subseteq T[x] /\ T[x] \subseteq T[y] /\ T[link[y][1 - d]] \subseteq T[y]
        /\ T[y] \subseteq Nat /\ y \in Nat /\ x \in Nat
    <3>1. x \in T[x] /\ T[c] \subseteq T[x] /\ T[x] \subseteq T[y] /\ T[link[y][1 - d]] \subseteq T[y]
          /\ T[y] \subseteq AvlNodes /\ y \in T[y]
      BY <1>1, <1>2 DEF Nested
    <3> QED BY <3>1, NumbersOf
  <2>6. CASE m = y
    <3>1. \A e \in Sides : \A k \in U[new[m][e]] : On(e, k, m)
      BY <1>9, <2>4, <2>5, <2>6, NumbersOf
    <3> QED BY <1>4, <1>9, <2>3, <2>6, <3>1
  <2>7. CASE m = x
    <3>1. On(1 - d, y, x) /\ \A k \in T[link[y][1 - d]] : On(1 - d, k, x)
      BY <2>4, <2>5 DEF On, Sides
    <3>2. \A e \in Sides : \A k \in U[new[m][e]] : On(e, k, m)
      BY <1>9, <2>4, <2>7, <3>1, NumbersOf
    <3> QED BY <1>4, <1>9, <2>2, <2>3, <2>7, <3>2
  <2> QED BY <2>1, <2>6, <2>7
<1>11. U[new[Anchor][0]] = N /\ new[Anchor][1] = NULLNODE /\ U[NULLNODE] = {}
  <2>1. Anchor # x /\ Anchor # y /\ 0 \in Sides /\ 1 \in Sides /\ NULLNODE \in Places
    BY NumbersOf DEF Sides, Shaped, Places
  <2>2. new[Anchor][0] = (IF Anchor = z.node /\ 0 = z.side THEN x ELSE link[Anchor][0])
        /\ new[Anchor][1] = IF Anchor = z.node /\ 1 = z.side THEN x ELSE link[Anchor][1]
    BY <1>5, <2>1
  <2>3. link[Anchor][1] = NULLNODE /\ T[link[Anchor][0]] = N /\ T[NULLNODE] = {}
        /\ link[Anchor][0] \in N \cup {NULLNODE}
    BY <2>1 DEF Shaped
  <2>4. ~ (Anchor = z.node /\ 1 = z.side)
    BY <2>3, NumbersOf DEF Shaped
  <2>5. link[Anchor][0] # x
    BY <1>5, <2>1
  <2>6. link[Anchor][0] = y => Anchor = z.node /\ 0 = z.side
    BY <1>5, <2>1
  <2>7. U[new[Anchor][0]] = N
    <3>1. CASE Anchor = z.node /\ 0 = z.side
      BY <1>4, <2>2, <2>3, <3>1
    <3>2. CASE ~ (Anchor = z.node /\ 0 = z.side)
      BY <1>2, <1>4, <2>1, <2>2, <2>3, <2>5, <2>6, <3>2 DEF Places
    <3> QED BY <3>1, <3>2
  <2>8. new[Anchor][1] = NULLNODE
    BY <2>2, <2>3, <2>4
  <2>9. NULLNODE # x /\ NULLNODE # y
    BY NumbersOf DEF Shaped
  <2> QED BY <1>4, <2>1, <2>3, <2>7, <2>8, <2>9
<1>12. ASSUME NEW m \in N PROVE U[m] \subseteq N
  <2>1. T[y] \subseteq N /\ T[m] \subseteq N
    BY DEF Shaped
  <2>2. {y} \cup T[link[y][1 - d]] \cup T[c] \subseteq T[y]
    BY <1>1, <1>2, <1>3, NumbersOf DEF Nested
  <2> QED BY <1>2, <1>4, <2>1, <2>2
<1> QED BY <1>4, <1>6, <1>7, <1>10, <1>11, <1>12 DEF Shaped
(* A double rotation is one at x, and then one at y.                       *)
LEMMA TwiceShaped ==
  ASSUME NEW link, NEW N, NEW T, NEW P, Shaped(link, N, T, P),
         NEW y \in N, NEW d \in Sides, NEW x \in N, link[y][d] = x, NEW w \in N, link[x][1 - d] = w,
         NEW z \in Steps, z.node \in N \cup {Anchor}, link[z.node][z.side] = y,
         NEW new, LinksTwice(link, new, w, x, y, z, d), LinkType(link)
  PROVE  \E U, Q : Shaped(new, N, U, Q)
<1> DEFINE one == Hung(link, Step(x, 1 - d), link[w][d])
           two == Hung(one, Step(w, d), x)
           mid == Hung(two, Step(y, d), w)
<1>1. Nested(link, N, T) /\ z.node \notin T[y]
  BY NestedIs, AboveIs
<1>0. /\ Step(y, d) \in Steps /\ Step(x, 1 - d) \in Steps /\ Step(w, d) \in Steps
      /\ link[w][d] \in Places /\ LinkType(link)
  BY ShapedIs
<1>2. /\ z.side \in Sides /\ z = Step(z.node, z.side) /\ 1 - d \in Sides /\ 1 - (1 - d) = d /\ 1 - d # d
      /\ N \subseteq Places /\ N \subseteq Parents
  BY NumbersOf, StepIs DEF Steps, Step, Shaped, Places, Parents
<1>3. x # y /\ w # x /\ w # y /\ z.node # x /\ z.node # y /\ z.node # w
  BY <1>1, <1>2 DEF Nested
<1>4. /\ Step(y, d).node = y /\ Step(y, d).side = d /\ \A m, e, n, f : Step(m, e) = Step(n, f) <=> m = n /\ e = f
  BY StepIs
<1>5. \A m \in Parents, e \in Sides :
        mid[m][e] = IF Step(m, e) = Step(y, d) THEN w
                    ELSE IF Step(m, e) = Step(w, d) THEN x
                    ELSE IF Step(m, e) = Step(x, 1 - d) THEN link[w][d] ELSE link[m][e]
  <2>1. x \in Places /\ w \in Places
    BY <1>2
  <2> HIDE DEF one, two, mid
  <2>2. LinkType(one) /\ \A m \in Parents, e \in Sides :
          one[m][e] = IF Step(m, e) = Step(x, 1 - d) THEN link[w][d] ELSE link[m][e]
    BY <1>0, HungIs DEF one
  <2>3. LinkType(two) /\ \A m \in Parents, e \in Sides :
          two[m][e] = IF Step(m, e) = Step(w, d) THEN x ELSE one[m][e]
    BY <1>0, <2>1, <2>2, HungIs DEF two
  <2>4. LinkType(mid) /\ \A m \in Parents, e \in Sides :
          mid[m][e] = IF Step(m, e) = Step(y, d) THEN w ELSE two[m][e]
    BY <1>0, <2>1, <2>3, HungIs DEF mid
  <2> QED BY <2>2, <2>3, <2>4
<1> HIDE DEF one, two, mid
<1>6. LinksOnce(link, mid, w, x, Step(y, d), 1 - d)
  BY <1>2, <1>3, <1>4, <1>5 DEF LinksOnce
<1>7. PICK U, Q : Shaped(mid, N, U, Q)
  <2> DEFINE s == Step(y, d)
  <2>1. s \in Steps /\ s.node \in N \cup {Anchor} /\ link[s.node][s.side] = x
    BY <1>0, <1>2, <1>4
  <2>2. LinksOnce(link, mid, w, x, s, 1 - d)
    BY <1>6
  <2> HIDE DEF s
  <2> QED BY <1>2, <2>1, <2>2, OnceShaped
<1>8. /\ mid[y][d] = w /\ mid[z.node][z.side] = y
      /\ mid[w][1 - d] = link[w][1 - d]
  <2>1. w \in Parents /\ y \in Parents /\ z.node \in Parents
    BY <1>2 DEF Parents
  <2> QED BY <1>2, <1>3, <1>4, <1>5, <2>1
<1>9. LinksOnce(mid, new, w, y, z, d)
  BY <1>2, <1>3, <1>4, <1>5, <1>8 DEF LinksOnce, LinksTwice
<1> QED BY <1>7, <1>8, <1>9, OnceShaped

(* The links and the balances that the rotations make.                     *)
BalanceType(balance) == balance \in [AvlNodes -> Int]

LEMMA OnceIs ==
  ASSUME NEW link, LinkType(link), NEW balance, BalanceType(balance), NEW N, NEW T, NEW P, Shaped(link, N, T, P),
         NEW y \in N, NEW d \in Sides, NEW x \in N, link[y][d] = x,
         NEW z \in Steps, z.node \in N \cup {Anchor}, link[z.node][z.side] = y,
         NEW r, r = SingleRotation(link, balance, y, d)
  PROVE  /\ r.top = x /\ (r.even <=> balance[x] = 0)
         /\ LinkType(Hung(r.link, z, r.top)) /\ LinksOnce(link, Hung(r.link, z, r.top), x, y, z, d)
         /\ BalanceType(r.balance)
         /\ r.balance[x] = IF balance[x] = 0 THEN -Sign(d) ELSE 0
         /\ r.balance[y] = IF balance[x] = 0 THEN Sign(d) ELSE 0
         /\ \A m \in AvlNodes : m # x /\ m # y => r.balance[m] = balance[m]
<1>1. Nested(link, N, T) /\ z.node \notin T[y]
  BY NestedIs, AboveIs
<1>0. /\ Step(y, d) \in Steps /\ Step(x, 1 - d) \in Steps /\ x \in Places /\ y \in Places
      /\ link[x][1 - d] \in Places /\ LinkType(link)
  BY ShapedIs
<1>2. /\ z.side \in Sides /\ z = Step(z.node, z.side) /\ 1 - d \in Sides /\ 1 - d # d
      /\ N \subseteq Places /\ N \subseteq AvlNodes
  BY NumbersOf, StepIs DEF Steps, Step, Shaped, Places, Parents
<1>3. x # y /\ z.node # x /\ z.node # y
  BY <1>1, <1>2 DEF Nested
<1>4. /\ r.top = x /\ (r.even <=> balance[x] = 0)
      /\ r.link = Hung(Hung(link, Step(y, d), link[x][1 - d]), Step(x, 1 - d), y)
      /\ r.balance = [balance EXCEPT ![x] = IF balance[x] = 0 THEN -Sign(d) ELSE 0,
                                     ![y] = IF balance[x] = 0 THEN Sign(d) ELSE 0]
  BY DEF SingleRotation, TurnedOnce
<1>5. /\ LinkType(Hung(r.link, z, r.top))
      /\ \A m \in Parents, e \in Sides :
           Hung(r.link, z, r.top)[m][e] =
             IF Step(m, e) = z THEN x ELSE IF Step(m, e) = Step(x, 1 - d) THEN y
             ELSE IF Step(m, e) = Step(y, d) THEN link[x][1 - d] ELSE link[m][e]
  <2> DEFINE one == Hung(link, Step(y, d), link[x][1 - d])
             two == Hung(one, Step(x, 1 - d), y)
  <2> HIDE DEF one, two
  <2>1. LinkType(one) /\ \A m \in Parents, e \in Sides :
          one[m][e] = IF Step(m, e) = Step(y, d) THEN link[x][1 - d] ELSE link[m][e]
    BY <1>0, HungIs DEF one
  <2>2. LinkType(two) /\ \A m \in Parents, e \in Sides :
          two[m][e] = IF Step(m, e) = Step(x, 1 - d) THEN y ELSE one[m][e]
    BY <1>0, <2>1, HungIs DEF two
  <2>3. r.link = two /\ r.top = x
    BY <1>4 DEF one, two
  <2>4. LinkType(Hung(two, z, x)) /\ \A m \in Parents, e \in Sides :
          Hung(two, z, x)[m][e] = IF Step(m, e) = z THEN x ELSE two[m][e]
    BY <1>0, <2>2, HungIs
  <2> QED BY <2>1, <2>2, <2>3, <2>4
<1>6. \A m, e, n, f : Step(m, e) = Step(n, f) <=> m = n /\ e = f
  BY StepIs
<1>7. LinksOnce(link, Hung(r.link, z, r.top), x, y, z, d)
  BY <1>2, <1>3, <1>5, <1>6 DEF LinksOnce
<1>8. /\ BalanceType(r.balance)
      /\ r.balance[x] = IF balance[x] = 0 THEN -Sign(d) ELSE 0
      /\ r.balance[y] = IF balance[x] = 0 THEN Sign(d) ELSE 0
      /\ \A m \in AvlNodes : m # x /\ m # y => r.balance[m] = balance[m]
  BY <1>2, <1>3, <1>4, NumbersOf DEF BalanceType
<1> QED BY <1>4, <1>5, <1>7, <1>8

InnerOf(link, N, w, x, y, d) == x \in N /\ w \in N /\ link[y][d] = x /\ link[x][1 - d] = w

LEMMA TwiceIs ==
  ASSUME NEW link, LinkType(link), NEW balance, BalanceType(balance), NEW N, NEW T, NEW P, Shaped(link, N, T, P),
         NEW y \in N, NEW d \in Sides, NEW x, NEW w, InnerOf(link, N, w, x, y, d),
         NEW z \in Steps, z.node \in N \cup {Anchor}, link[z.node][z.side] = y,
         NEW r, r = DoubleRotation(link, balance, y, d)
  PROVE  /\ r.top = w /\ ~ r.even
         /\ LinkType(Hung(r.link, z, r.top)) /\ LinksTwice(link, Hung(r.link, z, r.top), w, x, y, z, d)
         /\ BalanceType(r.balance)
         /\ r.balance[x] = IF balance[w] = -Sign(d) THEN Sign(d) ELSE 0
         /\ r.balance[y] = IF balance[w] = Sign(d) THEN -Sign(d) ELSE 0
         /\ r.balance[w] = 0
         /\ \A m \in AvlNodes : m # x /\ m # y /\ m # w => r.balance[m] = balance[m]
<1> USE DEF InnerOf
<1>1. Nested(link, N, T) /\ z.node \notin T[y]
  BY NestedIs, AboveIs
<1>0. /\ Step(y, d) \in Steps /\ Step(x, 1 - d) \in Steps /\ Step(w, d) \in Steps /\ Step(w, 1 - d) \in Steps
      /\ link[w][1 - d] \in Places /\ link[w][d] \in Places /\ LinkType(link)
      /\ x \in Places /\ y \in Places /\ w \in Places
  BY ShapedIs
<1>2. /\ z.side \in Sides /\ z = Step(z.node, z.side) /\ 1 - d \in Sides /\ 1 - d # d
      /\ N \subseteq Places /\ N \subseteq AvlNodes
  BY NumbersOf, StepIs DEF Steps, Step, Shaped, Places, Parents
<1>3. x # y /\ w # x /\ w # y /\ z.node # x /\ z.node # y /\ z.node # w
  BY <1>1, <1>2 DEF Nested
<1> DEFINE l == Hung(Hung(link, Step(x, 1 - d), link[w][d]), Step(w, d), x)
<1>4. /\ r.top = w /\ ~ r.even
      /\ r.link = Hung(Hung(l, Step(y, d), link[w][1 - d]), Step(w, 1 - d), y)
      /\ r.balance = [balance EXCEPT ![x] = IF balance[w] = -Sign(d) THEN Sign(d) ELSE 0,
                                     ![y] = IF balance[w] = Sign(d) THEN -Sign(d) ELSE 0,
                                     ![w] = 0]
  BY DEF DoubleRotation, TurnedTwice
<1>5. LinkType(l) /\ \A m \in Parents, e \in Sides :
           l[m][e] = IF Step(m, e) = Step(w, d) THEN x
                     ELSE IF Step(m, e) = Step(x, 1 - d) THEN link[w][d] ELSE link[m][e]
  <2> DEFINE one == Hung(link, Step(x, 1 - d), link[w][d])
  <2> HIDE DEF one
  <2>1. LinkType(one) /\ \A m \in Parents, e \in Sides :
          one[m][e] = IF Step(m, e) = Step(x, 1 - d) THEN link[w][d] ELSE link[m][e]
    <3> DEFINE v == link[w][d]
               s == Step(x, 1 - d)
    <3>1. v \in Places /\ s \in Steps /\ LinkType(link)
      BY <1>0
    <3>2. one = Hung(link, s, v)
      BY DEF one
    <3> HIDE DEF v, s
    <3>3. LinkType(one) /\ \A m \in Parents, e \in Sides :
            one[m][e] = IF Step(m, e) = s THEN v ELSE link[m][e]
      BY <3>1, <3>2, HungIs
    <3> QED BY <3>3 DEF v, s
  <2>2. LinkType(Hung(one, Step(w, d), x)) /\ \A m \in Parents, e \in Sides :
          Hung(one, Step(w, d), x)[m][e] = IF Step(m, e) = Step(w, d) THEN x ELSE one[m][e]
    BY <1>0, <2>1, HungIs
  <2> QED BY <2>1, <2>2 DEF one
<1> HIDE DEF l
<1>6. /\ LinkType(Hung(r.link, z, r.top))
      /\ \A m \in Parents, e \in Sides :
           Hung(r.link, z, r.top)[m][e] =
             IF Step(m, e) = z THEN w ELSE IF Step(m, e) = Step(w, 1 - d) THEN y
             ELSE IF Step(m, e) = Step(y, d) THEN link[w][1 - d] ELSE l[m][e]
  <2> DEFINE one == Hung(l, Step(y, d), link[w][1 - d])
             two == Hung(one, Step(w, 1 - d), y)
  <2> HIDE DEF one, two
  <2>1. LinkType(one) /\ \A m \in Parents, e \in Sides :
          one[m][e] = IF Step(m, e) = Step(y, d) THEN link[w][1 - d] ELSE l[m][e]
    <3> DEFINE v == link[w][1 - d]
               s == Step(y, d)
    <3>1. v \in Places /\ s \in Steps
      BY <1>0
    <3>2. one = Hung(l, s, v)
      BY DEF one
    <3> HIDE DEF v, s
    <3>3. LinkType(one) /\ \A m \in Parents, e \in Sides :
            one[m][e] = IF Step(m, e) = s THEN v ELSE l[m][e]
      BY <1>5, <3>1, <3>2, HungIs
    <3> QED BY <3>3 DEF v, s
  <2>2. LinkType(two) /\ \A m \in Parents, e \in Sides :
          two[m][e] = IF Step(m, e) = Step(w, 1 - d) THEN y ELSE one[m][e]
    BY <1>0, <2>1, HungIs DEF two
  <2>3. r.link = two /\ r.top = w
    BY <1>4 DEF one, two
  <2>4. LinkType(Hung(two, z, w)) /\ \A m \in Parents, e \in Sides :
          Hung(two, z, w)[m][e] = IF Step(m, e) = z THEN w ELSE two[m][e]
    BY <1>0, <2>2, HungIs
  <2> QED BY <2>1, <2>2, <2>3, <2>4
<1>7. \A m, e, n, f : Step(m, e) = Step(n, f) <=> m = n /\ e = f
  BY StepIs
<1>8. LinksTwice(link, Hung(r.link, z, r.top), w, x, y, z, d)
  BY <1>2, <1>3, <1>5, <1>6, <1>7 DEF LinksTwice
<1>9. /\ BalanceType(r.balance)
      /\ r.balance[x] = IF balance[w] = -Sign(d) THEN Sign(d) ELSE 0
      /\ r.balance[y] = IF balance[w] = Sign(d) THEN -Sign(d) ELSE 0
      /\ r.balance[w] = 0
      /\ \A m \in AvlNodes : m # x /\ m # y /\ m # w => r.balance[m] = balance[m]
  BY <1>2, <1>3, <1>4, NumbersOf DEF BalanceType
<1> QED BY <1>4, <1>6, <1>8, <1>9
(* What a rotation does to the heights: the subtree is as high as x was,   *)
(* or higher by one if x was even.  low names the link z if the node above *)
(* it now knows one too many.                                              *)
FitsAbove(h, y, z, low, height) ==
  /\ low \in {z, TopStep}
  /\ z = TopStep \/ h[y] = height + (IF low = z THEN 1 ELSE 0)

ElseLevelled(link, balance, N, h, y) ==
  /\ h \in [Places -> Nat] /\ h[NULLNODE] = 0
  /\ \A m \in N : m # y => Levelled(balance[m], h[link[m][0]], h[link[m][1]], h[m])

(* Levelled, seen from side d.                                             *)
LEMMA LevelOf ==
  ASSUME NEW d \in Sides, NEW near \in Int, NEW far \in Int, NEW b, NEW height,
         NEW l, NEW r, d = 0 => l = near /\ r = far, d = 1 => l = far /\ r = near
  PROVE  Levelled(b, l, r, height) <=>
           \/ b = 0 /\ near = far /\ height = 1 + near
           \/ b = Sign(d) /\ near = far + 1 /\ height = 1 + near
           \/ b = -Sign(d) /\ far = near + 1 /\ height = 1 + far
<1>1. CASE d = 0
  BY <1>1 DEF Levelled, Sign
<1>2. CASE d = 1
  BY <1>2 DEF Levelled, Sign
<1> QED BY <1>1, <1>2 DEF Sides

(* The balances before and after the rotations.                            *)
GivenOnce(link, N, balance, after, h, low, x, y, z, d) ==
  /\ ElseLevelled(link, balance, N, h, y)
  /\ balance[x] \in {0, Sign(d)} /\ h[x] = h[link[y][1 - d]] + 2
  /\ after[x] = IF balance[x] = 0 THEN -Sign(d) ELSE 0
  /\ after[y] = IF balance[x] = 0 THEN Sign(d) ELSE 0
  /\ \A m \in N : m # x /\ m # y => after[m] = balance[m]
  /\ FitsAbove(h, y, z, low, IF balance[x] = 0 THEN h[x] + 1 ELSE h[x])

GivenTwice(link, N, balance, after, h, low, w, x, y, z, d) ==
  /\ ElseLevelled(link, balance, N, h, y)
  /\ balance[x] = -Sign(d) /\ h[x] = h[link[y][1 - d]] + 2
  /\ after[x] = IF balance[w] = -Sign(d) THEN Sign(d) ELSE 0
  /\ after[y] = IF balance[w] = Sign(d) THEN -Sign(d) ELSE 0
  /\ after[w] = 0
  /\ \A m \in N : m # x /\ m # y /\ m # w => after[m] = balance[m]
  /\ FitsAbove(h, y, z, low, h[x])

LEMMA OnceLevelled ==
  ASSUME NEW link, NEW N, NEW T, NEW P, Shaped(link, N, T, P),
         NEW y \in N, NEW d \in Sides, NEW x \in N, link[y][d] = x,
         NEW z \in Steps, z.node \in N \cup {Anchor}, link[z.node][z.side] = y,
         NEW new, LinksOnce(link, new, x, y, z, d),
         NEW balance, NEW after, NEW h, NEW low, GivenOnce(link, N, balance, after, h, low, x, y, z, d)
  PROVE  \E g : Balanced(new, after, N, g, low)
<1> USE DEF GivenOnce
<1> DEFINE c == link[x][1 - d]
           hx == IF balance[x] = 0 THEN h[x] + 1 ELSE h[x]
           hy == IF balance[x] = 0 THEN h[x] ELSE h[x] - 1
           g == [h EXCEPT ![x] = hx, ![y] = hy]
<1>1. Nested(link, N, T) /\ z.node \notin T[y]
  BY NestedIs, AboveIs
<1>2. /\ z.side \in Sides /\ z = Step(z.node, z.side) /\ 1 - d \in Sides /\ 1 - d # d
      /\ N \subseteq Places /\ N \subseteq Parents /\ TopStep = Step(Anchor, 0)
      /\ Anchor \notin N /\ NULLNODE \notin N
  BY NumbersOf DEF Steps, Step, Shaped, Places, Parents, TopStep
<1>3. x # y /\ z.node # x /\ z.node # y /\ c # x /\ c # y /\ link[x][d] # x /\ link[x][d] # y
      /\ link[y][1 - d] # x /\ link[y][1 - d] # y
      /\ link[x][d] \in N \cup {NULLNODE} /\ c \in N \cup {NULLNODE} /\ link[y][1 - d] \in N \cup {NULLNODE}
  <2>1. /\ x \in T[x] /\ y \in T[y] /\ T[x] \subseteq T[y] /\ y \notin T[x]
        /\ \A e \in Sides : T[link[x][e]] \subseteq T[x] /\ x \notin T[link[x][e]]
        /\ y \notin T[link[y][1 - d]]
    BY <1>1, <1>2 DEF Nested
  <2>3. \A k \in T[x] : k \notin T[link[y][1 - d]]
    BY <1>1, <1>2 DEF Nested
  <2>2. /\ link[x][d] \in N \cup {NULLNODE} /\ c \in N \cup {NULLNODE} /\ link[y][1 - d] \in N \cup {NULLNODE}
    BY <1>1, <1>2 DEF Nested
  <2> QED BY <1>1, <1>2, <2>1, <2>2, <2>3
<1>4. /\ h[x] \in Nat /\ h[link[x][d]] \in Nat /\ h[c] \in Nat /\ h[link[y][1 - d]] \in Nat
      /\ Levelled(balance[x], h[link[x][0]], h[link[x][1]], h[x])
  BY <1>2, <1>3 DEF ElseLevelled, Places
<1>5. /\ h[c] = (IF balance[x] = 0 THEN h[x] - 1 ELSE h[x] - 2)
      /\ h[link[x][d]] = h[x] - 1
  <2>1. CASE d = 0
    BY <1>4, <2>1 DEF Levelled, Sign
  <2>2. CASE d = 1
    BY <1>4, <2>2 DEF Levelled, Sign
  <2> QED BY <2>1, <2>2 DEF Sides
<1>6. /\ g \in [Places -> Nat] /\ g[x] = hx /\ g[y] = hy
      /\ \A n \in Places : n # x /\ n # y => g[n] = h[n]
      /\ hx \in Nat /\ hy \in Nat
  <2>1. hx \in Nat /\ hy \in Nat /\ x \in Places /\ y \in Places
    BY <1>2, <1>4, <1>5
  <2> HIDE DEF hx, hy
  <2> QED BY <1>3, <2>1 DEF ElseLevelled
<1> HIDE DEF g
<1>7. ASSUME NEW m \in N, NEW e \in Sides
      PROVE  /\ new[m][e] = IF m = z.node /\ e = z.side THEN x
                            ELSE IF m = y /\ e = d THEN c
                            ELSE IF m = x /\ e = 1 - d THEN y ELSE link[m][e]
             /\ link[m][e] = y => m = z.node /\ e = z.side
             /\ link[m][e] = x => m = y /\ e = d
             /\ link[m][e] \in Places
             /\ low = Step(m, e) => m = z.node /\ e = z.side
             /\ low = Step(m, e) => low = z
  <2>1. m \in Parents /\ m # Anchor
    BY <1>2
  <2>2. \A n, f : Step(m, e) = Step(n, f) <=> m = n /\ e = f
    BY StepIs
  <2>3. Step(m, e) = z <=> m = z.node /\ e = z.side
    BY <1>2, <2>2
  <2>4. new[m][e] = IF Step(m, e) = z THEN x ELSE IF Step(m, e) = Step(y, d) THEN c
                    ELSE IF Step(m, e) = Step(x, 1 - d) THEN y ELSE link[m][e]
    BY <2>1 DEF LinksOnce
  <2>5. /\ link[m][e] = y => P[y] = Step(m, e)
        /\ link[m][e] = x => P[x] = Step(m, e)
        /\ link[m][e] \in Places
    BY <1>2 DEF Shaped, Places
  <2>6. P[y] = z /\ P[x] = Step(y, d)
    BY <1>2 DEF Shaped
  <2>7. low = Step(m, e) => low = z
    BY <1>2, <2>1, <2>2 DEF FitsAbove
  <2> QED BY <2>2, <2>3, <2>4, <2>5, <2>6, <2>7
<1>8. ASSUME NEW m \in N, m # x, m # y, NEW e \in Sides
      PROVE  Known(new, g, low, m, e) = h[link[m][e]]
  <2>1. CASE m = z.node /\ e = z.side
    <3>1. link[m][e] = y /\ new[m][e] = x /\ z # TopStep /\ Step(m, e) = z
      BY <1>2, <1>7, <2>1, StepIs
    <3>2. h[y] = hx + (IF low = z THEN 1 ELSE 0)
      BY <3>1 DEF FitsAbove
    <3> QED BY <1>6, <3>1, <3>2 DEF Known
  <2>2. CASE ~ (m = z.node /\ e = z.side)
    <3>1. new[m][e] = link[m][e] /\ low # Step(m, e) /\ link[m][e] \in Places
          /\ link[m][e] # x /\ link[m][e] # y
      BY <1>7, <1>8, <2>2
    <3>2. g[link[m][e]] = h[link[m][e]] /\ h[link[m][e]] \in Nat
      BY <1>6, <3>1 DEF ElseLevelled
    <3> QED BY <3>1, <3>2 DEF Known
  <2> QED BY <2>1, <2>2
<1>9. /\ Known(new, g, low, x, d) = h[x] - 1 /\ Known(new, g, low, x, 1 - d) = hy
      /\ Known(new, g, low, y, d) = h[c] /\ Known(new, g, low, y, 1 - d) = h[x] - 2
  <2>1. /\ \A e \in Sides : low # Step(x, e) /\ low # Step(y, e)
        /\ new[x][d] = link[x][d] /\ new[x][1 - d] = y /\ new[y][d] = c /\ new[y][1 - d] = link[y][1 - d]
    BY <1>2, <1>3, <1>7
  <2>2. /\ g[link[x][d]] = h[link[x][d]] /\ g[c] = h[c] /\ g[link[y][1 - d]] = h[link[y][1 - d]]
    BY <1>2, <1>3, <1>6 DEF Places
  <2> QED BY <1>2, <1>4, <1>5, <1>6, <2>1, <2>2 DEF Known
<1>10. ASSUME NEW m \in N
       PROVE  Levelled(after[m], Known(new, g, low, m, 0), Known(new, g, low, m, 1), g[m])
  <2>1. CASE m # x /\ m # y
    <3>1. Levelled(balance[m], h[link[m][0]], h[link[m][1]], h[m])
      BY <2>1 DEF ElseLevelled
    <3> QED BY <1>2, <1>6, <1>8, <2>1, <3>1 DEF Sides
  <2> DEFINE K(e) == Known(new, g, low, m, e)
  <2>4. ASSUME K(d) \in Int, K(1 - d) \in Int,
               \/ after[m] = 0 /\ K(d) = K(1 - d) /\ g[m] = 1 + K(d)
               \/ after[m] = Sign(d) /\ K(d) = K(1 - d) + 1 /\ g[m] = 1 + K(d)
               \/ after[m] = -Sign(d) /\ K(1 - d) = K(d) + 1 /\ g[m] = 1 + K(1 - d)
        PROVE  Levelled(after[m], K(0), K(1), g[m])
    <3>1. d = 0 => K(0) = K(d) /\ K(1) = K(1 - d)
      OBVIOUS
    <3>2. d = 1 => K(0) = K(1 - d) /\ K(1) = K(d)
      OBVIOUS
    <3> DEFINE near == K(d)
               far == K(1 - d)
               l == K(0)
               r == K(1)
    <3>3. near \in Int /\ far \in Int /\ (d = 0 => l = near /\ r = far) /\ (d = 1 => l = far /\ r = near)
      BY <2>4, <3>1, <3>2
    <3>4. \/ after[m] = 0 /\ near = far /\ g[m] = 1 + near
          \/ after[m] = Sign(d) /\ near = far + 1 /\ g[m] = 1 + near
          \/ after[m] = -Sign(d) /\ far = near + 1 /\ g[m] = 1 + far
      BY <2>4
    <3> HIDE DEF near, far, l, r
    <3>5. Levelled(after[m], l, r, g[m])
      BY <3>3, <3>4, LevelOf
    <3> QED BY <3>5 DEF l, r
  <2>2. CASE m = x
    <3>1. K(d) = h[x] - 1 /\ K(1 - d) = hy /\ g[m] = hx /\ after[m] = after[x]
      BY <1>6, <1>9, <2>2
    <3>2. \/ after[m] = 0 /\ K(d) = K(1 - d) /\ g[m] = 1 + K(d)
          \/ after[m] = -Sign(d) /\ K(1 - d) = K(d) + 1 /\ g[m] = 1 + K(1 - d)
      BY <1>4, <1>5, <3>1
    <3> QED BY <1>4, <1>6, <2>4, <3>1, <3>2
  <2>3. CASE m = y
    <3>1. K(d) = h[c] /\ K(1 - d) = h[x] - 2 /\ g[m] = hy /\ after[m] = after[y]
      BY <1>6, <1>9, <2>3
    <3>2. \/ after[m] = 0 /\ K(d) = K(1 - d) /\ g[m] = 1 + K(d)
          \/ after[m] = Sign(d) /\ K(d) = K(1 - d) + 1 /\ g[m] = 1 + K(d)
      BY <1>3, <1>4, <1>5, <3>1
    <3> QED BY <1>4, <2>4, <3>1, <3>2
  <2> QED BY <2>1, <2>2, <2>3
<1>11. g[NULLNODE] = 0
  BY <1>2, <1>6, NumbersOf DEF ElseLevelled, Places
<1> QED BY <1>6, <1>10, <1>11 DEF Balanced
LEMMA TwiceLevelled ==
  ASSUME NEW link, NEW N, NEW T, NEW P, Shaped(link, N, T, P),
         NEW y \in N, NEW d \in Sides, NEW x \in N, link[y][d] = x, NEW w \in N, link[x][1 - d] = w,
         NEW z \in Steps, z.node \in N \cup {Anchor}, link[z.node][z.side] = y,
         NEW new, LinksTwice(link, new, w, x, y, z, d),
         NEW balance, NEW after, NEW h, NEW low, GivenTwice(link, N, balance, after, h, low, w, x, y, z, d)
  PROVE  \E g : Balanced(new, after, N, g, low)
<1> USE DEF GivenTwice
<1> DEFINE a == link[w][d]
           b == link[w][1 - d]
           g == [h EXCEPT ![x] = h[w], ![y] = h[w], ![w] = h[x]]
<1>1. Nested(link, N, T) /\ z.node \notin T[y]
  BY NestedIs, AboveIs
<1>2. /\ z.side \in Sides /\ z = Step(z.node, z.side) /\ 1 - d \in Sides /\ 1 - d # d
      /\ N \subseteq Places /\ N \subseteq Parents /\ TopStep = Step(Anchor, 0)
      /\ Anchor \notin N /\ NULLNODE \notin N
  BY NumbersOf DEF Steps, Step, Shaped, Places, Parents, TopStep
<1>3. /\ x # y /\ w # x /\ w # y /\ z.node # x /\ z.node # y /\ z.node # w
      /\ a \notin {x, y, w} /\ b \notin {x, y, w} /\ link[x][d] \notin {x, y, w} /\ link[y][1 - d] \notin {x, y, w}
      /\ a \in N \cup {NULLNODE} /\ b \in N \cup {NULLNODE}
      /\ link[x][d] \in N \cup {NULLNODE} /\ link[y][1 - d] \in N \cup {NULLNODE}
  <2>1. /\ x \in T[x] /\ y \in T[y] /\ w \in T[w] /\ T[x] \subseteq T[y] /\ T[w] \subseteq T[x]
        /\ y \notin T[x] /\ x \notin T[w] /\ w \notin T[a] /\ w \notin T[b]
        /\ T[a] \subseteq T[w] /\ T[b] \subseteq T[w]
        /\ x \notin T[link[x][d]] /\ T[link[x][d]] \subseteq T[x]
        /\ y \notin T[link[y][1 - d]]
    BY <1>1, <1>2 DEF Nested
  <2>2. /\ \A k \in T[x] : k \notin T[link[y][1 - d]]
        /\ \A k \in T[w] : k \notin T[link[x][d]]
    BY <1>1, <1>2, NumbersOf DEF Nested
  <2>3. /\ a \in N \cup {NULLNODE} /\ b \in N \cup {NULLNODE}
        /\ link[x][d] \in N \cup {NULLNODE} /\ link[y][1 - d] \in N \cup {NULLNODE}
        /\ \A n \in N : n \in T[n]
    BY <1>1, <1>2 DEF Nested
  <2> QED BY <1>1, <1>2, <2>1, <2>2, <2>3
<1>4. /\ h[x] \in Nat /\ h[w] \in Nat /\ h[link[x][d]] \in Nat /\ h[a] \in Nat /\ h[b] \in Nat
      /\ h[link[y][1 - d]] \in Nat
      /\ Levelled(balance[x], h[link[x][0]], h[link[x][1]], h[x])
      /\ Levelled(balance[w], h[link[w][0]], h[link[w][1]], h[w])
  BY <1>2, <1>3 DEF ElseLevelled, Places
<1>5. /\ h[w] = h[x] - 1 /\ h[link[x][d]] = h[x] - 2
      /\ h[a] = (IF balance[w] = -Sign(d) THEN h[x] - 3 ELSE h[x] - 2)
      /\ h[b] = (IF balance[w] = Sign(d) THEN h[x] - 3 ELSE h[x] - 2)
      /\ balance[w] \in {0, Sign(d), -Sign(d)} /\ Sign(d) \in {-1, 1}
  <2>1. /\ d = 0 => link[x][0] = link[x][d] /\ link[x][1] = w /\ link[w][0] = a /\ link[w][1] = b
        /\ d = 1 => link[x][1] = link[x][d] /\ link[x][0] = w /\ link[w][1] = a /\ link[w][0] = b
    OBVIOUS
  <2>2. Sign(d) \in {-1, 1}
    BY NumbersOf
  <2> DEFINE xl == h[link[x][0]]
             xr == h[link[x][1]]
             wl == h[link[w][0]]
             wr == h[link[w][1]]
             v == h[link[x][d]]
             ha == h[a]
             hb == h[b]
  <2>3. d = 0 => xl = v /\ xr = h[w] /\ wl = ha /\ wr = hb
    BY <2>1
  <2>4. d = 1 => xl = h[w] /\ xr = v /\ wl = hb /\ wr = ha
    BY <2>1
  <2>5. h[x] \in Int /\ h[w] \in Int /\ v \in Int /\ ha \in Int /\ hb \in Int
        /\ Levelled(balance[x], xl, xr, h[x]) /\ Levelled(balance[w], wl, wr, h[w])
    BY <1>4
  <2> HIDE DEF xl, xr, wl, wr, v, ha, hb
  <2>6. \/ balance[x] = 0 /\ v = h[w] /\ h[x] = 1 + v
        \/ balance[x] = Sign(d) /\ v = h[w] + 1 /\ h[x] = 1 + v
        \/ balance[x] = -Sign(d) /\ h[w] = v + 1 /\ h[x] = 1 + h[w]
    BY <2>3, <2>4, <2>5, LevelOf
  <2>7. \/ balance[w] = 0 /\ ha = hb /\ h[w] = 1 + ha
        \/ balance[w] = Sign(d) /\ ha = hb + 1 /\ h[w] = 1 + ha
        \/ balance[w] = -Sign(d) /\ hb = ha + 1 /\ h[w] = 1 + hb
    BY <2>3, <2>4, <2>5, LevelOf
  <2>8. /\ h[w] = h[x] - 1 /\ v = h[x] - 2
        /\ ha = (IF balance[w] = -Sign(d) THEN h[x] - 3 ELSE h[x] - 2)
        /\ hb = (IF balance[w] = Sign(d) THEN h[x] - 3 ELSE h[x] - 2)
    BY <2>2, <2>5, <2>6, <2>7
  <2> QED BY <2>2, <2>7, <2>8 DEF v, ha, hb
<1>6. /\ g \in [Places -> Nat] /\ g[x] = h[w] /\ g[y] = h[w] /\ g[w] = h[x]
      /\ \A n \in Places : n \notin {x, y, w} => g[n] = h[n]
  BY <1>2, <1>3, <1>4 DEF ElseLevelled
<1> HIDE DEF g
<1>7. ASSUME NEW m \in N, NEW e \in Sides
      PROVE  /\ new[m][e] = IF m = z.node /\ e = z.side THEN w
                            ELSE IF m = x /\ e = 1 - d THEN a
                            ELSE IF m = w /\ e = d THEN x
                            ELSE IF m = y /\ e = d THEN b
                            ELSE IF m = w /\ e = 1 - d THEN y ELSE link[m][e]
             /\ link[m][e] = y => m = z.node /\ e = z.side
             /\ link[m][e] = x => m = y /\ e = d
             /\ link[m][e] = w => m = x /\ e = 1 - d
             /\ link[m][e] \in Places
             /\ low = Step(m, e) => m = z.node /\ e = z.side
             /\ low = Step(m, e) => low = z
  <2>1. m \in Parents /\ m # Anchor
    BY <1>2
  <2>2. \A n, f : Step(m, e) = Step(n, f) <=> m = n /\ e = f
    BY StepIs
  <2>3. Step(m, e) = z <=> m = z.node /\ e = z.side
    BY <1>2, <2>2
  <2>4. new[m][e] = IF Step(m, e) = z THEN w
                    ELSE IF Step(m, e) = Step(x, 1 - d) THEN a
                    ELSE IF Step(m, e) = Step(w, d) THEN x
                    ELSE IF Step(m, e) = Step(y, d) THEN b
                    ELSE IF Step(m, e) = Step(w, 1 - d) THEN y ELSE link[m][e]
    BY <2>1 DEF LinksTwice
  <2>5. /\ link[m][e] = y => P[y] = Step(m, e)
        /\ link[m][e] = x => P[x] = Step(m, e)
        /\ link[m][e] = w => P[w] = Step(m, e)
        /\ link[m][e] \in Places
    BY <1>2 DEF Shaped, Places
  <2>6. P[y] = z /\ P[x] = Step(y, d) /\ P[w] = Step(x, 1 - d)
    BY <1>2 DEF Shaped
  <2>7. low = Step(m, e) => low = z
    BY <1>2, <2>1, <2>2 DEF FitsAbove
  <2> QED BY <2>2, <2>3, <2>4, <2>5, <2>6, <2>7
<1>8. ASSUME NEW m \in N, m \notin {x, y, w}, NEW e \in Sides
      PROVE  Known(new, g, low, m, e) = h[link[m][e]]
  <2>1. CASE m = z.node /\ e = z.side
    <3>1. link[m][e] = y /\ new[m][e] = w /\ z # TopStep /\ Step(m, e) = z
      BY <1>2, <1>7, <2>1, StepIs
    <3>2. h[y] = h[x] + (IF low = z THEN 1 ELSE 0)
      BY <3>1 DEF FitsAbove
    <3> QED BY <1>6, <3>1, <3>2 DEF Known
  <2>2. CASE ~ (m = z.node /\ e = z.side)
    <3>1. new[m][e] = link[m][e] /\ low # Step(m, e) /\ link[m][e] \in Places
          /\ link[m][e] \notin {x, y, w}
      BY <1>7, <1>8, <2>2
    <3>2. g[link[m][e]] = h[link[m][e]] /\ h[link[m][e]] \in Nat
      BY <1>6, <3>1 DEF ElseLevelled
    <3> QED BY <3>1, <3>2 DEF Known
  <2> QED BY <2>1, <2>2
<1>9. /\ Known(new, g, low, x, d) = h[x] - 2 /\ Known(new, g, low, x, 1 - d) = h[a]
      /\ Known(new, g, low, y, d) = h[b] /\ Known(new, g, low, y, 1 - d) = h[x] - 2
      /\ Known(new, g, low, w, d) = h[w] /\ Known(new, g, low, w, 1 - d) = h[w]
  <2>1. /\ \A e \in Sides : low # Step(x, e) /\ low # Step(y, e) /\ low # Step(w, e)
        /\ new[x][d] = link[x][d] /\ new[x][1 - d] = a /\ new[y][d] = b /\ new[y][1 - d] = link[y][1 - d]
        /\ new[w][d] = x /\ new[w][1 - d] = y
    BY <1>2, <1>3, <1>7
  <2>2. /\ g[link[x][d]] = h[link[x][d]] /\ g[a] = h[a] /\ g[b] = h[b]
        /\ g[link[y][1 - d]] = h[link[y][1 - d]]
    BY <1>2, <1>3, <1>6 DEF Places
  <2>3. d \in Sides /\ 1 - d \in Sides
    BY <1>2
  <2>4. ASSUME NEW m \in {x, y, w}, NEW e \in Sides, g[new[m][e]] \in Int
        PROVE  Known(new, g, low, m, e) = g[new[m][e]]
    BY <2>1, <2>4 DEF Known
  <2>5. Known(new, g, low, x, d) = h[x] - 2 /\ Known(new, g, low, x, 1 - d) = h[a]
    <3>1. h[link[x][d]] = h[x] - 2 /\ h[link[x][d]] \in Int /\ h[a] \in Int
      BY <1>2, <1>4, <1>5
    <3> QED BY <2>1, <2>2, <2>3, <2>4, <3>1
  <2>6. Known(new, g, low, y, d) = h[b] /\ Known(new, g, low, y, 1 - d) = h[x] - 2
    <3>1. h[link[y][1 - d]] = h[x] - 2 /\ h[link[y][1 - d]] \in Int /\ h[b] \in Int
      BY <1>2, <1>4, <1>5
    <3> QED BY <2>1, <2>2, <2>3, <2>4, <3>1
  <2>7. Known(new, g, low, w, d) = h[w] /\ Known(new, g, low, w, 1 - d) = h[w]
    <3>1. g[x] = h[w] /\ g[y] = h[w] /\ h[w] \in Int
      BY <1>2, <1>4, <1>5, <1>6
    <3> QED BY <2>1, <2>3, <2>4, <3>1
  <2> QED BY <2>5, <2>6, <2>7
<1>10. ASSUME NEW m \in N
       PROVE  Levelled(after[m], Known(new, g, low, m, 0), Known(new, g, low, m, 1), g[m])
  <2>1. CASE m \notin {x, y, w}
    <3>1. Levelled(balance[m], h[link[m][0]], h[link[m][1]], h[m])
      BY <2>1 DEF ElseLevelled
    <3> QED BY <1>2, <1>6, <1>8, <2>1, <3>1 DEF Sides
  <2> DEFINE K(e) == Known(new, g, low, m, e)
  <2>5. ASSUME K(d) \in Int, K(1 - d) \in Int,
               \/ after[m] = 0 /\ K(d) = K(1 - d) /\ g[m] = 1 + K(d)
               \/ after[m] = Sign(d) /\ K(d) = K(1 - d) + 1 /\ g[m] = 1 + K(d)
               \/ after[m] = -Sign(d) /\ K(1 - d) = K(d) + 1 /\ g[m] = 1 + K(1 - d)
        PROVE  Levelled(after[m], K(0), K(1), g[m])
    <3>1. d = 0 => K(0) = K(d) /\ K(1) = K(1 - d)
      OBVIOUS
    <3>2. d = 1 => K(0) = K(1 - d) /\ K(1) = K(d)
      OBVIOUS
    <3> DEFINE near == K(d)
               far == K(1 - d)
               l == K(0)
               r == K(1)
    <3>3. near \in Int /\ far \in Int /\ (d = 0 => l = near /\ r = far) /\ (d = 1 => l = far /\ r = near)
      BY <2>5, <3>1, <3>2
    <3>4. \/ after[m] = 0 /\ near = far /\ g[m] = 1 + near
          \/ after[m] = Sign(d) /\ near = far + 1 /\ g[m] = 1 + near
          \/ after[m] = -Sign(d) /\ far = near + 1 /\ g[m] = 1 + far
      BY <2>5
    <3> HIDE DEF near, far, l, r
    <3>5. Levelled(after[m], l, r, g[m])
      BY SMTT(30), <3>3, <3>4, LevelOf
    <3> QED BY <3>5 DEF l, r
  <2>2. CASE m = x
    <3>1. K(d) = h[x] - 2 /\ K(1 - d) = h[a] /\ g[m] = h[w] /\ after[m] = after[x]
      BY <1>6, <1>9, <2>2
    <3>2. \/ after[m] = 0 /\ K(d) = K(1 - d) /\ g[m] = 1 + K(d)
          \/ after[m] = Sign(d) /\ K(d) = K(1 - d) + 1 /\ g[m] = 1 + K(d)
      BY <1>4, <1>5, <3>1
    <3> QED BY <1>4, <2>5, <3>1, <3>2
  <2>3. CASE m = y
    <3>1. K(d) = h[b] /\ K(1 - d) = h[x] - 2 /\ g[m] = h[w] /\ after[m] = after[y]
      BY <1>6, <1>9, <2>3
    <3>2. \/ after[m] = 0 /\ K(d) = K(1 - d) /\ g[m] = 1 + K(d)
          \/ after[m] = -Sign(d) /\ K(1 - d) = K(d) + 1 /\ g[m] = 1 + K(1 - d)
      BY <1>4, <1>5, <3>1
    <3> QED BY <1>4, <2>5, <3>1, <3>2
  <2>4. CASE m = w
    <3>1. K(d) = h[w] /\ K(1 - d) = h[w] /\ g[m] = h[x] /\ after[m] = 0
      BY <1>6, <1>9, <2>4
    <3>2. after[m] = 0 /\ K(d) = K(1 - d) /\ g[m] = 1 + K(d)
      BY <1>4, <1>5, <3>1
    <3> QED BY <1>4, <2>5, <3>1, <3>2
  <2> QED BY <2>1, <2>2, <2>3, <2>4
<1>11. g[NULLNODE] = 0
  BY <1>2, <1>6, NumbersOf DEF ElseLevelled, Places
<1> QED BY <1>6, <1>10, <1>11 DEF Balanced

(* The rotation that the code chooses.                                     *)
GivenRotation(link, N, balance, h, r, low, y, z, d) ==
  /\ ElseLevelled(link, balance, N, h, y) /\ h[link[y][d]] = h[link[y][1 - d]] + 2
  /\ r = Rotation(link, balance, y, d)
  /\ FitsAbove(h, y, z, low, IF r.even THEN h[link[y][d]] + 1 ELSE h[link[y][d]])

LEMMA RotationIs ==
  ASSUME NEW link, LinkType(link), NEW balance, BalanceType(balance), NEW N, NEW T, NEW P, Shaped(link, N, T, P),
         NEW y \in N, NEW d \in Sides,
         NEW z \in Steps, z.node \in N \cup {Anchor}, link[z.node][z.side] = y,
         NEW h, NEW r, NEW low, GivenRotation(link, N, balance, h, r, low, y, z, d)
  PROVE  /\ (r.even <=> balance[link[y][d]] = 0)
         /\ LinkType(Hung(r.link, z, r.top)) /\ BalanceType(r.balance)
         /\ \E U, Q : Shaped(Hung(r.link, z, r.top), N, U, Q)
         /\ \E g : Balanced(Hung(r.link, z, r.top), r.balance, N, g, low)
         /\ \A m \in Parents : m \notin T[y] => \A e \in Sides :
              Hung(r.link, z, r.top)[m][e] = IF Step(m, e) = z THEN r.top ELSE link[m][e]
         /\ \A m \in AvlNodes \ N : r.balance[m] = balance[m]
<1> USE DEF GivenRotation
<1> DEFINE x == link[y][d]
<1>1. Nested(link, N, T) /\ 1 - d \in Sides /\ N \subseteq Places /\ N \subseteq AvlNodes
  BY NestedIs, NumbersOf DEF Shaped, Places
<1>2. x \in N
  <2>1. x \in N \cup {NULLNODE} /\ link[y][1 - d] \in N \cup {NULLNODE}
    BY <1>1 DEF Nested
  <2>2. h[link[y][1 - d]] \in Nat /\ h[NULLNODE] = 0
    BY <1>1, <2>1 DEF ElseLevelled, Places
  <2> QED BY <2>1, <2>2
<1>3. x # y
  BY <1>1, <1>2 DEF Nested
<1>4. Levelled(balance[x], h[link[x][0]], h[link[x][1]], h[x])
  BY <1>2, <1>3 DEF ElseLevelled
<1>5. balance[x] \in {0, Sign(d), -Sign(d)} /\ Sign(d) # 0
  BY <1>4 DEF Levelled, Sign
<1> DEFINE new == Hung(r.link, z, r.top)
<1>6. CASE balance[x] # -Sign(d)
  <2>1. r = SingleRotation(link, balance, y, d)
    BY <1>6 DEF Rotation
  <2>2. /\ r.top = x /\ (r.even <=> balance[x] = 0)
        /\ LinkType(new) /\ LinksOnce(link, new, x, y, z, d)
        /\ BalanceType(r.balance)
        /\ r.balance[x] = IF balance[x] = 0 THEN -Sign(d) ELSE 0
        /\ r.balance[y] = IF balance[x] = 0 THEN Sign(d) ELSE 0
        /\ \A m \in AvlNodes : m # x /\ m # y => r.balance[m] = balance[m]
    BY <1>2, <2>1, OnceIs
  <2> DEFINE after == r.balance
  <2> HIDE DEF new, x, after
  <2>3. \E U, Q : Shaped(new, N, U, Q)
    BY <1>2, <2>2, OnceShaped DEF x
  <2>4. \E g : Balanced(new, after, N, g, low)
    <3>1. balance[x] \in {0, Sign(d)} /\ \A m \in N : m # x /\ m # y => after[m] = balance[m]
      BY <1>1, <1>5, <1>6, <2>2 DEF after
    <3>2. /\ after[x] = IF balance[x] = 0 THEN -Sign(d) ELSE 0
          /\ after[y] = IF balance[x] = 0 THEN Sign(d) ELSE 0
      BY <2>2 DEF after
    <3>3. FitsAbove(h, y, z, low, IF balance[x] = 0 THEN h[x] + 1 ELSE h[x])
      BY <2>2 DEF x
    <3>4. h[x] = h[link[y][1 - d]] + 2 /\ link[y][d] = x
      BY DEF x
    <3>5. GivenOnce(link, N, balance, after, h, low, x, y, z, d)
      BY <3>1, <3>2, <3>3, <3>4 DEF GivenOnce
    <3> QED BY <1>2, <2>2, <3>4, <3>5, OnceLevelled
  <2>5. ASSUME NEW m \in Parents, m \notin T[y], NEW e \in Sides
        PROVE  new[m][e] = IF Step(m, e) = z THEN r.top ELSE link[m][e]
    <3>1. m # x /\ m # y
      BY <1>1, <1>2, <2>5 DEF Nested, x
    <3> QED BY <2>2, <3>1, StepIs DEF LinksOnce
  <2>6. \A m \in AvlNodes \ N : r.balance[m] = balance[m]
    BY <1>2, <2>2
  <2> QED BY <2>2, <2>3, <2>4, <2>5, <2>6 DEF new, after, x
<1>7. CASE balance[x] = -Sign(d)
  <2> DEFINE w == link[x][1 - d]
  <2>1. r = DoubleRotation(link, balance, y, d)
    BY <1>7 DEF Rotation
  <2>2. w \in N
    <3>1. w \in N \cup {NULLNODE} /\ link[x][d] \in N \cup {NULLNODE}
      BY <1>1, <1>2 DEF Nested
    <3>2. h[w] \in Nat /\ h[link[x][d]] \in Nat /\ h[NULLNODE] = 0
      BY <1>1, <3>1 DEF ElseLevelled, Places
    <3>3. h[w] = h[link[x][d]] + 1
      <4>1. CASE d = 0
        BY <1>4, <1>7, <3>2, <4>1 DEF Levelled, Sign
      <4>2. CASE d = 1
        BY <1>4, <1>7, <3>2, <4>2 DEF Levelled, Sign
      <4> QED BY <4>1, <4>2 DEF Sides
    <3> QED BY <3>1, <3>2, <3>3
  <2>3. /\ r.top = w /\ ~ r.even
        /\ LinkType(new) /\ LinksTwice(link, new, w, x, y, z, d)
        /\ BalanceType(r.balance)
        /\ r.balance[x] = IF balance[w] = -Sign(d) THEN Sign(d) ELSE 0
        /\ r.balance[y] = IF balance[w] = Sign(d) THEN -Sign(d) ELSE 0
        /\ r.balance[w] = 0
        /\ \A m \in AvlNodes : m # x /\ m # y /\ m # w => r.balance[m] = balance[m]
    <3>1. link[y][d] = x /\ link[x][1 - d] = w
      OBVIOUS
    <3>2. x \in N /\ w \in N /\ Shaped(link, N, T, P) /\ r = DoubleRotation(link, balance, y, d)
      BY <1>2, <2>1, <2>2
    <3> HIDE DEF x, w, new
    <3>3. new = Hung(r.link, z, r.top)
      BY DEF new
    <3>4. x \in N /\ w \in N /\ link[y][d] = x /\ link[x][1 - d] = w
      BY <3>1, <3>2
    <3>5. InnerOf(link, N, w, x, y, d)
      BY <3>4 DEF InnerOf
    <3> QED BY <3>2, <3>3, <3>5, TwiceIs
  <2> DEFINE after == r.balance
  <2>4. link[y][d] = x /\ link[x][1 - d] = w
    OBVIOUS
  <2> HIDE DEF new, x, w, after
  <2>5. \E U, Q : Shaped(new, N, U, Q)
    BY <1>2, <2>2, <2>3, <2>4, TwiceShaped
  <2>6. \E g : Balanced(new, after, N, g, low)
    <3>1. \A m \in N : m # x /\ m # y /\ m # w => after[m] = balance[m]
      BY <1>1, <2>3 DEF after
    <3>2. /\ after[x] = IF balance[w] = -Sign(d) THEN Sign(d) ELSE 0
          /\ after[y] = IF balance[w] = Sign(d) THEN -Sign(d) ELSE 0
          /\ after[w] = 0
      BY <2>3 DEF after
    <3>3. FitsAbove(h, y, z, low, h[x])
      BY <2>3 DEF x
    <3>4. h[x] = h[link[y][1 - d]] + 2
      BY DEF x
    <3>5. GivenTwice(link, N, balance, after, h, low, w, x, y, z, d)
      BY <1>7, <3>1, <3>2, <3>3, <3>4 DEF GivenTwice
    <3> QED BY <1>2, <2>2, <2>3, <2>4, <3>5, TwiceLevelled
  <2>7. ASSUME NEW m \in Parents, m \notin T[y], NEW e \in Sides
        PROVE  new[m][e] = IF Step(m, e) = z THEN r.top ELSE link[m][e]
    <3>1. m # x /\ m # y /\ m # w
      BY <1>1, <1>2, <2>2, <2>4, <2>7 DEF Nested
    <3> QED BY <2>3, <3>1, StepIs DEF LinksTwice
  <2>8. \A m \in AvlNodes \ N : r.balance[m] = balance[m]
    BY <1>2, <2>2, <2>3
  <2>9. (r.even <=> balance[link[y][d]] = 0)
    <3>1. ~ (balance[link[y][d]] = 0)
      BY <1>7, NumbersOf DEF x
    <3>2. ~ r.even
      BY <2>3
    <3> QED BY <3>1, <3>2
  <2> QED BY <2>3, <2>5, <2>6, <2>7, <2>8, <2>9 DEF new, after
<1> QED BY <1>6, <1>7

IsRotated(link, N, T, r, low, y, z) ==
  /\ LinkType(Hung(r.link, z, r.top)) /\ BalanceType(r.balance)
  /\ \E U, Q : Shaped(Hung(r.link, z, r.top), N, U, Q)
  /\ \E g : Balanced(Hung(r.link, z, r.top), r.balance, N, g, low)
  /\ \A m \in Parents : m \notin T[y] => \A e \in Sides :
       Hung(r.link, z, r.top)[m][e] = IF Step(m, e) = z THEN r.top ELSE link[m][e]

LEMMA RotatedIs ==
  ASSUME NEW link, LinkType(link), NEW balance, BalanceType(balance), NEW N, NEW T, NEW P, Shaped(link, N, T, P),
         NEW y \in N, NEW d \in Sides,
         NEW z \in Steps, z.node \in N \cup {Anchor}, link[z.node][z.side] = y,
         NEW h, NEW r, NEW low, GivenRotation(link, N, balance, h, r, low, y, z, d)
  PROVE  IsRotated(link, N, T, r, low, y, z)
BY RotationIs DEF IsRotated

-----------------------------------------------------------------------------
(* Ways.  A way goes from node to node of N by the links of its steps.     *)
Goes(link, way, i) == link[way[i].node][way[i].side]

IsWay(link, N, way) ==
  /\ way \in Seq(Steps) /\ Len(way) >= 1
  /\ way[1].node \in N \cup {Anchor}
  /\ \A i \in 2 .. Len(way) : way[i].node \in N /\ Goes(link, way, i - 1) = way[i].node

LEMMA StepsOf ==
  ASSUME NEW link, NEW N, NEW way, IsWay(link, N, way), N \subseteq AvlNodes
  PROVE  /\ Len(way) \in Nat \ {0}
         /\ \A i \in 1 .. Len(way) :
              /\ way[i] \in Steps /\ way[i].node \in N \cup {Anchor} /\ way[i].side \in Sides
              /\ way[i] = Step(way[i].node, way[i].side)
         /\ Last(way) = way[Len(way)] /\ Len(way) \in 1 .. Len(way)
<1>1. Len(way) \in Nat /\ Len(way) >= 1
  BY DEF IsWay
<1>2. ASSUME NEW i \in 1 .. Len(way)
      PROVE  way[i] \in Steps /\ way[i].node \in N \cup {Anchor}
  BY <1>1 DEF IsWay
<1> QED BY <1>1, <1>2 DEF Steps, Step, Last

(* Each node of a way is below the ones before it.                         *)
LEMMA WayNested ==
  ASSUME NEW link, NEW N, NEW T, NEW P, Shaped(link, N, T, P), NEW way, IsWay(link, N, way),
         NEW i \in 1 .. Len(way), NEW j \in 1 .. Len(way), i < j
  PROVE  /\ T[way[j].node] \subseteq T[Goes(link, way, i)] /\ way[j].node \in T[Goes(link, way, i)]
         /\ way[i].node \notin T[Goes(link, way, i)] /\ way[i].node \notin T[way[j].node]
         /\ way[i].node # way[j].node
<1>1. Nested(link, N, T) /\ N \subseteq AvlNodes
  BY NestedIs DEF Shaped
<1>2. Len(way) \in Nat /\ \A k \in 1 .. Len(way) : way[k].node \in N \cup {Anchor} /\ way[k].side \in Sides
  BY <1>1, StepsOf
<1>3. \A k \in 2 .. Len(way) : way[k].node \in N /\ Goes(link, way, k - 1) = way[k].node
  BY DEF IsWay
<1> DEFINE A == {n \in Nat : i + 1 + n <= j => T[way[i + 1 + n].node] \subseteq T[Goes(link, way, i)]}
<1>4. 0 \in A
  <2>1. i + 1 \in 2 .. Len(way) /\ i + 1 - 1 = i /\ i + 1 + 0 = i + 1
    BY <1>2
  <2> QED BY <1>3, <2>1
<1>5. ASSUME NEW n \in 1 .. j, n - 1 \in A PROVE n \in A
  <2> SUFFICES ASSUME i + 1 + n <= j PROVE T[way[i + 1 + n].node] \subseteq T[Goes(link, way, i)]
    OBVIOUS
  <2> DEFINE k == i + n
  <2>1. k \in 2 .. Len(way) /\ k + 1 \in 2 .. Len(way) /\ k + 1 - 1 = k /\ i + 1 + (n - 1) = k /\ i + 1 + n = k + 1
        /\ k <= j
    BY <1>2
  <2>2. T[way[k].node] \subseteq T[Goes(link, way, i)]
    BY <1>5, <2>1
  <2> HIDE DEF k
  <2>3. way[k].node \in N /\ way[k].side \in Sides /\ way[k + 1].node = Goes(link, way, k)
    BY <1>2, <1>3, <2>1
  <2>4. T[Goes(link, way, k)] \subseteq T[way[k].node]
    BY <1>1, <2>3 DEF Nested, Goes
  <2> QED BY <2>1, <2>2, <2>3, <2>4
<1> HIDE DEF A
<1>6. 0 .. j \subseteq A
  <2>1. j \in Nat
    BY <1>2
  <2> QED BY <1>4, <1>5, <2>1, UpTo
<1>7. j - i - 1 \in 0 .. j /\ i + 1 + (j - i - 1) = j
  OBVIOUS
<1>8. T[way[j].node] \subseteq T[Goes(link, way, i)]
  <2>1. j - i - 1 \in A
    BY <1>6, <1>7
  <2> QED BY <1>7, <2>1 DEF A
<1>9. way[j].node \in N /\ way[j].node \in T[way[j].node]
  BY <1>1, <1>2, <1>3 DEF Nested
<1>10. way[i].node \notin T[Goes(link, way, i)]
  <2>1. CASE way[i].node \in N
    BY <1>1, <1>2, <2>1 DEF Nested, Goes
  <2>2. CASE way[i].node = Anchor
    <3>1. T[Goes(link, way, i)] \subseteq AvlNodes
      <4>1. way[i + 1].node = Goes(link, way, i) /\ way[i + 1].node \in N
        <5>1. i + 1 \in 2 .. Len(way) /\ i + 1 - 1 = i
          BY <1>2
        <5> QED BY <1>3, <5>1
      <4> QED BY <1>1, <4>1 DEF Nested
    <3> QED BY <2>2, <3>1, NumbersOf
  <2> QED BY <1>2, <2>1, <2>2
<1> QED BY <1>8, <1>9, <1>10

(* A way has no more nodes than there are, besides the one it begins at.   *)
LEMMA WayIsShort ==
  ASSUME NEW link, NEW N, NEW T, NEW P, Shaped(link, N, T, P), NEW way, IsWay(link, N, way)
  PROVE  Len(way) <= Cardinality(AvlKeys) + 1
<1> DEFINE f == [i \in 1 .. Len(way) - 1 |-> way[i + 1].node]
<1>1. Len(way) \in Nat /\ Len(way) >= 1 /\ N \subseteq AvlKeys
  BY StepsOf DEF IsWay, Shaped, AvlNodes
<1>2. f \in [1 .. Len(way) - 1 -> AvlKeys]
  <2>1. \A i \in 1 .. Len(way) - 1 : way[i + 1].node \in N
    BY <1>1 DEF IsWay
  <2> QED BY <1>1, <2>1
<1>3. ASSUME NEW i \in 1 .. Len(way) - 1, NEW j \in 1 .. Len(way) - 1, i < j PROVE f[i] # f[j]
  <2>1. i + 1 \in 1 .. Len(way) /\ j + 1 \in 1 .. Len(way) /\ i + 1 < j + 1
    BY <1>1, <1>3
  <2> QED BY <2>1, WayNested
<1> HIDE DEF f
<1>4. \A i, j \in 1 .. Len(way) - 1 : i # j => f[i] # f[j]
  <2>1. \A i, j \in 1 .. Len(way) - 1 : i # j => i < j \/ j < i
    BY <1>1
  <2> QED BY <1>3, <2>1
<1>5. IsFiniteSet(AvlKeys)
  BY AvlAssumption
<1>6. f \in Injection(1 .. Len(way) - 1, AvlKeys)
  BY <1>2, <1>4 DEF Injection, IsInjective
<1>7. Cardinality(1 .. Len(way) - 1) <= Cardinality(AvlKeys)
  BY <1>5, <1>6, FS_Injection
<1>8. Cardinality(1 .. Len(way) - 1) = Len(way) - 1
  BY <1>1, FS_Interval
<1> QED BY <1>1, <1>5, <1>7, <1>8, FS_CardinalityType

(* One more step of a way.                                                 *)
LEMMA WayGoesOn ==
  ASSUME NEW link, NEW N, N \subseteq AvlNodes, NEW way, IsWay(link, N, way),
         NEW d \in Sides, Goes(link, way, Len(way)) \in N
  PROVE  LET on == Append(way, Step(Goes(link, way, Len(way)), d))
         IN  /\ IsWay(link, N, on) /\ Len(on) = Len(way) + 1
             /\ \A i \in 1 .. Len(way) : on[i] = way[i]
             /\ on[Len(way) + 1] = Step(Goes(link, way, Len(way)), d)
<1> DEFINE n == Goes(link, way, Len(way))
           s == Step(n, d)
           on == Append(way, s)
<1>1. n \in N /\ s \in Steps /\ s.node = n /\ way \in Seq(Steps)
  BY StepIs DEF IsWay, Parents
<1>2. Len(way) \in Nat /\ Len(way) >= 1 /\ way[1].node \in N \cup {Anchor}
      /\ \A i \in 2 .. Len(way) : way[i].node \in N /\ Goes(link, way, i - 1) = way[i].node
  BY <1>1 DEF IsWay
<1> HIDE DEF s
<1>3. /\ on \in Seq(Steps) /\ Len(on) = Len(way) + 1
      /\ \A i \in 1 .. Len(way) : on[i] = way[i]
      /\ on[Len(way) + 1] = s
  BY <1>1, <1>2
<1> HIDE DEF on
<1>4. ASSUME NEW i \in 2 .. Len(on) PROVE on[i].node \in N /\ Goes(link, on, i - 1) = on[i].node
  <2>1. i - 1 \in 1 .. Len(way) /\ (i \in 2 .. Len(way) \/ i = Len(way) + 1)
    BY <1>2, <1>3
  <2>2. Goes(link, on, i - 1) = Goes(link, way, i - 1)
    BY <1>3, <2>1 DEF Goes
  <2>3. CASE i \in 2 .. Len(way)
    BY <1>2, <1>3, <2>1, <2>2, <2>3
  <2>4. CASE i = Len(way) + 1
    BY <1>1, <1>2, <1>3, <2>2, <2>4
  <2> QED BY <2>1, <2>3, <2>4
<1>5. IsWay(link, N, on)
  BY <1>2, <1>3, <1>4 DEF IsWay
<1> QED BY <1>3, <1>5 DEF on, s

(* What Down makes, as long as it has not come to its end.                 *)
Turns(way, turn) == \A i \in 2 .. Len(way) : way[i].side = turn[way[i].node]
Stops(way, turn) == LET n == Below(Last(way)) IN n = NULLNODE \/ turn[n] = Here

LEMMA DownIs ==
  ASSUME NEW T, NEW P, Shaped(av_link, av_nodes, T, P),
         NEW from \in Steps, from.node \in av_nodes \cup {Anchor},
         NEW turn, turn \in [AvlNodes -> Sides \cup {Here}]
  PROVE  /\ IsWay(av_link, av_nodes, Down(from, turn))
         /\ Down(from, turn)[1] = from
         /\ Turns(Down(from, turn), turn) /\ Stops(Down(from, turn), turn)
<1> DEFINE N == av_nodes
           S == {w \in Seq(Steps) : IsWay(av_link, N, w)}
           Onward(w) == LET n == Below(Last(w))
                        IN  IF n = NULLNODE \/ turn[n] = Here THEN w ELSE Append(w, Step(n, turn[n]))
           next == [i \in Nat |-> [w \in S |-> Onward(w)]]
<1>1. N \subseteq AvlNodes /\ Here \notin Sides
  BY DEF Shaped, Here, Sides
<1>2. ASSUME NEW w \in S
      PROVE  /\ Below(Last(w)) = Goes(av_link, w, Len(w)) /\ Below(Last(w)) \in N \cup {NULLNODE}
             /\ Onward(w) \in S
             /\ Stops(w, turn) => Onward(w) = w
             /\ ~ Stops(w, turn) => /\ Len(Onward(w)) = Len(w) + 1
                                   /\ \A i \in 1 .. Len(w) : Onward(w)[i] = w[i]
                                   /\ Onward(w)[Len(w) + 1] = Step(Below(Last(w)), turn[Below(Last(w))])
  <2>1. IsWay(av_link, N, w)
    OBVIOUS
  <2>2. Last(w) = w[Len(w)] /\ w[Len(w)].node \in N \cup {Anchor} /\ w[Len(w)].side \in Sides
    BY <1>1, <2>1, StepsOf
  <2>3. Below(Last(w)) = Goes(av_link, w, Len(w)) /\ Below(Last(w)) \in N \cup {NULLNODE}
    BY <2>2 DEF Below, Goes, Shaped
  <2>4. CASE Stops(w, turn)
    BY <2>3, <2>4 DEF Stops
  <2>5. CASE ~ Stops(w, turn)
    <3> DEFINE n == Below(Last(w))
               d == turn[n]
               on == Append(w, Step(n, d))
    <3>1. n \in N /\ d \in Sides /\ Onward(w) = on
      BY <1>1, <2>3, <2>5 DEF Stops
    <3>2. n = Goes(av_link, w, Len(w))
      BY <2>3
    <3> HIDE DEF n, d
    <3>3. /\ IsWay(av_link, N, on) /\ Len(on) = Len(w) + 1
          /\ \A i \in 1 .. Len(w) : on[i] = w[i]
          /\ on[Len(w) + 1] = Step(n, d)
      BY <1>1, <2>1, <3>1, <3>2, WayGoesOn
    <3>4. on \in S
      BY <3>3 DEF IsWay
    <3> HIDE DEF on
    <3>5. Onward(w) = on
      BY <3>1
    <3> HIDE DEF Onward
    <3> QED BY <2>3, <2>5, <3>3, <3>4, <3>5 DEF n, d
  <2> QED BY <2>4, <2>5
<1>3. <<from>> \in S /\ Len(<<from>>) = 1 /\ <<from>>[1] = from
  BY DEF IsWay
<1>4. next \in [Nat -> [S -> S]]
  BY <1>2
<1> HIDE DEF S, Onward, next
<1> DEFINE start == <<from>>
<1>0. start \in S
  BY <1>3
<1> HIDE DEF start
<1>5. PICK v : Iterated(v, S, start, next)
  BY <1>0, <1>4, Iterates
<1>6. \A i \in Nat : i # 0 => v[i - 1] \in S /\ v[i] = Onward(v[i - 1])
  <2> TAKE i \in Nat
  <2> HAVE i # 0
  <2>1. i - 1 \in Nat
    OBVIOUS
  <2>2. v[i - 1] \in S /\ v[i] = next[i][v[i - 1]]
    BY <1>5, <2>1 DEF Iterated
  <2>3. next[i][v[i - 1]] = Onward(v[i - 1])
    BY <2>2 DEF next
  <2> QED BY <2>2, <2>3
<1> DEFINE IsDown(w) == w = [i \in Nat |-> IF i = 0 THEN <<from>> ELSE Onward(w[i - 1])]
<1>7. IsDown(v)
  BY <1>5, <1>6 DEF start, Iterated
<1> DEFINE way == CHOOSE w : IsDown(w)
<1>8. IsDown(way)
  BY <1>7
<1>9. Down(from, turn) = way[Cardinality(AvlKeys)]
  BY DEF Down, Onward
<1> HIDE DEF way
<1>10. way[0] = <<from>> /\ \A i \in Nat : i # 0 => way[i] = Onward(way[i - 1])
  BY <1>8
<1> DEFINE Fine(i) == /\ way[i] \in S /\ way[i][1] = from /\ Turns(way[i], turn)
                      /\ Stops(way[i], turn) \/ Len(way[i]) = i + 1
           A == {i \in Nat : Fine(i)}
           m == Cardinality(AvlKeys) + 1
<1>11. 0 \in A
  <2>1. Turns(<<from>>, turn)
    BY DEF Turns
  <2> QED BY <1>3, <1>10, <2>1
<1>12. m \in Nat /\ m >= 1
  BY AvlAssumption, FS_CardinalityType
<1>13. ASSUME NEW i \in 1 .. m, i - 1 \in A PROVE i \in A
  <2> DEFINE w == way[i - 1]
  <2>1. i \in Nat /\ i # 0 /\ way[i] = Onward(w)
    BY <1>10, <1>12
  <2>2. w \in S /\ w[1] = from /\ Turns(w, turn) /\ (Stops(w, turn) \/ Len(w) = (i - 1) + 1)
    BY <1>13
  <2> HIDE DEF w
  <2>3. CASE Stops(w, turn)
    BY <1>2, <2>1, <2>2, <2>3
  <2>4. CASE ~ Stops(w, turn)
    <3>1. Len(w) = i
      BY <2>1, <2>2, <2>4
    <3>2. /\ Onward(w) \in S /\ Len(Onward(w)) = i + 1
          /\ \A j \in 1 .. i : Onward(w)[j] = w[j]
          /\ Onward(w)[i + 1] = Step(Below(Last(w)), turn[Below(Last(w))])
      BY <1>2, <2>2, <2>4, <3>1
    <3>3. Onward(w)[1] = from
      BY <2>1, <2>2, <3>2
    <3>4. ASSUME NEW j \in 2 .. Len(Onward(w)) PROVE Onward(w)[j].side = turn[Onward(w)[j].node]
      <4>1. j \in 2 .. i \/ j = i + 1
        BY <2>1, <3>2, <3>4
      <4>2. CASE j \in 2 .. i
        BY <2>1, <2>2, <3>1, <3>2, <4>2 DEF Turns
      <4>3. CASE j = i + 1
        BY <3>2, <4>3, StepIs
      <4> QED BY <4>1, <4>2, <4>3
    <3> QED BY <2>1, <3>2, <3>3, <3>4 DEF Turns
  <2> QED BY <2>3, <2>4
<1> HIDE DEF A
<1>14. 0 .. m \subseteq A
  BY <1>11, <1>12, <1>13, UpTo
<1>15. m \in A /\ m - 1 \in A /\ m - 1 = Cardinality(AvlKeys)
  <2>1. m \in 0 .. m /\ m - 1 \in 0 .. m
    BY <1>12
  <2>2. m \in A /\ m - 1 \in A
    BY <1>14, <2>1
  <2> QED BY <1>12, <2>2, AvlAssumption, FS_CardinalityType
<1> DEFINE w == way[Cardinality(AvlKeys)]
<1>16. w \in S /\ w[1] = from /\ Turns(w, turn) /\ (Stops(w, turn) \/ Len(w) = m)
  BY <1>15 DEF A
<1>17. Stops(w, turn)
  <2> SUFFICES ASSUME ~ Stops(w, turn) PROVE FALSE
    OBVIOUS
  <2>1. Len(Onward(w)) = m + 1 /\ Onward(w) \in S
    BY <1>2, <1>16
  <2> DEFINE u == Onward(w)
  <2> HIDE DEF u
  <2>2. IsWay(av_link, N, u) /\ Len(u) = m + 1
    BY <2>1 DEF S, u
  <2>3. Len(u) <= Cardinality(AvlKeys) + 1
    BY <2>2, WayIsShort
  <2> QED BY <1>12, <2>2, <2>3
<1>18. IsWay(av_link, N, w)
  BY <1>16 DEF S
<1> QED BY <1>9, <1>16, <1>17, <1>18

(* The way of avl_find passes a key on the side where it has to be, and    *)
(* comes to its node if it has one.                                        *)
LEMMA SearchIs ==
  ASSUME NEW T, NEW P, Shaped(av_link, av_nodes, T, P), NEW key \in AvlKeys
  PROVE  /\ IsWay(av_link, av_nodes, Way(key)) /\ Way(key)[1] = TopStep
         /\ \A i \in 2 .. Len(Way(key)) :
              Way(key)[i].node # key /\ On(Way(key)[i].side, key, Way(key)[i].node)
         /\ avl_find(key) = Goes(av_link, Way(key), Len(Way(key)))
         /\ avl_find(key) = IF key \in av_nodes THEN key ELSE NULLNODE
<1> DEFINE way == Way(key)
           turn == Toward(key)
<1>1. TopStep \in Steps /\ TopStep.node = Anchor /\ TopStep.side = 0
  BY StepIs DEF TopStep, Parents, Sides
<1>2. turn \in [AvlNodes -> Sides \cup {Here}] /\ \A n \in AvlNodes : turn[n] = Here <=> n = key
  BY DEF Toward, Sides, Here
<1>3. IsWay(av_link, av_nodes, way) /\ way[1] = TopStep /\ Turns(way, turn) /\ Stops(way, turn)
  <2>1. way = Down(TopStep, turn)
    BY DEF Way
  <2> HIDE DEF way, turn
  <2> QED BY <1>1, <1>2, <2>1, DownIs
<1> HIDE DEF way
<1>4. /\ Len(way) \in Nat \ {0} /\ Last(way) = way[Len(way)] /\ Len(way) \in 1 .. Len(way)
      /\ \A i \in 1 .. Len(way) : way[i].side \in Sides /\ way[i].node \in av_nodes \cup {Anchor}
      /\ av_nodes \subseteq AvlNodes /\ AvlNodes \subseteq Nat
      /\ \A i \in 2 .. Len(way) : way[i].node \in av_nodes /\ Goes(av_link, way, i - 1) = way[i].node
  <2>1. av_nodes \subseteq AvlNodes /\ AvlNodes \subseteq Nat
    BY NumbersOf DEF Shaped
  <2>2. \A i \in 2 .. Len(way) : way[i].node \in av_nodes /\ Goes(av_link, way, i - 1) = way[i].node
    BY <1>3 DEF IsWay
  <2> QED BY <1>3, <2>1, <2>2, StepsOf
<1>5. ASSUME NEW i \in 2 .. Len(way)
      PROVE  way[i].node # key /\ On(way[i].side, key, way[i].node) /\ ~ On(1 - way[i].side, key, way[i].node)
  <2> DEFINE n == way[i].node
  <2>0. i \in 1 .. Len(way) /\ n \in av_nodes
    BY <1>4
  <2>1. n \in AvlNodes /\ n \in Nat /\ key \in Nat /\ i \in 1 .. Len(way)
    BY <1>4, <2>0, AvlAssumption
  <2>2. way[i].side = turn[n] /\ way[i].side \in Sides
    BY <1>3, <1>4, <2>1 DEF Turns
  <2>3. n # key
    BY <1>2, <2>1, <2>2 DEF Here, Sides
  <2>4. turn[n] = IF key > n THEN 1 ELSE 0
    BY <2>1, <2>3 DEF Toward
  <2> HIDE DEF n, turn
  <2>5. On(way[i].side, key, n) /\ ~ On(1 - way[i].side, key, n)
    BY <2>1, <2>2, <2>3, <2>4 DEF On
  <2> QED BY <2>3, <2>5 DEF n
<1>6. avl_find(key) = Goes(av_link, way, Len(way))
  BY <1>4 DEF avl_find, Goes, Below, way
<1> DEFINE e == Goes(av_link, way, Len(way))
<1>7. e \in av_nodes \cup {NULLNODE} /\ (e = NULLNODE \/ e = key)
  <2>1. e \in av_nodes \cup {NULLNODE}
    BY <1>4 DEF Goes, Shaped
  <2>2. e = Below(Last(way))
    BY <1>4 DEF Goes, Below
  <2> QED BY <1>2, <1>3, <1>4, <2>1, <2>2 DEF Stops
<1>8. key \in av_nodes <=> key \in T[e]
  <2> DEFINE A == {i \in Nat : i + 1 <= Len(way) => (key \in av_nodes <=> key \in T[Goes(av_link, way, i + 1)])}
  <2>1. 0 \in A
    <3>1. Goes(av_link, way, 1) = av_link[Anchor][0]
      BY <1>1, <1>3 DEF Goes
    <3>2. T[av_link[Anchor][0]] = av_nodes
      BY DEF Shaped
    <3> QED BY <3>1, <3>2
  <2>2. ASSUME NEW i \in 1 .. Len(way), i - 1 \in A PROVE i \in A
    <3> SUFFICES ASSUME i + 1 <= Len(way)
                 PROVE  key \in av_nodes <=> key \in T[Goes(av_link, way, i + 1)]
      OBVIOUS
    <3>1. i + 1 \in 2 .. Len(way) /\ i + 1 \in 1 .. Len(way) /\ (i - 1) + 1 = i /\ (i + 1) - 1 = i
      BY <1>4
    <3> DEFINE m == way[i + 1].node
               d == way[i + 1].side
    <3>2. m \in av_nodes /\ d \in Sides /\ m = Goes(av_link, way, i) /\ m # key /\ ~ On(1 - d, key, m)
      BY <1>4, <1>5, <3>1
    <3>3. key \in av_nodes <=> key \in T[m]
      BY <1>4, <2>2, <3>1, <3>2
    <3> HIDE DEF m, d
    <3>4. Nested(av_link, av_nodes, T) /\ 1 - d \in Sides
      BY <3>2, NestedIs, NumbersOf
    <3>5. T[m] = {m} \cup T[av_link[m][d]] \cup T[av_link[m][1 - d]]
      BY <3>2, <3>4 DEF Nested
    <3>6. key \notin T[av_link[m][1 - d]]
      BY <3>2, <3>4 DEF Shaped
    <3> QED BY <3>2, <3>3, <3>5, <3>6 DEF Goes, m, d
  <2> HIDE DEF A
  <2>3. Len(way) - 1 \in 0 .. Len(way) /\ (Len(way) - 1) + 1 = Len(way) /\ Len(way) \in Nat
    BY <1>4
  <2>4. Len(way) - 1 \in A
    BY <2>1, <2>2, <2>3, UpTo
  <2> QED BY <1>4, <2>3, <2>4 DEF A
<1>9. e = IF key \in av_nodes THEN key ELSE NULLNODE
  <2>1. CASE e = NULLNODE
    <3>1. T[e] = {}
      BY <2>1 DEF Shaped
    <3> QED BY <1>8, <2>1, <3>1
  <2>2. CASE e # NULLNODE
    BY <1>7, <2>2
  <2> QED BY <2>1, <2>2
<1> QED BY <1>3, <1>5, <1>6, <1>9 DEF way

-----------------------------------------------------------------------------
(* Heights fall on the way down, so that a least height can be looked for. *)
Falls(link, N, h) ==
  h \in [Places -> Nat] /\ \A m \in N, d \in Sides : h[link[m][d]] < h[m]

LEMMA BalancedFalls ==
  ASSUME NEW link, NEW N, NEW T, NEW P, Shaped(link, N, T, P),
         NEW balance, NEW h, NEW low, Balanced(link, balance, N, h, low)
  PROVE  Falls(link, N, h)
<1>1. h \in [Places -> Nat] /\ N \subseteq Places
  BY DEF Balanced, Shaped, Places
<1>2. ASSUME NEW m \in N, NEW d \in Sides PROVE h[link[m][d]] < h[m]
  <2>1. \A e \in Sides : h[link[m][e]] \in Nat
    BY <1>1 DEF Shaped, Places
  <2>2. \A e \in Sides : Known(link, h, low, m, e) \in Nat /\ h[link[m][e]] <= Known(link, h, low, m, e)
    BY <2>1 DEF Known
  <2> DEFINE l == Known(link, h, low, m, 0)
             r == Known(link, h, low, m, 1)
  <2>3. Levelled(balance[m], l, r, h[m]) /\ l \in Nat /\ r \in Nat
        /\ h[link[m][0]] <= l /\ h[link[m][1]] <= r /\ h[m] \in Nat
        /\ h[link[m][0]] \in Nat /\ h[link[m][1]] \in Nat
    BY <1>1, <2>1, <2>2 DEF Balanced, Sides
  <2> HIDE DEF l, r
  <2>4. h[link[m][0]] < h[m] /\ h[link[m][1]] < h[m]
    BY <2>3 DEF Levelled
  <2> QED BY <2>4 DEF Sides
<1> QED BY <1>1, <1>2 DEF Falls

(* What is below a node has its own nodes below it, and its parent too.    *)
LEMMA UnderIs ==
  ASSUME NEW link, NEW N, NEW T, NEW P, Shaped(link, N, T, P), NEW h, Falls(link, N, h),
         NEW p \in N, NEW k \in T[p]
  PROVE  /\ k \in N /\ T[k] \subseteq T[p]
         /\ k # p => /\ P[k].node \in N /\ P[k].node \in T[p] /\ P[k].side \in Sides
                     /\ link[P[k].node][P[k].side] = k
<1> DEFINE Over == {n \in N : k \in T[n] /\ T[n] \subseteq T[p]}
           Apart == {n \in Over : n # k}
<1>1. Nested(link, N, T) /\ N \subseteq Places /\ NULLNODE \notin N /\ T[NULLNODE] = {}
  BY NestedIs, NumbersOf DEF Shaped, Places
<1>2. p \in Over
  OBVIOUS
<1>3. ASSUME NEW n \in Apart
      PROVE  \E d \in Sides : /\ link[n][d] \in Over /\ h[link[n][d]] < h[n]
                              /\ link[n][d] = k => P[k] = Step(n, d)
  <2>1. PICK d \in Sides : k \in T[link[n][d]]
    BY <1>1, NumbersOf DEF Nested, Sides
  <2>2. link[n][d] \in N /\ T[link[n][d]] \subseteq T[n]
    BY <1>1, <2>1 DEF Nested
  <2>3. h[link[n][d]] < h[n]
    BY DEF Falls
  <2>4. P[link[n][d]] = Step(n, d)
    BY <1>1, <2>2 DEF Shaped
  <2> QED BY <2>1, <2>2, <2>3, <2>4
<1>4. \A n \in Over : h[n] \in Nat
  BY <1>1 DEF Falls
<1>5. k \in Over
  <2> DEFINE H == {h[n] : n \in Over}
  <2>1. H \subseteq Nat /\ H # {}
    BY <1>2, <1>4
  <2>2. PICK a \in H : \A b \in H : a <= b
    BY <2>1, SmallestOf
  <2>3. PICK n \in Over : h[n] = a
    BY <2>2
  <2>4. CASE n = k
    BY <2>3, <2>4
  <2>5. CASE n # k
    <3>1. PICK d \in Sides : link[n][d] \in Over /\ h[link[n][d]] < h[n]
      BY <1>3, <2>3, <2>5
    <3>2. h[link[n][d]] \in H /\ h[link[n][d]] \in Nat /\ h[n] \in Nat
      BY <1>4, <3>1
    <3> QED BY <2>2, <2>3, <3>1, <3>2
  <2> QED BY <2>4, <2>5
<1>6. CASE k # p
  <2> DEFINE H == {h[n] : n \in Apart}
  <2>1. H \subseteq Nat /\ H # {}
    BY <1>2, <1>4, <1>6
  <2>2. PICK a \in H : \A b \in H : a <= b
    BY <2>1, SmallestOf
  <2>3. PICK n \in Apart : h[n] = a
    BY <2>2
  <2>4. PICK d \in Sides : link[n][d] \in Over /\ h[link[n][d]] < h[n] /\ (link[n][d] = k => P[k] = Step(n, d))
    BY <1>3
  <2>5. link[n][d] = k
    <3> SUFFICES ASSUME link[n][d] # k PROVE FALSE
      OBVIOUS
    <3>0. link[n][d] \in Apart
      BY <2>4
    <3>1. h[link[n][d]] \in H /\ h[link[n][d]] \in Nat /\ h[n] \in Nat
      BY <1>4, <2>3, <2>4, <3>0
    <3> HIDE DEF H
    <3> QED BY <2>2, <2>3, <2>4, <3>1
  <2>6. P[k].node = n /\ P[k].side = d /\ n \in N /\ n \in T[n] /\ T[n] \subseteq T[p]
    BY <1>1, <2>4, <2>5, StepIs DEF Nested
  <2> QED BY <1>5, <2>4, <2>5, <2>6
<1> QED BY <1>5, <1>6

-----------------------------------------------------------------------------
(* Insertion.                                                              *)
LEMMA WayBack ==
  ASSUME NEW link, NEW N, NEW T, NEW P, Shaped(link, N, T, P), NEW way, IsWay(link, N, way)
  PROVE  /\ \A i, j \in 1 .. Len(way) : way[i].node = way[j].node => i = j
         /\ \A j \in 2 .. Len(way), m \in N \cup {Anchor}, e \in Sides :
              link[m][e] = way[j].node => way[j - 1] = Step(m, e)
<1>1. N \subseteq AvlNodes /\ NULLNODE \notin N
  BY NumbersOf DEF Shaped
<1>2. Len(way) \in Nat \ {0} /\ \A i \in 1 .. Len(way) : /\ way[i].node \in N \cup {Anchor} /\ way[i].side \in Sides
                                                        /\ way[i] = Step(way[i].node, way[i].side)
  BY <1>1, StepsOf
<1>3. ASSUME NEW i \in 1 .. Len(way), NEW j \in 1 .. Len(way), way[i].node = way[j].node PROVE i = j
  <2>1. i < j \/ j < i \/ i = j
    BY <1>2
  <2>2. ~ (i < j)
    BY <1>3, WayNested
  <2>3. ~ (j < i)
    BY <1>3, WayNested
  <2> QED BY <2>1, <2>2, <2>3
<1>4. ASSUME NEW j \in 2 .. Len(way), NEW m \in N \cup {Anchor}, NEW e \in Sides, link[m][e] = way[j].node
      PROVE  way[j - 1] = Step(m, e)
  <2>1. j - 1 \in 1 .. Len(way) /\ way[j].node \in N /\ Goes(link, way, j - 1) = way[j].node
    BY <1>2 DEF IsWay
  <2>2. P[way[j].node] = Step(m, e)
    BY <1>1, <1>4, <2>1 DEF Shaped
  <2>3. P[way[j].node] = Step(way[j - 1].node, way[j - 1].side)
    <3>1. way[j - 1].node \in N \cup {Anchor} /\ way[j - 1].side \in Sides
      BY <1>2, <2>1
    <3>2. link[way[j - 1].node][way[j - 1].side] = way[j].node
      BY <2>1 DEF Goes
    <3> QED BY <1>1, <2>1, <3>1, <3>2 DEF Shaped
  <2> QED BY <1>2, <2>1, <2>2, <2>3
<1> QED BY <1>3, <1>4

(* A key at the end of a way that passes each node on its side.            *)
LinksAdded(link, new, way, key) ==
  \A m \in Parents, e \in Sides :
    new[m][e] = IF Step(m, e) = way[Len(way)] THEN key ELSE IF m = key THEN NULLNODE ELSE link[m][e]

Leads(link, N, way, key) ==
  /\ IsWay(link, N, way) /\ way[1] = TopStep /\ Goes(link, way, Len(way)) = NULLNODE
  /\ \A i \in 2 .. Len(way) : On(way[i].side, key, way[i].node)

LEMMA AddedLinks ==
  ASSUME NEW link, NEW N, NEW T, NEW P, Shaped(link, N, T, P),
         NEW key \in AvlNodes \ N, NEW way, Leads(link, N, way, key),
         NEW new, LinksAdded(link, new, way, key)
  PROVE  \A m \in N \cup {key, Anchor}, e \in Sides :
           \/ Step(m, e) = way[Len(way)] /\ m # key /\ link[m][e] = NULLNODE /\ new[m][e] = key
           \/ \E i \in 1 .. Len(way) - 1 :
                /\ Step(m, e) = way[i] /\ m # key /\ link[m][e] = way[i + 1].node
                /\ link[m][e] \in N /\ new[m][e] = link[m][e]
           \/ m = key /\ new[m][e] = NULLNODE
           \/ /\ m # key /\ new[m][e] = link[m][e] /\ link[m][e] \in N \cup {NULLNODE}
              /\ \A i \in 1 .. Len(way) : Step(m, e) # way[i]
              /\ \A i \in 2 .. Len(way) : link[m][e] # way[i].node
<1> SUFFICES ASSUME NEW m \in N \cup {key, Anchor}, NEW e \in Sides
             PROVE  \/ Step(m, e) = way[Len(way)] /\ m # key /\ link[m][e] = NULLNODE /\ new[m][e] = key
                    \/ \E i \in 1 .. Len(way) - 1 :
                         /\ Step(m, e) = way[i] /\ m # key /\ link[m][e] = way[i + 1].node
                         /\ link[m][e] \in N /\ new[m][e] = link[m][e]
                    \/ m = key /\ new[m][e] = NULLNODE
                    \/ /\ m # key /\ new[m][e] = link[m][e] /\ link[m][e] \in N \cup {NULLNODE}
                       /\ \A i \in 1 .. Len(way) : Step(m, e) # way[i]
                       /\ \A i \in 2 .. Len(way) : link[m][e] # way[i].node
  OBVIOUS
<1>1. N \subseteq AvlNodes /\ NULLNODE \notin N /\ key # Anchor /\ m \in Parents /\ IsWay(link, N, way)
  <2>1. N \subseteq AvlNodes /\ NULLNODE \notin N /\ IsWay(link, N, way)
    BY ShapedIs DEF Leads
  <2>2. key # Anchor
    BY NumbersOf
  <2> QED BY <2>1, <2>2 DEF Parents
<1>2. /\ Len(way) \in Nat \ {0} /\ Len(way) \in 1 .. Len(way)
      /\ \A i \in 1 .. Len(way) : /\ way[i].node \in N \cup {Anchor} /\ way[i].side \in Sides
                                  /\ way[i] = Step(way[i].node, way[i].side)
  BY <1>1, StepsOf
<1>3. \A i \in 1 .. Len(way) : Step(m, e) = way[i] =>
         m = way[i].node /\ e = way[i].side /\ m # key /\ link[m][e] = Goes(link, way, i)
  BY <1>1, <1>2, StepIs DEF Goes
<1>4. new[m][e] = IF Step(m, e) = way[Len(way)] THEN key ELSE IF m = key THEN NULLNODE ELSE link[m][e]
  BY <1>1 DEF LinksAdded
<1>5. CASE Step(m, e) = way[Len(way)]
  <2>1. link[m][e] = NULLNODE /\ m # key
    BY <1>2, <1>3, <1>5 DEF Leads
  <2> QED BY <1>4, <1>5, <2>1
<1>6. ASSUME NEW i \in 1 .. Len(way) - 1, Step(m, e) = way[i]
      PROVE  /\ m # key /\ link[m][e] = way[i + 1].node
             /\ link[m][e] \in N /\ new[m][e] = link[m][e]
  <2>1. i \in 1 .. Len(way) /\ i + 1 \in 2 .. Len(way) /\ (i + 1) - 1 = i /\ i # Len(way)
    BY <1>2
  <2>2. m # key /\ link[m][e] = way[i + 1].node /\ link[m][e] \in N
    BY <1>1, <1>3, <1>6, <2>1 DEF IsWay
  <2>3. Step(m, e) # way[Len(way)]
    <3> SUFFICES ASSUME Step(m, e) = way[Len(way)] PROVE FALSE
      OBVIOUS
    <3>1. way[i].node = way[Len(way)].node
      BY <1>6
    <3> QED BY <1>1, <1>2, <2>1, <3>1, WayBack
  <2> QED BY <1>4, <2>2, <2>3
<1>7. CASE m = key
  BY <1>2, <1>3, <1>4, <1>7
<1>8. CASE m # key /\ \A i \in 1 .. Len(way) : Step(m, e) # way[i]
  <2>1. m \in N \cup {Anchor}
    BY <1>8
  <2>2. link[m][e] \in N \cup {NULLNODE}
    BY <2>1 DEF Shaped
  <2>3. ASSUME NEW i \in 2 .. Len(way) PROVE link[m][e] # way[i].node
    <3>1. i - 1 \in 1 .. Len(way)
      BY <1>2
    <3> QED BY <1>1, <1>8, <2>1, <3>1, WayBack
  <2> QED BY <1>2, <1>4, <1>8, <2>2, <2>3
<1>9. \A i \in 1 .. Len(way) : i = Len(way) \/ i \in 1 .. Len(way) - 1
  BY <1>2
<1> QED BY <1>5, <1>6, <1>7, <1>8, <1>9

LEMMA AddedShaped ==
  ASSUME NEW link, NEW N, NEW T, NEW P, Shaped(link, N, T, P),
         NEW key \in AvlNodes \ N, NEW way, Leads(link, N, way, key),
         NEW new, LinksAdded(link, new, way, key)
  PROVE  IsWay(new, N \cup {key}, way) /\ \E U, Q : Shaped(new, N \cup {key}, U, Q)
<1> DEFINE M == N \cup {key}
           OnWay == {way[i].node : i \in 2 .. Len(way)}
           U == [n \in Places |-> IF n = key THEN {key} ELSE IF n \in OnWay THEN T[n] \cup {key} ELSE T[n]]
           Q == [P EXCEPT ![key] = way[Len(way)]]
           Passes(m, e) == \E i \in 1 .. Len(way) : Step(m, e) = way[i]
<1>1. /\ N \subseteq AvlNodes /\ NULLNODE \notin M /\ Anchor \notin M /\ NULLNODE # Anchor /\ M \subseteq Places
      /\ IsWay(link, N, way) /\ way[1] = TopStep /\ T[NULLNODE] = {} /\ Nested(link, N, T)
  <2>1. N \subseteq AvlNodes /\ T[NULLNODE] = {}
    BY DEF Shaped
  <2>2. Nested(link, N, T)
    BY NestedIs
  <2> QED BY <2>1, <2>2, NumbersOf DEF Leads, Places
<1>2. /\ Len(way) \in Nat \ {0} /\ Len(way) \in 1 .. Len(way)
      /\ \A i \in 1 .. Len(way) : /\ way[i] \in Steps /\ way[i].node \in N \cup {Anchor} /\ way[i].side \in Sides
                                  /\ way[i] = Step(way[i].node, way[i].side)
      /\ \A i \in 2 .. Len(way) : way[i].node \in N /\ i \in 1 .. Len(way)
  <2>1. Len(way) \in Nat \ {0}
    BY <1>1, StepsOf
  <2>2. \A i \in 2 .. Len(way) : way[i].node \in N /\ i \in 1 .. Len(way)
    BY <1>1, <2>1 DEF IsWay
  <2>3. Len(way) \in 1 .. Len(way)
    BY <2>1
  <2> QED BY <1>1, <2>1, <2>2, <2>3, StepsOf
<1>3. OnWay \subseteq N
  BY <1>2
<1>4. /\ U \in [Places -> SUBSET AvlNodes] /\ U[key] = {key} /\ U[NULLNODE] = {}
      /\ \A n \in OnWay : U[n] = T[n] \cup {key}
      /\ \A n \in N \cup {NULLNODE} : n \notin OnWay => U[n] = T[n]
  BY <1>1, <1>3 DEF Shaped, Places
<1>5. Q \in [Places -> Steps] /\ Q[key] = way[Len(way)] /\ \A n \in N : Q[n] = P[n]
  BY <1>1, <1>2 DEF Shaped, Places
<1> HIDE DEF U, Q
<1>6. ASSUME NEW m \in M \cup {Anchor}, NEW e \in Sides
      PROVE  /\ new[m][e] \in M \cup {NULLNODE}
             /\ new[m][e] # NULLNODE => Q[new[m][e]] = Step(m, e)
             /\ U[new[m][e]] = IF Passes(m, e) THEN T[link[m][e]] \cup {key}
                               ELSE IF m = key THEN {} ELSE T[link[m][e]]
  <2>1. /\ \A i \in 1 .. Len(way) : Step(m, e) = way[i] => m # key
        /\ \A i \in 1 .. Len(way) - 1 : i \in 1 .. Len(way) /\ i + 1 \in 2 .. Len(way)
    BY <1>1, <1>2, StepIs
  <2>2. CASE Step(m, e) = way[Len(way)] /\ m # key /\ link[m][e] = NULLNODE /\ new[m][e] = key
    BY <1>1, <1>2, <1>4, <1>5, <2>2
  <2>3. CASE \E i \in 1 .. Len(way) - 1 :
                /\ Step(m, e) = way[i] /\ m # key /\ link[m][e] = way[i + 1].node
                /\ link[m][e] \in N /\ new[m][e] = link[m][e]
    <3>1. Passes(m, e) /\ link[m][e] \in OnWay /\ new[m][e] = link[m][e] /\ m \in N \cup {Anchor} /\ link[m][e] \in N
      BY <2>1, <2>3
    <3>2. P[link[m][e]] = Step(m, e)
      BY <1>1, <3>1 DEF Shaped
    <3> HIDE DEF OnWay, Passes
    <3> QED BY <1>1, <1>4, <1>5, <3>1, <3>2
  <2>4. CASE m = key /\ new[m][e] = NULLNODE
    BY <1>4, <2>1, <2>4
  <2>5. CASE /\ m # key /\ new[m][e] = link[m][e] /\ link[m][e] \in N \cup {NULLNODE}
             /\ \A i \in 1 .. Len(way) : Step(m, e) # way[i]
             /\ \A i \in 2 .. Len(way) : link[m][e] # way[i].node
    <3>1. ~ Passes(m, e) /\ link[m][e] \notin OnWay /\ m \in N \cup {Anchor}
      BY <2>5
    <3>2. link[m][e] # NULLNODE => P[link[m][e]] = Step(m, e)
      BY <3>1 DEF Shaped
    <3> HIDE DEF OnWay, Passes
    <3> QED BY <1>4, <1>5, <2>5, <3>1, <3>2
  <2> QED BY <2>2, <2>3, <2>4, <2>5, AddedLinks
<1>7. ASSUME NEW m \in N, NEW e \in Sides, Passes(m, e)
      PROVE  m \in OnWay /\ On(e, key, m) /\ ~ Passes(m, 1 - e)
  <2>1. PICK i \in 1 .. Len(way) : Step(m, e) = way[i]
    BY <1>7
  <2>2. way[i].node = m /\ way[i].side = e
    BY <2>1, StepIs
  <2>3. i # 1
    BY <1>1, <2>2, StepIs DEF TopStep
  <2>4. i \in 2 .. Len(way)
    BY <2>3
  <2>5. ~ Passes(m, 1 - e)
    <3> SUFFICES ASSUME NEW j \in 1 .. Len(way), Step(m, 1 - e) = way[j] PROVE FALSE
      OBVIOUS
    <3>1. way[j].node = m /\ way[j].side = 1 - e
      BY StepIs
    <3>2. i = j
      BY <1>1, <2>2, <3>1, WayBack
    <3> QED BY <2>2, <3>1, <3>2, NumbersOf
  <2> QED BY <2>2, <2>4, <2>5 DEF Leads
<1>8. ASSUME NEW m \in OnWay PROVE \E e \in Sides : Passes(m, e)
  BY <1>2
<1>9. ASSUME NEW m \in M
      PROVE  /\ U[m] \subseteq M /\ U[m] = {m} \cup U[new[m][0]] \cup U[new[m][1]]
             /\ \A e \in Sides : \A k \in U[new[m][e]] : On(e, k, m)
  <2> HIDE DEF Passes, OnWay
  <2>0. 0 \in Sides /\ 1 \in Sides
    BY DEF Sides
  <2>1. CASE m = key
    <3>1. ASSUME NEW e \in Sides PROVE U[new[m][e]] = {}
      <4>1. ~ Passes(m, e)
        BY <1>1, <1>2, <2>1, StepIs DEF Passes
      <4> QED BY <1>6, <2>1, <4>1
    <3> QED BY <1>4, <2>0, <2>1, <3>1
  <2>2. CASE m \in N /\ m \in OnWay
    <3>1. PICK e \in Sides : Passes(m, e)
      BY <1>8, <2>2
    <3>2. On(e, key, m) /\ ~ Passes(m, 1 - e) /\ 1 - e \in Sides /\ m # key
      BY <1>7, <2>2, <3>1, NumbersOf
    <3>3. U[new[m][e]] = T[link[m][e]] \cup {key} /\ U[new[m][1 - e]] = T[link[m][1 - e]]
      BY <1>6, <2>2, <3>1, <3>2
    <3>4. T[m] = {m} \cup T[link[m][e]] \cup T[link[m][1 - e]] /\ T[m] \subseteq N
      BY <1>1, <2>2 DEF Nested
    <3>5. \A f \in Sides : \A k \in T[link[m][f]] : On(f, k, m)
      BY <2>2 DEF Shaped
    <3>6. {m} \cup U[new[m][0]] \cup U[new[m][1]] = {m} \cup U[new[m][e]] \cup U[new[m][1 - e]]
      BY DEF Sides
    <3>7. \A f \in Sides : f = e \/ f = 1 - e
      BY NumbersOf
    <3> QED BY <1>4, <2>2, <3>2, <3>3, <3>4, <3>5, <3>6, <3>7
  <2>3. CASE m \in N /\ m \notin OnWay
    <3>1. ASSUME NEW e \in Sides PROVE U[new[m][e]] = T[link[m][e]]
      <4>1. ~ Passes(m, e) /\ m # key
        BY <1>7, <2>3
      <4> QED BY <1>6, <4>1
    <3>2. T[m] = {m} \cup T[link[m][0]] \cup T[link[m][1]] /\ T[m] \subseteq N /\ U[m] = T[m]
      BY <1>4, <2>3 DEF Shaped
    <3> QED BY <2>0, <2>3, <3>1, <3>2 DEF Shaped
  <2> QED BY <2>1, <2>2, <2>3
<1>10. U[new[Anchor][0]] = M /\ new[Anchor][1] = NULLNODE
  <2>0. 0 \in Sides /\ 1 \in Sides
    BY DEF Sides
  <2>1. Step(Anchor, 0) = way[1] /\ 1 \in 1 .. Len(way)
    BY <1>1, <1>2 DEF TopStep
  <2>2. U[new[Anchor][0]] = N \cup {key}
    <3>1. Passes(Anchor, 0)
      BY <2>1
    <3>2. T[link[Anchor][0]] = N
      BY DEF Shaped
    <3> HIDE DEF Passes
    <3> QED BY <1>6, <2>0, <3>1, <3>2
  <2>3. \A i \in 1 .. Len(way) : Step(Anchor, 1) # way[i]
    <3> SUFFICES ASSUME NEW i \in 1 .. Len(way), Step(Anchor, 1) = way[i] PROVE FALSE
      OBVIOUS
    <3>1. way[i].node = Anchor /\ way[i].side = 1
      BY StepIs
    <3>2. way[1].node = Anchor /\ way[1].side = 0
      BY <2>1, StepIs
    <3>3. i = 1
      BY <1>1, <2>1, <3>1, <3>2, WayBack
    <3> QED BY <3>1, <3>2, <3>3
  <2>4. new[Anchor][1] = link[Anchor][1]
    BY <1>1, <1>2, <2>0, <2>3 DEF LinksAdded, Parents
  <2> QED BY <2>2, <2>4 DEF Shaped
<1>11. IsWay(new, M, way)
  <2>1. ASSUME NEW i \in 2 .. Len(way) PROVE Goes(new, way, i - 1) = way[i].node
    <3>1. i - 1 \in 1 .. Len(way) /\ i - 1 # Len(way) /\ way[i].node = Goes(link, way, i - 1)
      BY <1>1, <1>2 DEF IsWay
    <3>2. way[i - 1].node # way[Len(way)].node /\ way[i - 1].node # key /\ way[i - 1].node \in Parents
          /\ way[i - 1].side \in Sides
      BY <1>1, <1>2, <3>1, WayBack DEF Parents
    <3>3. Step(way[i - 1].node, way[i - 1].side) # way[Len(way)]
      BY <3>2, StepIs
    <3> QED BY <3>1, <3>2, <3>3 DEF LinksAdded, Goes
  <2> QED BY <1>1, <2>1 DEF IsWay
<1>12. M \subseteq AvlNodes
  BY <1>1
<1>13. \A m \in M \cup {Anchor}, e \in Sides :
          new[m][e] \in M \cup {NULLNODE} /\ (new[m][e] # NULLNODE => Q[new[m][e]] = Step(m, e))
  BY <1>6
<1> HIDE DEF M
<1>14. Shaped(new, M, U, Q)
  BY <1>4, <1>5, <1>9, <1>10, <1>12, <1>13 DEF Shaped
<1> QED BY <1>11, <1>14 DEF M

(* Above the anchor nothing is lower than it is known to be.               *)
LEMMA TopIsExact ==
  ASSUME NEW link, NEW N, NEW T, NEW P, Shaped(link, N, T, P), NEW balance, NEW h
  PROVE  /\ Balanced(link, balance, N, h, TopStep) <=>
              /\ h \in [Places -> Nat] /\ h[NULLNODE] = 0
              /\ \A m \in N : Levelled(balance[m], h[link[m][0]], h[link[m][1]], h[m])
         /\ h \in [Places -> Nat] => \A m \in N, d \in Sides : Known(link, h, TopStep, m, d) = h[link[m][d]]
<1>1. ASSUME h \in [Places -> Nat], NEW m \in N, NEW d \in Sides PROVE Known(link, h, TopStep, m, d) = h[link[m][d]]
  <2>1. m # Anchor /\ TopStep # Step(m, d)
    BY NumbersOf, StepIs DEF TopStep, Shaped
  <2>2. h[link[m][d]] \in Nat
    BY <1>1 DEF Shaped, Places
  <2> QED BY <2>1, <2>2 DEF Known
<1>2. 0 \in Sides /\ 1 \in Sides
  BY DEF Sides
<1> QED BY <1>1, <1>2 DEF Balanced

(* From step a of the way on the nodes were even, and are higher now.      *)
GivenAdded(N, way, a, key, balance, after) ==
  /\ a \in 1 .. Len(way) /\ \A i \in a + 1 .. Len(way) : balance[way[i].node] = 0
  /\ after[key] = 0
  /\ \A i \in 2 .. Len(way) : i >= a => after[way[i].node] = balance[way[i].node] + Sign(way[i].side)
  /\ \A m \in N : (\A i \in 2 .. Len(way) : i >= a => m # way[i].node) => after[m] = balance[m]

LEMMA AddedLevelled ==
  ASSUME NEW link, NEW N, NEW T, NEW P, Shaped(link, N, T, P),
         NEW key \in AvlNodes \ N, NEW way, Leads(link, N, way, key),
         NEW new, LinksAdded(link, new, way, key),
         NEW balance, NEW h, Balanced(link, balance, N, h, TopStep),
         NEW a, NEW after, GivenAdded(N, way, a, key, balance, after)
  PROVE  \E g : /\ ElseLevelled(new, after, N \cup {key}, g, way[a].node)
                /\ way[a].node \in N =>
                     /\ g[way[a].node] = h[way[a].node]
                     /\ g[Goes(new, way, a)] = h[Goes(link, way, a)] + 1
                     /\ g[new[way[a].node][1 - way[a].side]] = h[link[way[a].node][1 - way[a].side]]
<1> DEFINE M == N \cup {key}
           Raised == {way[i].node : i \in a + 1 .. Len(way)}
           g == [n \in Places |-> IF n = key THEN 1 ELSE IF n \in Raised THEN h[n] + 1 ELSE h[n]]
           Passes(m, e) == \E i \in a .. Len(way) : Step(m, e) = way[i]
<1>1. /\ N \subseteq AvlNodes /\ NULLNODE \notin M /\ Anchor \notin M /\ NULLNODE # Anchor /\ M \subseteq Places
      /\ IsWay(link, N, way) /\ way[1] = TopStep /\ N \subseteq Places /\ NULLNODE \in Places
  <2>1. /\ N \subseteq AvlNodes /\ NULLNODE \notin N /\ Anchor \notin N /\ N \subseteq Places
        /\ IsWay(link, N, way) /\ way[1] = TopStep
    BY ShapedIs DEF Leads
  <2>2. key # NULLNODE /\ key # Anchor /\ NULLNODE # Anchor /\ key \in Places /\ NULLNODE \in Places
    BY NumbersOf DEF Places
  <2> QED BY <2>1, <2>2
<1>2. /\ Len(way) \in Nat \ {0} /\ Len(way) \in 1 .. Len(way) /\ a \in 1 .. Len(way)
      /\ \A i \in 1 .. Len(way) : /\ way[i].node \in N \cup {Anchor} /\ way[i].side \in Sides
                                  /\ way[i] = Step(way[i].node, way[i].side)
      /\ \A i \in a .. Len(way) : i \in 1 .. Len(way)
      /\ \A i \in a + 1 .. Len(way) : i \in 2 .. Len(way) /\ i \in a .. Len(way) /\ i >= a /\ way[i].node \in N
  <2>1. Len(way) \in Nat \ {0} /\ a \in 1 .. Len(way)
    BY <1>1, StepsOf DEF GivenAdded
  <2>2. \A i \in a + 1 .. Len(way) : i \in 2 .. Len(way) /\ i \in a .. Len(way) /\ i >= a
    BY <2>1
  <2>3. \A i \in 2 .. Len(way) : way[i].node \in N
    BY <1>1 DEF IsWay
  <2>4. Len(way) \in 1 .. Len(way) /\ \A i \in a .. Len(way) : i \in 1 .. Len(way)
    BY <2>1
  <2> QED BY <1>1, <2>1, <2>2, <2>3, <2>4, StepsOf
<1>3. Raised \subseteq N
  BY <1>2
<1>4. /\ h \in [Places -> Nat] /\ h[NULLNODE] = 0
      /\ \A m \in N : Levelled(balance[m], h[link[m][0]], h[link[m][1]], h[m])
  BY TopIsExact
<1>5. /\ g \in [Places -> Nat] /\ g[key] = 1 /\ g[NULLNODE] = 0
      /\ \A n \in Raised : g[n] = h[n] + 1
      /\ \A n \in N \cup {NULLNODE} : n \notin Raised => g[n] = h[n]
  <2>1. \A n \in Places : h[n] \in Nat /\ h[n] + 1 \in Nat
    BY <1>4
  <2>2. g \in [Places -> Nat]
    BY <2>1
  <2> HIDE DEF Raised
  <2> QED BY <1>1, <1>3, <1>4, <2>2
<1> HIDE DEF g
<1>6. ASSUME NEW m \in N, NEW e \in Sides
      PROVE  /\ link[m][e] \in N \cup {NULLNODE}
             /\ g[new[m][e]] = IF Passes(m, e) THEN h[link[m][e]] + 1 ELSE h[link[m][e]]
  <2>0. m # key /\ \A i \in a .. Len(way) : i \in 1 .. Len(way)
    BY <1>2
  <2>1. link[m][e] \in N \cup {NULLNODE}
    BY DEF Shaped
  <2>2. CASE Step(m, e) = way[Len(way)] /\ m # key /\ link[m][e] = NULLNODE /\ new[m][e] = key
    <3>1. Passes(m, e)
      BY <1>2, <2>2
    <3> QED BY <1>4, <1>5, <2>1, <2>2, <3>1
  <2>3. ASSUME NEW i \in 1 .. Len(way) - 1,
               Step(m, e) = way[i], m # key, link[m][e] = way[i + 1].node,
               link[m][e] \in N, new[m][e] = link[m][e]
        PROVE  g[new[m][e]] = IF Passes(m, e) THEN h[link[m][e]] + 1 ELSE h[link[m][e]]
    <3>1. i \in 1 .. Len(way) /\ i + 1 \in 1 .. Len(way)
      BY <1>2
    <3>2. CASE i >= a
      <4>1. i \in a .. Len(way) /\ i + 1 \in a + 1 .. Len(way)
        BY <1>2, <3>1, <3>2
      <4>2. Passes(m, e) /\ link[m][e] \in Raised
        BY <2>3, <4>1
      <4> HIDE DEF Passes, Raised
      <4> QED BY <1>5, <2>3, <4>2
    <3>3. CASE i < a
      <4>1. \A j \in 1 .. Len(way) : Step(m, e) = way[j] => i = j
        BY <1>1, <2>3, <3>1, WayBack
      <4>2. ~ Passes(m, e)
        BY <1>2, <3>3, <4>1
      <4>3. \A j \in 1 .. Len(way) : link[m][e] = way[j].node => i + 1 = j
        BY <1>1, <2>3, <3>1, WayBack
      <4>4. link[m][e] \notin Raised
        <5> SUFFICES ASSUME NEW j \in a + 1 .. Len(way), link[m][e] = way[j].node PROVE FALSE
          OBVIOUS
        <5>1. j \in 1 .. Len(way)
          BY <1>2
        <5> QED BY <1>2, <3>3, <4>3, <5>1
      <4> HIDE DEF Passes, Raised
      <4> QED BY <1>5, <2>3, <4>2, <4>4
    <3> QED BY <1>2, <3>1, <3>2, <3>3
  <2>4. CASE /\ m # key /\ new[m][e] = link[m][e] /\ link[m][e] \in N \cup {NULLNODE}
             /\ \A i \in 1 .. Len(way) : Step(m, e) # way[i]
             /\ \A i \in 2 .. Len(way) : link[m][e] # way[i].node
    <3>1. ~ Passes(m, e) /\ link[m][e] \notin Raised
      BY <1>2, <2>4
    <3> HIDE DEF Passes, Raised
    <3> QED BY <1>5, <2>4, <3>1
  <2> HIDE DEF Passes
  <2>5. \/ Step(m, e) = way[Len(way)] /\ m # key /\ link[m][e] = NULLNODE /\ new[m][e] = key
        \/ \E i \in 1 .. Len(way) - 1 :
             /\ Step(m, e) = way[i] /\ m # key /\ link[m][e] = way[i + 1].node
             /\ link[m][e] \in N /\ new[m][e] = link[m][e]
        \/ m = key /\ new[m][e] = NULLNODE
        \/ /\ m # key /\ new[m][e] = link[m][e] /\ link[m][e] \in N \cup {NULLNODE}
           /\ \A i \in 1 .. Len(way) : Step(m, e) # way[i]
           /\ \A i \in 2 .. Len(way) : link[m][e] # way[i].node
    BY AddedLinks
  <2> QED BY <2>0, <2>1, <2>2, <2>3, <2>4, <2>5
<1>7. ASSUME NEW m \in N, NEW i \in a .. Len(way), m = way[i].node
      PROVE  Passes(m, way[i].side) /\ ~ Passes(m, 1 - way[i].side) /\ i \in 2 .. Len(way)
  <2>1. i \in 1 .. Len(way) /\ way[i].side \in Sides /\ 1 - way[i].side # way[i].side
    BY <1>2, NumbersOf
  <2>2. Passes(m, way[i].side)
    BY <1>2, <1>7, <2>1
  <2>3. ~ Passes(m, 1 - way[i].side)
    <3> SUFFICES ASSUME NEW j \in a .. Len(way), Step(m, 1 - way[i].side) = way[j] PROVE FALSE
      OBVIOUS
    <3>1. way[j].node = m /\ way[j].side = 1 - way[i].side /\ j \in 1 .. Len(way)
      BY <1>2, StepIs
    <3>2. i = j
      BY <1>1, <1>7, <2>1, <3>1, WayBack
    <3> QED BY <2>1, <3>1, <3>2
  <2>4. i # 1
    BY <1>1, <1>7, StepIs DEF TopStep
  <2> QED BY <2>1, <2>2, <2>3, <2>4
<1>8. ASSUME NEW m \in M, m # way[a].node
      PROVE  Levelled(after[m], g[new[m][0]], g[new[m][1]], g[m])
  <2>0. 0 \in Sides /\ 1 \in Sides /\ 0 # 1
    BY DEF Sides
  <2>1. CASE m = key
    <3>1. ASSUME NEW e \in Sides PROVE new[m][e] = NULLNODE
      <4>1. m \in Parents /\ Step(m, e) # way[Len(way)]
        BY <1>1, <1>2, <2>1, StepIs DEF Parents
      <4> QED BY <2>1, <4>1 DEF LinksAdded
    <3>2. new[m][0] = NULLNODE /\ new[m][1] = NULLNODE /\ after[m] = 0
      BY <2>0, <2>1, <3>1 DEF GivenAdded
    <3> QED BY <1>5, <2>1, <3>2 DEF Levelled
  <2>2. ASSUME NEW i \in a + 1 .. Len(way), m = way[i].node
        PROVE  Levelled(after[m], g[new[m][0]], g[new[m][1]], g[m])
    <3> DEFINE d == way[i].side
    <3>1. i \in 2 .. Len(way) /\ i \in a .. Len(way) /\ i >= a /\ m \in N /\ d \in Sides /\ 1 - d \in Sides
          /\ i \in 1 .. Len(way)
      BY <1>2, <2>2, NumbersOf
    <3>2. m \in Raised /\ Passes(m, d) /\ ~ Passes(m, 1 - d) /\ balance[m] = 0 /\ after[m] = Sign(d)
      <4>1. balance[m] = 0 /\ after[m] = balance[m] + Sign(d)
        BY <2>2, <3>1 DEF GivenAdded
      <4>2. Sign(d) \in Int
        BY <3>1, NumbersOf
      <4> QED BY <1>7, <2>2, <3>1, <4>1, <4>2
    <3> HIDE DEF d, Passes, Raised
    <3>3. g[new[m][d]] = h[link[m][d]] + 1 /\ g[new[m][1 - d]] = h[link[m][1 - d]] /\ g[m] = h[m] + 1
          /\ h[link[m][d]] \in Nat /\ h[link[m][1 - d]] \in Nat /\ h[m] \in Nat
      BY <1>1, <1>4, <1>5, <1>6, <3>1, <3>2
    <3> DEFINE near == g[new[m][d]]
               far == g[new[m][1 - d]]
               l == g[new[m][0]]
               r == g[new[m][1]]
    <3>4. Levelled(0, h[link[m][0]], h[link[m][1]], h[m])
      BY <1>4, <3>1, <3>2
    <3>5. h[link[m][d]] = h[link[m][1 - d]] /\ h[m] = 1 + h[link[m][d]]
      <4>1. h[link[m][0]] \in Nat /\ h[link[m][1]] \in Nat
        BY <3>1, <3>3 DEF Sides
      <4>2. h[link[m][0]] = h[link[m][1]] /\ h[m] = 1 + h[link[m][0]]
        BY <3>4, <4>1 DEF Levelled
      <4> QED BY <3>1, <4>2 DEF Sides
    <3>6. d = 0 => l = near /\ r = far
      OBVIOUS
    <3>7. d = 1 => l = far /\ r = near
      OBVIOUS
    <3>8. near \in Int /\ far \in Int /\ near = far + 1 /\ g[m] = 1 + near
      BY <3>3, <3>5
    <3> HIDE DEF near, far, l, r
    <3>9. Levelled(after[m], l, r, g[m])
      <4>1. \/ after[m] = 0 /\ near = far /\ g[m] = 1 + near
            \/ after[m] = Sign(d) /\ near = far + 1 /\ g[m] = 1 + near
            \/ after[m] = -Sign(d) /\ far = near + 1 /\ g[m] = 1 + far
        BY <3>2, <3>8
      <4>2. near \in Int /\ far \in Int /\ d \in Sides
        BY <3>1, <3>8
      <4>3. CASE d = 0
        BY <3>6, <4>1, <4>2, <4>3 DEF Levelled, Sign
      <4>4. CASE d = 1
        BY <3>7, <4>1, <4>2, <4>4 DEF Levelled, Sign
      <4> QED BY <4>2, <4>3, <4>4 DEF Sides
    <3> QED BY <3>9 DEF l, r
  <2>3. CASE m \in N /\ \A i \in a + 1 .. Len(way) : m # way[i].node
    <3>1. \A i \in 1 .. Len(way) : i >= a => m # way[i].node
      <4>1. \A i \in 1 .. Len(way) : i >= a => i = a \/ i \in a + 1 .. Len(way)
        BY <1>2
      <4> QED BY <1>8, <2>3, <4>1
    <3>2. m \notin Raised /\ after[m] = balance[m]
      BY <1>2, <2>3, <3>1 DEF GivenAdded
    <3>3. \A e \in Sides : ~ Passes(m, e)
      BY <1>2, <3>1, StepIs
    <3> HIDE DEF Passes, Raised
    <3>4. g[new[m][0]] = h[link[m][0]] /\ g[new[m][1]] = h[link[m][1]] /\ g[m] = h[m]
      BY <1>5, <1>6, <2>0, <2>3, <3>2, <3>3
    <3> QED BY <1>4, <2>3, <3>2, <3>4
  <2> QED BY <2>1, <2>2, <2>3
<1>9. ElseLevelled(new, after, M, g, way[a].node)
  BY <1>5, <1>8 DEF ElseLevelled
<1>10. ASSUME way[a].node \in N
       PROVE  /\ g[way[a].node] = h[way[a].node]
              /\ g[Goes(new, way, a)] = h[Goes(link, way, a)] + 1
              /\ g[new[way[a].node][1 - way[a].side]] = h[link[way[a].node][1 - way[a].side]]
  <2>1. a \in a .. Len(way) /\ way[a].side \in Sides /\ 1 - way[a].side \in Sides
    BY <1>2, NumbersOf
  <2>2. Passes(way[a].node, way[a].side) /\ ~ Passes(way[a].node, 1 - way[a].side)
    BY <1>7, <1>10, <2>1
  <2>3. way[a].node \notin Raised
    <3> SUFFICES ASSUME NEW i \in a + 1 .. Len(way), way[a].node = way[i].node PROVE FALSE
      OBVIOUS
    <3>1. i \in 1 .. Len(way) /\ i # a
      BY <1>2
    <3> QED BY <1>1, <1>2, <3>1, WayBack
  <2> HIDE DEF Passes, Raised
  <2> QED BY <1>5, <1>6, <1>10, <2>1, <2>2, <2>3 DEF Goes
<1> QED BY <1>9, <1>10

LEMMA ElseIsBalanced ==
  ASSUME NEW link, NEW N, NEW T, NEW P, Shaped(link, N, T, P), NEW balance, NEW h, NEW y,
         ElseLevelled(link, balance, N, h, y),
         y \in N => Levelled(balance[y], h[link[y][0]], h[link[y][1]], h[y])
  PROVE  Balanced(link, balance, N, h, TopStep)
BY TopIsExact DEF ElseLevelled

LEMMA RotationEven ==
  ASSUME NEW link, NEW balance, NEW y, NEW d \in Sides
  PROVE  Rotation(link, balance, y, d).even <=> balance[link[y][d]] = 0
<1>1. -Sign(d) # 0
  BY NumbersOf
<1>2. CASE balance[link[y][d]] = -Sign(d)
  BY <1>1, <1>2 DEF Rotation, DoubleRotation
<1>3. CASE balance[link[y][d]] # -Sign(d)
  BY <1>3 DEF Rotation, SingleRotation
<1> QED BY <1>2, <1>3

-----------------------------------------------------------------------------
(* The invariant of the tree.                                              *)
Vacant(link, N) == \A n \in AvlNodes \ N, d \in Sides : link[n][d] = NULLNODE

Fits(link, balance, N) ==
  /\ LinkType(link) /\ BalanceType(balance) /\ N \subseteq AvlNodes
  /\ \E T, P : Shaped(link, N, T, P)
  /\ \E h : Balanced(link, balance, N, h, TopStep)

TreeInv ==
  /\ Fits(av_link, av_balance, av_nodes) /\ Vacant(av_link, av_nodes)
  /\ av_count = Cardinality(av_nodes)

(* What Insert makes of the links and the balances before it rotates.      *)
Hooked(way, key) == Hung([av_link EXCEPT ![key] = [d \in Sides |-> NULLNODE]], Last(way), key)

Lifted(way, top, key) ==
  [m \in AvlNodes |->
     IF m = key THEN 0
     ELSE IF \E i \in top .. Len(way) : way[i].node = m
          THEN av_balance[m] + Sign(way[CHOOSE i \in top .. Len(way) : way[i].node = m].side)
          ELSE av_balance[m]]

GivenTop(way, top, a) ==
  /\ top \in Nat /\ top >= 2 /\ \A i \in 2 .. Len(way) : i > top => av_balance[way[i].node] = 0
  /\ \/ a = 1 /\ top = 2 /\ (Len(way) >= 2 => av_balance[way[2].node] = 0)
     \/ a = top /\ top <= Len(way)

LEMMA AddedIs ==
  ASSUME NEW N, NEW T, NEW P, Shaped(av_link, N, T, P), LinkType(av_link), BalanceType(av_balance),
         NEW key \in AvlNodes \ N, NEW way, Leads(av_link, N, way, key),
         NEW link, link = Hooked(way, key), NEW top, NEW a, GivenTop(way, top, a),
         NEW balance, balance = Lifted(way, top, key)
  PROVE  /\ LinkType(link) /\ LinksAdded(av_link, link, way, key)
         /\ BalanceType(balance) /\ GivenAdded(N, way, a, key, av_balance, balance)
<1> USE DEF GivenTop
<1>1. N \subseteq AvlNodes /\ IsWay(av_link, N, way) /\ key \in Places /\ NULLNODE \in Places
  BY DEF Leads, Shaped, Places
<1>2. /\ Len(way) \in Nat \ {0} /\ Len(way) \in 1 .. Len(way) /\ Last(way) = way[Len(way)]
      /\ \A i \in 1 .. Len(way) : /\ way[i] \in Steps /\ way[i].node \in N \cup {Anchor} /\ way[i].side \in Sides
                                  /\ way[i] = Step(way[i].node, way[i].side)
  BY <1>1, StepsOf
<1>3. LinkType(link) /\ LinksAdded(av_link, link, way, key)
  <2> DEFINE none == [d \in Sides |-> NULLNODE]
             empty == [av_link EXCEPT ![key] = none]
  <2>1. LinkType(empty) /\ \A m \in Parents, e \in Sides : empty[m][e] = IF m = key THEN NULLNODE ELSE av_link[m][e]
    <3>1. none \in [Sides -> Places] /\ \A e \in Sides : none[e] = NULLNODE
      BY <1>1
    <3> HIDE DEF none
    <3> QED BY <1>1, <3>1 DEF LinkType, Parents
  <2> HIDE DEF empty, none
  <2>2. link = Hung(empty, way[Len(way)], key)
    BY <1>2 DEF empty, none, Hooked
  <2>3. way[Len(way)] \in Steps
    BY <1>2
  <2>4. LinkType(link) /\ \A m \in Parents, e \in Sides :
          link[m][e] = IF Step(m, e) = way[Len(way)] THEN key ELSE empty[m][e]
    <3> DEFINE last == way[Len(way)]
    <3>1. last \in Steps /\ link = Hung(empty, last, key) /\ LinkType(empty) /\ key \in Places
      BY <1>1, <2>1, <2>2, <2>3
    <3> HIDE DEF last
    <3>2. LinkType(link) /\ \A m \in Parents, e \in Sides :
            link[m][e] = IF Step(m, e) = last THEN key ELSE empty[m][e]
      <4>1. LinkType(Hung(empty, last, key)) /\ \A m \in Parents, d \in Sides :
              Hung(empty, last, key)[m][d] = IF Step(m, d) = last THEN key ELSE empty[m][d]
        BY <3>1, HungIs
      <4> QED BY <3>1, <4>1
    <3> QED BY <3>2 DEF last
  <2> QED BY <2>1, <2>4 DEF LinksAdded
<1> DEFINE Passed(m) == \E i \in top .. Len(way) : way[i].node = m
           At(m) == CHOOSE i \in top .. Len(way) : way[i].node = m
<1>4. \A i \in top .. Len(way) : i \in 1 .. Len(way) /\ i \in 2 .. Len(way)
  BY <1>2
<1>5. ASSUME NEW i \in top .. Len(way) PROVE Passed(way[i].node) /\ At(way[i].node) = i
  <2>1. Passed(way[i].node)
    OBVIOUS
  <2>2. At(way[i].node) \in top .. Len(way) /\ way[At(way[i].node)].node = way[i].node
    BY <2>1
  <2> HIDE DEF At
  <2> QED BY <1>1, <1>4, <2>1, <2>2, WayBack
<1>6. ASSUME NEW m, Passed(m) PROVE At(m) \in top .. Len(way) /\ way[At(m)].side \in Sides
  <2>1. At(m) \in top .. Len(way)
    BY <1>6
  <2> HIDE DEF At
  <2> QED BY <1>2, <1>4, <2>1
<1> HIDE DEF Passed, At
<1>7. balance = [m \in AvlNodes |-> IF m = key THEN 0
                   ELSE IF Passed(m) THEN av_balance[m] + Sign(way[At(m)].side) ELSE av_balance[m]]
  BY DEF Passed, At, Lifted
<1>8. BalanceType(balance)
  <2>1. ASSUME NEW m, Passed(m) PROVE Sign(way[At(m)].side) \in Int
    BY <1>6, <2>1, NumbersOf
  <2>2. \A m \in AvlNodes : av_balance[m] \in Int
    BY DEF BalanceType
  <2>3. \A m \in AvlNodes : balance[m] \in Int
    BY <1>7, <2>1, <2>2
  <2> HIDE DEF BalanceType
  <2> QED BY <1>7, <2>3 DEF BalanceType
<1>9. a \in 1 .. Len(way) /\ \A i \in 2 .. Len(way) : i >= a => i >= top
  BY <1>2
<1>10. \A i \in a + 1 .. Len(way) : av_balance[way[i].node] = 0
  <2> TAKE i \in a + 1 .. Len(way)
  <2>1. i \in 2 .. Len(way) /\ i > a
    BY <1>9, <1>2
  <2>2. CASE i > top
    BY <2>1, <2>2
  <2>3. CASE i <= top
    <3>1. i = 2 /\ Len(way) >= 2 /\ a = 1
      BY <1>2, <2>1, <2>3
    <3> QED BY <3>1
  <2> QED BY <2>1, <2>2, <2>3
<1>11. ASSUME NEW i \in 2 .. Len(way), i >= a
       PROVE  balance[way[i].node] = av_balance[way[i].node] + Sign(way[i].side)
  <2>1. i \in top .. Len(way)
    BY <1>2, <1>9, <1>11
  <2>2. Passed(way[i].node) /\ At(way[i].node) = i
    BY <1>5, <2>1
  <2>3. way[i].node \in N
    BY <1>1 DEF IsWay
  <2> QED BY <1>1, <1>7, <2>2, <2>3
<1>12. ASSUME NEW m \in N, \A i \in 2 .. Len(way) : i >= a => m # way[i].node
       PROVE  balance[m] = av_balance[m]
  <2>1. ~ Passed(m)
    <3>1. \A i \in top .. Len(way) : i \in 2 .. Len(way) /\ i >= a
      BY <1>2, <1>4
    <3> QED BY <1>12, <3>1 DEF Passed
  <2> QED BY <1>1, <1>7, <2>1
<1>13. balance[key] = 0
  BY <1>7
<1>14. GivenAdded(N, way, a, key, av_balance, balance)
  BY <1>9, <1>10, <1>11, <1>12, <1>13 DEF GivenAdded
<1> QED BY <1>3, <1>8, <1>14

(* An insertion keeps the tree.  If nothing is rotated, the links there    *)
(* were stay as they are; otherwise the generation is raised.              *)
KeepsLinks(link, new, N) ==
  \A m \in N \cup {Anchor}, e \in Sides : link[m][e] # NULLNODE => new[m][e] = link[m][e]

LEMMA InsertKeeps ==
  ASSUME TreeInv, NEW key \in AvlKeys, key \notin av_nodes, Insert(Way(key), key)
  PROVE  /\ TreeInv' /\ av_nodes' = av_nodes \cup {key}
         /\ \/ av_generation' = av_generation /\ KeepsLinks(av_link, av_link', av_nodes)
            \/ av_generation' = av_generation + 1
<1> DEFINE N == av_nodes
           M == N \cup {key}
           way == Way(key)
           uneven == {i \in 2 .. Len(way) : av_balance[way[i].node] # 0}
           top == IF uneven = {} THEN 2 ELSE Max(uneven)
           y == way[top].node
           link == Hung([av_link EXCEPT ![key] = [d \in Sides |-> NULLNODE]], Last(way), key)
           balance == [m \in AvlNodes |->
                         IF m = key THEN 0
                         ELSE IF \E i \in top .. Len(way) : way[i].node = m
                              THEN av_balance[m] + Sign(way[CHOOSE i \in top .. Len(way) : way[i].node = m].side)
                              ELSE av_balance[m]]
           side == IF balance[y] > 0 THEN 1 ELSE 0
           rotated == Rotation(link, balance, y, side)
           turned == Hung(rotated.link, way[top - 1], rotated.top)
           a == IF uneven = {} THEN 1 ELSE top
<1>1. /\ av_nodes' = M /\ av_count' = av_count + 1
      /\ IF Len(way) >= 2 /\ balance[y] \in {-2, 2}
         THEN /\ av_link' = turned
              /\ av_balance' = rotated.balance
              /\ av_generation' = av_generation + 1
         ELSE av_link' = link /\ av_balance' = balance /\ UNCHANGED av_generation
  BY DEF Insert
<1>2. PICK T, P, h : Shaped(av_link, N, T, P) /\ Balanced(av_link, av_balance, N, h, TopStep)
  BY DEF TreeInv, Fits
<1>3. LinkType(av_link) /\ BalanceType(av_balance) /\ key \in AvlNodes \ N
  BY DEF TreeInv, Fits, AvlNodes
<1> HIDE DEF way
<1>4. Leads(av_link, N, way, key) /\ IsWay(av_link, N, way)
  <2>1. /\ IsWay(av_link, N, way) /\ way[1] = TopStep
        /\ \A i \in 2 .. Len(way) : way[i].node # key /\ On(way[i].side, key, way[i].node)
        /\ avl_find(key) = Goes(av_link, way, Len(way))
        /\ avl_find(key) = NULLNODE
    BY <1>2, SearchIs DEF way
  <2> QED BY <2>1 DEF Leads
<1>5. /\ Len(way) \in Nat \ {0} /\ way[1] = TopStep
      /\ \A i \in 1 .. Len(way) : /\ way[i] \in Steps /\ way[i].node \in N \cup {Anchor} /\ way[i].side \in Sides
                                  /\ way[i] = Step(way[i].node, way[i].side)
      /\ \A i \in 2 .. Len(way) : way[i].node \in N /\ Goes(av_link, way, i - 1) = way[i].node
  <2>1. N \subseteq AvlNodes
    BY <1>2 DEF Shaped
  <2>2. way[1] = TopStep /\ \A i \in 2 .. Len(way) : way[i].node \in N /\ Goes(av_link, way, i - 1) = way[i].node
    BY <1>4 DEF IsWay, Leads
  <2> QED BY <1>4, <2>1, <2>2, StepsOf
<1>6. /\ top \in Nat /\ top >= 2 /\ \A i \in 2 .. Len(way) : i > top => av_balance[way[i].node] = 0
      /\ \/ a = 1 /\ top = 2 /\ (Len(way) >= 2 => av_balance[way[2].node] = 0)
         \/ a = top /\ top <= Len(way) /\ av_balance[way[top].node] # 0
  <2>1. CASE uneven = {}
    BY <1>5, <2>1
  <2>2. CASE uneven # {}
    <3>1. uneven \subseteq Nat /\ Len(way) \in Nat /\ \A k \in uneven : k <= Len(way) /\ k >= 2
      BY <1>5
    <3>2. PICK n \in uneven \cup {0} : \A k \in uneven : k <= n
      <4> HIDE DEF uneven
      <4> QED BY <3>1, LargestOf
    <3>3. n \in uneven /\ \A k \in uneven : n >= k
      BY <2>2, <3>1, <3>2
    <3>4. Max(uneven) \in uneven /\ \A k \in uneven : Max(uneven) >= k
      <4> HIDE DEF uneven
      <4> QED BY <3>3 DEF Max
    <3>5. top = Max(uneven) /\ a = top
      BY <2>2
    <3>6. top \in 2 .. Len(way) /\ av_balance[way[top].node] # 0
      BY <3>4, <3>5
    <3>7. \A i \in 2 .. Len(way) : i > top => av_balance[way[i].node] = 0
      <4> SUFFICES ASSUME NEW i \in 2 .. Len(way), i > top, i \in uneven PROVE FALSE
        OBVIOUS
      <4> HIDE DEF uneven
      <4> QED BY <3>4, <3>5, <3>6
    <3> HIDE DEF uneven, top
    <3> QED BY <1>5, <3>5, <3>6, <3>7
  <2> QED BY <2>1, <2>2
<1> HIDE DEF top, a, link, balance, uneven
<1>7. /\ LinkType(link) /\ LinksAdded(av_link, link, way, key)
      /\ BalanceType(balance) /\ GivenAdded(N, way, a, key, av_balance, balance)
  <2>1. link = Hooked(way, key)
    BY DEF link, Hooked
  <2>2. balance = Lifted(way, top, key)
    BY DEF balance, Lifted
  <2>3. GivenTop(way, top, a)
    BY <1>6 DEF GivenTop
  <2> QED BY <1>2, <1>3, <1>4, <2>1, <2>2, <2>3, AddedIs
<1>8. PICK U, Q : IsWay(link, M, way) /\ Shaped(link, M, U, Q)
  BY <1>2, <1>3, <1>4, <1>7, AddedShaped
<1>9. PICK g : /\ ElseLevelled(link, balance, M, g, way[a].node)
               /\ way[a].node \in N =>
                    /\ g[way[a].node] = h[way[a].node]
                    /\ g[Goes(link, way, a)] = h[Goes(av_link, way, a)] + 1
                    /\ g[link[way[a].node][1 - way[a].side]] = h[av_link[way[a].node][1 - way[a].side]]
  BY <1>2, <1>3, <1>4, <1>7, AddedLevelled
<1>12. av_count' = Cardinality(M) /\ M \subseteq AvlNodes /\ Anchor \notin M
  <2>1. N \subseteq AvlNodes /\ IsFiniteSet(AvlNodes) /\ av_count = Cardinality(N)
    BY AvlAssumption DEF TreeInv, Fits, AvlNodes
  <2>2. IsFiniteSet(N)
    BY <2>1, FS_Subset
  <2> QED BY <1>1, <1>3, <2>1, <2>2, FS_AddElement, NumbersOf
<1>10. Vacant(link, M)
  <2> SUFFICES ASSUME NEW n \in AvlNodes \ M, NEW d \in Sides PROVE link[n][d] = NULLNODE
    BY DEF Vacant
  <2>1. n # Anchor /\ n \notin N /\ n \in Parents /\ Len(way) \in 1 .. Len(way) /\ n # key
    BY <1>5, NumbersOf DEF Parents
  <2>2. Step(n, d) # way[Len(way)]
    BY <1>5, <2>1, StepIs
  <2>3. av_link[n][d] = NULLNODE
    BY <2>1 DEF TreeInv, Vacant
  <2> QED BY <1>7, <2>1, <2>2, <2>3 DEF LinksAdded
<1>11. KeepsLinks(av_link, link, N)
  <2> SUFFICES ASSUME NEW m \in N \cup {Anchor}, NEW e \in Sides, av_link[m][e] # NULLNODE
               PROVE  link[m][e] = av_link[m][e]
    BY DEF KeepsLinks
  <2>1. m \in Parents /\ m # key
    BY <1>3, <1>12, NumbersOf DEF Parents
  <2>2. Step(m, e) # way[Len(way)]
    <3> SUFFICES ASSUME Step(m, e) = way[Len(way)] PROVE FALSE
      OBVIOUS
    <3>1. way[Len(way)].node = m /\ way[Len(way)].side = e
      BY StepIs
    <3> QED BY <1>4, <3>1 DEF Leads, Goes
  <2> QED BY <1>7, <2>1, <2>2 DEF LinksAdded
<1>13. ASSUME Balanced(link, balance, M, g, TopStep), av_link' = link, av_balance' = balance
       PROVE  TreeInv'
  BY <1>1, <1>7, <1>8, <1>10, <1>12, <1>13 DEF TreeInv, Fits
<1>14. CASE a = 1
  <2>1. way[a].node = Anchor /\ Anchor \notin M
    BY <1>5, <1>12, <1>14, StepIs DEF TopStep
  <2>2. Balanced(link, balance, M, g, TopStep)
    BY <1>8, <1>9, <2>1, ElseIsBalanced
  <2>3. ~ (Len(way) >= 2 /\ balance[y] \in {-2, 2})
    <3> SUFFICES ASSUME Len(way) >= 2 PROVE balance[y] \notin {-2, 2}
      OBVIOUS
    <3>1. top = 2 /\ 2 \in 2 .. Len(way) /\ 2 >= a /\ 2 \in 1 .. Len(way) /\ av_balance[way[2].node] = 0
      BY <1>5, <1>6, <1>14
    <3>2. balance[way[2].node] = 0 + Sign(way[2].side)
      BY <1>7, <3>1 DEF GivenAdded
    <3>3. Sign(way[2].side) \in {-1, 1}
      BY <1>5, <3>1, NumbersOf
    <3> QED BY <3>1, <3>2, <3>3
  <2> HIDE DEF y, rotated, turned
  <2> QED BY <1>1, <1>11, <1>13, <2>2, <2>3
<1>15. CASE a # 1
  <2> DEFINE s == way[a].side
             b == av_balance[y]
  <2>1. /\ a = top /\ top \in 2 .. Len(way) /\ top \in 1 .. Len(way) /\ b # 0 /\ Len(way) >= 2
        /\ y \in N /\ s \in Sides /\ 1 - s \in Sides /\ y # key /\ way[a] = Step(y, s)
    <3>1. a = top /\ top \in 2 .. Len(way) /\ top \in 1 .. Len(way) /\ b # 0 /\ Len(way) >= 2
      BY <1>5, <1>6, <1>15
    <3> QED BY SMTT(30), <1>3, <1>5, <3>1, NumbersOf
  <2>2. balance[y] = b + Sign(s) /\ Sign(s) \in {-1, 1}
    BY <1>7, <2>1, NumbersOf DEF GivenAdded
  <2>3. /\ h \in [Places -> Nat] /\ Levelled(b, h[av_link[y][0]], h[av_link[y][1]], h[y])
        /\ h[NULLNODE] = 0
    BY <1>2, <2>1, TopIsExact
  <2> HIDE DEF y, s, b
  <2> DEFINE hs == h[av_link[y][s]]
             ho == h[av_link[y][1 - s]]
  <2>4. /\ g[y] = h[y] /\ g[link[y][s]] = hs + 1 /\ g[link[y][1 - s]] = ho
    BY <1>9, <2>1 DEF y, s, Goes
  <2>5. hs \in Nat /\ ho \in Nat /\ h[y] \in Nat /\ av_link[y][s] \in Places
    <3>1. av_link[y][s] \in Places /\ av_link[y][1 - s] \in Places /\ y \in Places
      BY <1>2, <2>1 DEF Shaped, Places
    <3> QED BY <2>3, <3>1
  <2>6. \/ b = Sign(s) /\ hs = ho + 1 /\ h[y] = 1 + hs
        \/ b = -Sign(s) /\ ho = hs + 1 /\ h[y] = 1 + ho
    <3>1. s = 0 => h[av_link[y][0]] = hs /\ h[av_link[y][1]] = ho
      OBVIOUS
    <3>2. s = 1 => h[av_link[y][0]] = ho /\ h[av_link[y][1]] = hs
      OBVIOUS
    <3> DEFINE height == h[y]
    <3>0. hs \in Nat /\ ho \in Nat /\ height \in Nat /\ b # 0 /\ Levelled(b, h[av_link[y][0]], h[av_link[y][1]], height)
      BY <2>1, <2>3, <2>5
    <3> HIDE DEF hs, ho, height, b
    <3>3. CASE s = 0
      <4>1. Levelled(b, hs, ho, height)
        BY <3>0, <3>1, <3>3
      <4> QED BY <3>0, <3>3, <4>1 DEF Levelled, Sign, height
    <3>4. CASE s = 1
      <4>1. Levelled(b, ho, hs, height)
        BY <3>0, <3>2, <3>4
      <4> QED BY <3>0, <3>4, <4>1 DEF Levelled, Sign, height
    <3> QED BY <2>1, <3>3, <3>4 DEF Sides
  <2> HIDE DEF hs, ho
  <2>7. CASE b = -Sign(s)
    <3>1. balance[y] = 0 /\ g[link[y][s]] = g[link[y][1 - s]] /\ g[y] = 1 + g[link[y][s]]
      BY <2>2, <2>4, <2>5, <2>6, <2>7
    <3>2. Levelled(balance[y], g[link[y][0]], g[link[y][1]], g[y])
      <4>1. g[link[y][0]] = g[link[y][s]] /\ g[link[y][1]] = g[link[y][s]]
        BY <2>1, <3>1 DEF Sides
      <4>2. g[link[y][s]] \in Nat
        BY <2>4, <2>5
      <4> QED BY <3>1, <4>1, <4>2 DEF Levelled
    <3>3. Balanced(link, balance, M, g, TopStep)
      BY <1>8, <1>9, <2>1, <3>2, ElseIsBalanced DEF y
    <3> HIDE DEF rotated, turned
    <3> QED BY <1>1, <1>11, <1>13, <3>1, <3>3
  <2>8. CASE b = Sign(s)
    <3>1. balance[y] = 2 * Sign(s) /\ side = s
      <4>1. balance[y] = 2 * Sign(s)
        BY <2>2, <2>8
      <4> QED BY <2>1, <4>1 DEF Sign, Sides
    <3> DEFINE z == way[top - 1]
               x == link[y][s]
    <3>2. z \in Steps /\ z.node \in M \cup {Anchor} /\ link[z.node][z.side] = y
      <4>1. top - 1 \in 1 .. Len(way) /\ top \in 2 .. Len(way)
        BY <1>5, <2>1
      <4> QED BY <1>5, <1>8, <4>1 DEF IsWay, Goes, y
    <3>3. rotated = Rotation(link, balance, y, s) /\ Len(way) >= 2 /\ balance[y] \in {-2, 2}
      BY <2>1, <2>2, <3>1
    <3> DEFINE r == rotated
    <3>4. balance[x] # 0
      <4>1. top < Len(way)
        <5> SUFFICES ASSUME top = Len(way) PROVE FALSE
          BY <2>1
        <5>1. av_link[y][s] = NULLNODE
          BY <1>4, <2>1 DEF Leads, Goes, y, s
        <5> QED BY <2>3, <2>5, <2>6, <2>2, <2>8, <5>1 DEF hs
      <4>2. top + 1 \in 2 .. Len(way) /\ top + 1 \in 1 .. Len(way) /\ (top + 1) - 1 = top /\ top + 1 >= a /\ top + 1 > top
        BY <1>5, <2>1, <4>1
      <4>3. way[top + 1].node = x
        BY <1>8, <2>1, <4>2 DEF IsWay, Goes, y, s
      <4>4. balance[x] = 0 + Sign(way[top + 1].side)
        BY <1>6, <1>7, <4>2, <4>3 DEF GivenAdded
      <4>5. Sign(way[top + 1].side) \in {-1, 1}
        BY <1>5, <4>2, NumbersOf
      <4> QED BY <4>4, <4>5
    <3>5. ~ r.even
      BY <2>1, <3>3, <3>4, RotationEven
    <3>6. FitsAbove(g, y, z, TopStep, IF r.even THEN g[x] + 1 ELSE g[x])
      <4>1. g[y] = g[x] /\ g[x] \in Nat
        BY <2>2, <2>4, <2>5, <2>6, <2>8
      <4>2. (IF r.even THEN g[x] + 1 ELSE g[x]) = g[x]
        BY <3>5
      <4> HIDE DEF x, r, z
      <4> QED BY <4>1, <4>2 DEF FitsAbove
    <3>7. g[link[y][s]] = g[link[y][1 - s]] + 2
      BY <2>2, <2>4, <2>5, <2>6, <2>8
    <3>8. ElseLevelled(link, balance, M, g, y) /\ y \in M
      BY <1>9, <2>1 DEF y
    <3> HIDE DEF z, r, M, rotated, turned
    <3>9. /\ LinkType(Hung(r.link, z, r.top)) /\ BalanceType(r.balance)
          /\ \E V, R : Shaped(Hung(r.link, z, r.top), M, V, R)
          /\ \E f : Balanced(Hung(r.link, z, r.top), r.balance, M, f, TopStep)
          /\ \A m \in Parents : m \notin U[y] => \A e \in Sides :
               Hung(r.link, z, r.top)[m][e] = IF Step(m, e) = z THEN r.top ELSE link[m][e]
      <4>1. FitsAbove(g, y, z, TopStep, IF r.even THEN g[link[y][s]] + 1 ELSE g[link[y][s]])
        BY <3>6
      <4>2. GivenRotation(link, M, balance, g, r, TopStep, y, z, s)
        BY <3>3, <3>7, <3>8, <4>1 DEF r, GivenRotation
      <4> QED BY <1>7, <1>8, <2>1, <3>2, <3>8, <4>2, RotationIs
    <3>10. turned = Hung(r.link, z, r.top)
      BY DEF turned, r, z
    <3>11. Vacant(turned, M)
      <4> SUFFICES ASSUME NEW n \in AvlNodes \ M, NEW d \in Sides PROVE turned[n][d] = NULLNODE
        BY DEF Vacant
      <4>1. n \notin U[y] /\ n \in Parents /\ n # Anchor /\ link[n][d] = NULLNODE
        BY <1>8, <1>10, <3>8, NumbersOf DEF Shaped, Parents, Vacant
      <4>2. Step(n, d) # z
        BY <3>2, <4>1, StepIs
      <4> QED BY <3>9, <3>10, <4>1, <4>2
    <3>12. av_link' = turned /\ av_balance' = r.balance /\ av_generation' = av_generation + 1 /\ av_nodes' = M
      BY <1>1, <3>3 DEF M, r
    <3>13. av_count' = Cardinality(M) /\ M \subseteq AvlNodes
      BY <1>12 DEF M
    <3>14. Fits(turned, r.balance, M)
      BY <3>9, <3>10, <3>13 DEF Fits
    <3>15. TreeInv'
      BY <3>11, <3>12, <3>13, <3>14 DEF TreeInv
    <3> QED BY <3>12, <3>15 DEF M
  <2> QED BY <2>6, <2>7, <2>8
<1> QED BY <1>14, <1>15

-----------------------------------------------------------------------------
(* Deletion.  above is the link to p.  Without a right subtree p is        *)
(* replaced by its left child, and what hangs at above is lower.           *)
LinksCut(old, new, p, above) ==
  \A m \in Parents, e \in Sides : new[m][e] = IF Step(m, e) = above THEN old[p][0] ELSE old[m][e]

LEMMA CutShaped ==
  ASSUME NEW link, NEW N, NEW T, NEW P, Shaped(link, N, T, P),
         NEW p \in N, link[p][1] = NULLNODE,
         NEW above \in Steps, above.node \in N \cup {Anchor}, link[above.node][above.side] = p,
         NEW new, LinksCut(link, new, p, above)
  PROVE  \E U, Q : Shaped(new, N \ {p}, U, Q)
<1> USE DEF LinksCut
<1> DEFINE M == N \ {p}
           c == link[p][0]
           U == [n \in Places |-> T[n] \ {p}]
           Q == [P EXCEPT ![c] = above]
<1>1. /\ N \subseteq AvlNodes /\ Nested(link, N, T) /\ NULLNODE \notin N /\ Anchor \notin N /\ NULLNODE # Anchor
      /\ above.side \in Sides /\ above = Step(above.node, above.side) /\ 0 \in Sides /\ 1 \in Sides /\ 1 - 0 = 1
  <2>1. N \subseteq AvlNodes /\ Nested(link, N, T)
    BY NestedIs DEF Shaped
  <2>2. NULLNODE \notin N /\ Anchor \notin N /\ NULLNODE # Anchor
    BY <2>1, NumbersOf
  <2>3. above.side \in Sides /\ above = Step(above.node, above.side)
    BY DEF Steps, Step
  <2>4. 0 \in Sides /\ 1 \in Sides /\ 1 - 0 = 1
    BY DEF Sides
  <2> QED BY <2>1, <2>2, <2>3, <2>4
<1>2. /\ c \in N \cup {NULLNODE} /\ c # p /\ T[p] = {p} \cup T[c] /\ p \notin T[c] /\ P[p] = above
      /\ (c # NULLNODE => P[c] = Step(p, 0)) /\ above.node # p
  <2>1. c \in N \cup {NULLNODE} /\ p \notin T[c] /\ T[p] = {p} \cup T[c] \cup T[NULLNODE] /\ T[NULLNODE] = {}
    BY <1>1 DEF Nested, Shaped
  <2>2. c # p
    BY <1>1, <2>1 DEF Nested
  <2>3. P[p] = above /\ (c # NULLNODE => P[c] = Step(p, 0))
    BY <1>1 DEF Shaped
  <2>4. above.node # p
    BY <1>1, AboveIs DEF Nested
  <2> QED BY <2>1, <2>2, <2>3, <2>4
<1>3. /\ U \in [Places -> SUBSET AvlNodes] /\ Q \in [Places -> Steps]
      /\ \A n \in Places : U[n] = T[n] \ {p}
      /\ Q[c] = above /\ \A n \in Places : n # c => Q[n] = P[n]
  BY <1>1, <1>2 DEF Shaped, Places
<1> HIDE DEF U, Q
<1>4. ASSUME NEW m \in M \cup {Anchor}, NEW e \in Sides
      PROVE  /\ new[m][e] \in M \cup {NULLNODE} /\ U[new[m][e]] = T[link[m][e]] \ {p}
             /\ new[m][e] # NULLNODE => Q[new[m][e]] = Step(m, e)
  <2>1. m \in Parents /\ m # p /\ link[m][e] \in N \cup {NULLNODE}
    BY <1>1 DEF Parents, Shaped
  <2>2. link[m][e] # NULLNODE => P[link[m][e]] = Step(m, e)
    BY DEF Shaped
  <2>3. CASE Step(m, e) = above
    <3>1. new[m][e] = c /\ m = above.node /\ e = above.side
      BY <1>1, <2>1, <2>3, StepIs
    <3>2. c \in M \cup {NULLNODE} /\ c \in Places
      BY <1>1, <1>2 DEF Places
    <3> QED BY <1>2, <1>3, <2>3, <3>1, <3>2
  <2>4. CASE Step(m, e) # above
    <3>1. new[m][e] = link[m][e] /\ link[m][e] # p /\ link[m][e] \in Places
      BY <1>1, <1>2, <2>1, <2>2, <2>4 DEF Places
    <3>2. link[m][e] # NULLNODE => link[m][e] # c
      BY <1>2, <2>1, <2>2, StepIs
    <3> QED BY <1>3, <2>1, <2>2, <3>1, <3>2
  <2> QED BY <2>3, <2>4
<1>5. ASSUME NEW m \in M
      PROVE  /\ U[m] \subseteq M /\ U[m] = {m} \cup U[new[m][0]] \cup U[new[m][1]]
             /\ \A e \in Sides : \A k \in U[new[m][e]] : On(e, k, m)
  <2>1. T[m] \subseteq N /\ T[m] = {m} \cup T[link[m][0]] \cup T[link[m][1]] /\ m # p
        /\ \A e \in Sides : \A k \in T[link[m][e]] : On(e, k, m)
    BY DEF Shaped
  <2>2. U[m] = T[m] \ {p}
    BY <1>1, <1>3 DEF Places
  <2>3. \A e \in Sides : U[new[m][e]] = T[link[m][e]] \ {p}
    BY <1>4
  <2>4. U[m] = {m} \cup U[new[m][0]] \cup U[new[m][1]]
    BY <1>1, <2>1, <2>2, <2>3
  <2>5. \A e \in Sides : \A k \in U[new[m][e]] : On(e, k, m)
    BY <2>1, <2>3
  <2> QED BY <2>1, <2>2, <2>4, <2>5
<1>6. U[new[Anchor][0]] = M /\ new[Anchor][1] = NULLNODE /\ U[NULLNODE] = {} /\ M \subseteq AvlNodes
  <2>1. T[link[Anchor][0]] = N /\ link[Anchor][1] = NULLNODE /\ T[NULLNODE] = {}
    BY DEF Shaped
  <2>2. Step(Anchor, 1) # above
    BY <1>1, <2>1, StepIs
  <2>3. new[Anchor][1] = NULLNODE
    BY <1>1, <2>1, <2>2 DEF Parents
  <2> QED BY <1>1, <1>3, <1>4, <2>1, <2>3 DEF Places
<1>7. \A m \in M \cup {Anchor}, e \in Sides :
         new[m][e] \in M \cup {NULLNODE} /\ (new[m][e] # NULLNODE => Q[new[m][e]] = Step(m, e))
  BY <1>4
<1> HIDE DEF M
<1>8. Shaped(new, M, U, Q)
  BY <1>3, <1>5, <1>6, <1>7 DEF Shaped
<1> QED BY <1>8 DEF M

LEMMA CutLevelled ==
  ASSUME NEW link, NEW N, NEW T, NEW P, Shaped(link, N, T, P),
         NEW p \in N, link[p][1] = NULLNODE,
         NEW above \in Steps, above.node \in N \cup {Anchor}, link[above.node][above.side] = p,
         NEW new, LinksCut(link, new, p, above),
         NEW balance, NEW h, Balanced(link, balance, N, h, TopStep)
  PROVE  Balanced(new, balance, N \ {p}, h, above)
<1> USE DEF LinksCut
<1>1. /\ h \in [Places -> Nat] /\ h[NULLNODE] = 0
      /\ \A m \in N : Levelled(balance[m], h[link[m][0]], h[link[m][1]], h[m])
  BY TopIsExact
<1>2. /\ N \subseteq AvlNodes /\ N \subseteq Places /\ N \subseteq Parents
      /\ above.side \in Sides /\ above = Step(above.node, above.side) /\ 0 \in Sides /\ 1 \in Sides
  BY DEF Shaped, Steps, Step, Sides, Places, Parents
<1>3. h[p] = h[link[p][0]] + 1 /\ h[link[p][0]] \in Nat
  <2>1. h[link[p][0]] \in Nat /\ h[link[p][1]] = 0
    BY <1>1, <1>2 DEF Shaped, Places
  <2>2. Levelled(balance[p], h[link[p][0]], h[link[p][1]], h[p])
    BY <1>1
  <2> QED BY <2>1, <2>2 DEF Levelled
<1>4. ASSUME NEW m \in N \ {p}, NEW e \in Sides PROVE Known(new, h, above, m, e) = h[link[m][e]]
  <2>1. h[link[m][e]] \in Nat /\ m \in Parents
    BY <1>1, <1>2 DEF Shaped, Places
  <2>2. CASE Step(m, e) = above
    <3>1. link[m][e] = p /\ new[m][e] = link[p][0]
      BY <1>2, <2>1, <2>2, StepIs
    <3> QED BY <1>3, <2>2, <3>1 DEF Known
  <2>3. CASE Step(m, e) # above
    BY <2>1, <2>3 DEF Known
  <2> QED BY <2>2, <2>3
<1> QED BY <1>1, <1>2, <1>4 DEF Balanced

-----------------------------------------------------------------------------
(* With a right subtree, its least node s takes the place of p, and where  *)
(* s was comes its right child: what hangs at hole is lower.               *)
LinksSwapped(old, new, p, s, above, hole) ==
  \A m \in Parents, e \in Sides :
    new[m][e] = IF Step(m, e) = above THEN s
                ELSE IF Step(m, e) = hole THEN old[s][1]
                ELSE IF m = s THEN old[p][e]
                ELSE old[m][e]

GivenSwap(link, N, T, P, p, s, above, hole) ==
  /\ p \in N /\ s \in T[link[p][1]] /\ link[s][0] = NULLNODE
  /\ \A k \in T[link[p][1]] : k = s \/ s < k
  /\ above \in Steps /\ above.node \in N \cup {Anchor} /\ link[above.node][above.side] = p
  /\ hole = IF s = link[p][1] THEN Step(s, 1) ELSE P[s]

LEMMA SwapFacts ==
  ASSUME NEW link, NEW N, NEW T, NEW P, Shaped(link, N, T, P), NEW h, Falls(link, N, h),
         NEW p, NEW s, NEW above, NEW hole, GivenSwap(link, N, T, P, p, s, above, hole)
  PROVE  LET r == link[p][1]
             c == link[p][0]
             t == link[s][1]
         IN  /\ p \in N /\ s \in N /\ r \in N /\ s # p /\ c \in N \cup {NULLNODE} /\ t \in N \cup {NULLNODE}
             /\ P[p] = above /\ above.node \notin T[p] /\ above = Step(above.node, above.side)
             /\ P[r] = Step(p, 1) /\ (c # NULLNODE => P[c] = Step(p, 0)) /\ (t # NULLNODE => P[t] = Step(s, 1))
             /\ T[p] = {p} \cup T[c] \cup T[r] /\ p \notin T[c] /\ p \notin T[r] /\ s \in T[r] /\ s \notin T[c]
             /\ T[s] = {s} \cup T[t] /\ s \notin T[t] /\ T[s] \subseteq T[r] /\ T[r] \subseteq T[p]
             /\ hole = Step(hole.node, hole.side) /\ hole.node \in N /\ hole.node \in T[r] /\ hole.side \in Sides
             /\ (s # r => hole = P[s] /\ link[hole.node][hole.side] = s) /\ (s = r => hole = Step(s, 1))
             /\ above # hole /\ t # p /\ c # p /\ (c # NULLNODE => c # s /\ c # t)
             /\ hole.node # p
<1> DEFINE r == link[p][1]
           c == link[p][0]
           t == link[s][1]
<1> USE DEF GivenSwap
<1>1. /\ N \subseteq AvlNodes /\ Nested(link, N, T) /\ NULLNODE \notin N /\ Anchor \notin N /\ T[NULLNODE] = {}
      /\ 0 \in Sides /\ 1 \in Sides /\ 1 - 0 = 1 /\ 1 - 1 = 0
  <2>1. N \subseteq AvlNodes /\ Nested(link, N, T) /\ T[NULLNODE] = {}
    BY NestedIs DEF Shaped
  <2>2. NULLNODE \notin N /\ Anchor \notin N
    BY <2>1, NumbersOf
  <2> QED BY <2>1, <2>2 DEF Sides
<1>2. p \in N /\ r \in N /\ c \in N \cup {NULLNODE} /\ s \in T[r]
  <2>1. r \in N \cup {NULLNODE} /\ c \in N \cup {NULLNODE}
    BY <1>1 DEF Shaped
  <2> QED BY <1>1, <2>1
<1>3. s \in N /\ T[s] \subseteq T[r] /\ s \in T[s]
  BY <1>1, <1>2, UnderIs DEF Nested
<1>4. t \in N \cup {NULLNODE}
  BY <1>1, <1>3 DEF Shaped
<1>5. /\ T[p] = {p} \cup T[c] \cup T[r] /\ p \notin T[c] /\ p \notin T[r] /\ s \notin T[c] /\ s # p /\ T[r] \subseteq T[p]
  <2>1. /\ T[p] = {p} \cup T[c] \cup T[r] /\ p \notin T[c] /\ p \notin T[r] /\ T[r] \subseteq T[p]
    BY <1>1, <1>2 DEF Nested
  <2>2. \A k \in T[link[p][1]] : k \notin T[link[p][1 - 1]]
    BY <1>1, <1>2 DEF Nested
  <2>3. s \notin T[c]
    BY <1>1, <1>2, <2>2
  <2> QED BY <1>2, <2>1, <2>3
<1>6. T[s] = {s} \cup T[t] /\ s \notin T[t]
  BY <1>1, <1>3 DEF Nested
<1>7. above.side \in Sides /\ above = Step(above.node, above.side)
  BY DEF Steps, Step
<1>8. P[p] = above /\ P[r] = Step(p, 1) /\ (c # NULLNODE => P[c] = Step(p, 0)) /\ (t # NULLNODE => P[t] = Step(s, 1))
  <2>1. \A m \in N \cup {Anchor}, e \in Sides : link[m][e] # NULLNODE => P[link[m][e]] = Step(m, e)
    BY DEF Shaped
  <2> QED BY <1>1, <1>2, <1>3, <1>7, <2>1
<1>9. above.node \notin T[p]
  BY <1>2, AboveIs
<1>10. /\ hole = Step(hole.node, hole.side) /\ hole.node \in N /\ hole.node \in T[r] /\ hole.side \in Sides
       /\ (s # r => hole = P[s] /\ link[hole.node][hole.side] = s) /\ (s = r => hole = Step(s, 1))
  <2>1. CASE s = r
    BY <1>1, <1>3, <2>1, StepIs
  <2>2. CASE s # r
    <3>1. hole = P[s]
      BY <2>2
    <3>2. P[s] \in Steps
      BY <1>1, <1>3 DEF Shaped, Places
    <3>3. hole = Step(hole.node, hole.side)
      BY <3>1, <3>2 DEF Steps, Step
    <3>4. hole.node \in N /\ hole.node \in T[r] /\ hole.side \in Sides /\ link[hole.node][hole.side] = s
      BY <1>2, <2>2, <3>1, UnderIs
    <3> QED BY <2>2, <3>1, <3>3, <3>4
  <2> QED BY <2>1, <2>2
<1>11. above # hole /\ hole.node # p
  BY <1>5, <1>9, <1>10
<1>12. t # p /\ c # p /\ (c # NULLNODE => c # s /\ c # t)
  <2>1. \A k \in N : k \in T[k]
    BY <1>1 DEF Nested
  <2>2. c # p /\ (c # NULLNODE => c # s)
    BY <1>1, <1>2, <1>5, <2>1
  <2>3. t # p
    BY <1>2, <1>3, <1>5, <1>6, <2>1
  <2>4. c # NULLNODE => c # t
    BY <1>2, <1>5, <1>8, StepIs
  <2> QED BY <2>2, <2>3, <2>4
<1> QED BY <1>1, <1>2, <1>3, <1>4, <1>5, <1>6, <1>7, <1>8, <1>9, <1>10, <1>11, <1>12

LEMMA SwapShaped ==
  ASSUME NEW link, NEW N, NEW T, NEW P, Shaped(link, N, T, P), NEW h, Falls(link, N, h),
         NEW p, NEW s, NEW above, NEW hole, GivenSwap(link, N, T, P, p, s, above, hole),
         NEW new, LinksSwapped(link, new, p, s, above, hole)
  PROVE  \E U, Q : Shaped(new, N \ {p}, U, Q)
<1> DEFINE M == N \ {p}
           r == link[p][1]
           c == link[p][0]
           t == link[s][1]
           U == [n \in Places |-> IF n = s THEN T[p] \ {p} ELSE IF n \in T[p] THEN T[n] \ {s} ELSE T[n] \ {p}]
           Q == [n \in Places |-> IF n = s THEN above ELSE IF n = t THEN hole ELSE IF n = c THEN Step(s, 0)
                                  ELSE IF n = r THEN Step(s, 1) ELSE P[n]]
<1>1. /\ p \in N /\ s \in N /\ r \in N /\ s # p /\ c \in N \cup {NULLNODE} /\ t \in N \cup {NULLNODE}
      /\ P[p] = above /\ above.node \notin T[p] /\ above = Step(above.node, above.side)
      /\ P[r] = Step(p, 1) /\ (c # NULLNODE => P[c] = Step(p, 0)) /\ (t # NULLNODE => P[t] = Step(s, 1))
      /\ T[p] = {p} \cup T[c] \cup T[r] /\ p \notin T[c] /\ p \notin T[r] /\ s \in T[r] /\ s \notin T[c]
      /\ T[s] = {s} \cup T[t] /\ s \notin T[t] /\ T[s] \subseteq T[r] /\ T[r] \subseteq T[p]
      /\ hole = Step(hole.node, hole.side) /\ hole.node \in N /\ hole.node \in T[r] /\ hole.side \in Sides
      /\ (s # r => hole = P[s] /\ link[hole.node][hole.side] = s) /\ (s = r => hole = Step(s, 1))
      /\ above # hole /\ t # p /\ c # p /\ (c # NULLNODE => c # s /\ c # t)
      /\ hole.node # p
  BY SwapFacts
<1>2. /\ N \subseteq AvlNodes /\ Nested(link, N, T) /\ T[NULLNODE] = {} /\ NULLNODE \notin N /\ Anchor \notin N
      /\ 0 \in Sides /\ 1 \in Sides /\ link[s][0] = NULLNODE /\ NULLNODE # Anchor
      /\ above \in Steps /\ link[above.node][above.side] = p
  <2>1. N \subseteq AvlNodes /\ Nested(link, N, T) /\ T[NULLNODE] = {} /\ link[s][0] = NULLNODE
        /\ above \in Steps /\ link[above.node][above.side] = p
    BY NestedIs DEF Shaped, GivenSwap
  <2>2. NULLNODE \notin N /\ Anchor \notin N /\ NULLNODE # Anchor
    BY <2>1, NumbersOf
  <2> QED BY <2>1, <2>2 DEF Sides
<1>3. \A m \in N \cup {Anchor}, e \in Sides :
        /\ m \in Parents /\ link[m][e] \in N \cup {NULLNODE} /\ link[m][e] \in Places
        /\ link[m][e] # NULLNODE => P[link[m][e]] = Step(m, e)
  BY <1>2 DEF Shaped, Parents, Places
<1>4. /\ U \in [Places -> SUBSET AvlNodes] /\ Q \in [Places -> Steps]
      /\ \A n \in Places : U[n] = IF n = s THEN T[p] \ {p} ELSE IF n \in T[p] THEN T[n] \ {s} ELSE T[n] \ {p}
      /\ \A n \in Places : Q[n] = IF n = s THEN above ELSE IF n = t THEN hole ELSE IF n = c THEN Step(s, 0)
                                  ELSE IF n = r THEN Step(s, 1) ELSE P[n]
  <2>1. hole \in Steps /\ Step(s, 0) \in Steps /\ Step(s, 1) \in Steps
    <3>1. hole.node \in Parents /\ s \in Parents
      BY <1>1, <1>2 DEF Parents
    <3> QED BY <1>1, <1>2, <3>1, StepIs
  <2>2. p \in Places /\ T \in [Places -> SUBSET AvlNodes] /\ P \in [Places -> Steps]
    BY <1>1, <1>2 DEF Shaped, Places
  <2> HIDE DEF r, c, t
  <2> QED BY <1>2, <2>1, <2>2
<1> HIDE DEF U, Q
<1>5. ASSUME NEW m \in M \cup {Anchor}, NEW e \in Sides
      PROVE  /\ new[m][e] \in M \cup {NULLNODE}
             /\ new[m][e] # NULLNODE => Q[new[m][e]] = Step(m, e)
  <2>1. /\ m \in N \cup {Anchor} /\ m \in Parents /\ m # p
        /\ new[m][e] = IF Step(m, e) = above THEN s ELSE IF Step(m, e) = hole THEN t
                       ELSE IF m = s THEN link[p][e] ELSE link[m][e]
    BY <1>1, <1>2, <1>3 DEF LinksSwapped
  <2>2. CASE Step(m, e) = above
    <3>1. new[m][e] = s /\ s \in Places /\ s \in M
      BY <1>1, <1>2, <2>1, <2>2 DEF Places
    <3> QED BY <1>4, <2>2, <3>1
  <2>3. CASE Step(m, e) = hole
    <3>1. new[m][e] = t /\ t \in Places /\ t \in M \cup {NULLNODE} /\ t # s
      <4>1. t # s
        BY <1>1, <1>2 DEF Nested
      <4> QED BY <1>1, <1>2, <2>1, <2>3, <4>1 DEF Places
    <3> QED BY <1>4, <2>3, <3>1
  <2>4. CASE m = s /\ Step(m, e) # hole /\ Step(m, e) # above
    <3>1. new[m][e] = link[p][e]
      BY <2>1, <2>4
    <3>2. CASE e = 0
      <4>1. new[m][e] = c /\ c \in M \cup {NULLNODE} /\ c \in Places
        BY <1>1, <1>2, <3>1, <3>2 DEF Places
      <4> QED BY <1>1, <1>4, <2>4, <3>2, <4>1
    <3>3. CASE e = 1
      <4>1. s # r
        BY <1>1, <2>4, <3>3
      <4>2. new[m][e] = r /\ r \in M /\ r \in Places /\ r # c
        <5>1. r # p /\ r # c
          BY <1>1, <1>2, StepIs DEF Nested
        <5> QED BY <1>1, <1>2, <3>1, <3>3, <5>1 DEF Places
      <4>3. r # t
        BY <1>1, <1>2, StepIs
      <4> QED BY <1>4, <2>4, <3>3, <4>1, <4>2, <4>3
    <3> QED BY <3>2, <3>3 DEF Sides
  <2>5. CASE m # s /\ Step(m, e) # hole /\ Step(m, e) # above
    <3> DEFINE v == link[m][e]
    <3>1. new[m][e] = v /\ v \in N \cup {NULLNODE} /\ v \in Places /\ (v # NULLNODE => P[v] = Step(m, e))
      BY <1>3, <2>1, <2>5
    <3> HIDE DEF v
    <3>2. v # p
      BY <1>1, <1>2, <2>5, <3>1
    <3>3. v # NULLNODE => v # s /\ v # t /\ v # c /\ v # r
      <4> SUFFICES ASSUME v # NULLNODE PROVE v # s /\ v # t /\ v # c /\ v # r
        OBVIOUS
      <4>1. v # r /\ v # c
        BY <1>1, <2>1, <3>1, StepIs
      <4>2. v # t
        BY <1>1, <2>5, <3>1, StepIs
      <4>3. v # s
        BY <1>1, <2>5, <3>1, <4>1
      <4> QED BY <4>1, <4>2, <4>3
    <3> QED BY <1>4, <3>1, <3>2, <3>3
  <2> QED BY <2>2, <2>3, <2>4, <2>5
<1>6. ASSUME NEW m \in (M \ {s}) \cup {Anchor}, NEW e \in Sides
      PROVE  U[new[m][e]] = T[link[m][e]] \ {IF m \in T[p] THEN s ELSE p}
  <2> DEFINE v == link[m][e]
  <2>1. /\ m \in N \cup {Anchor} /\ m \in Parents /\ m # p /\ m # s
        /\ new[m][e] = IF Step(m, e) = above THEN s ELSE IF Step(m, e) = hole THEN t ELSE v
        /\ v \in N \cup {NULLNODE} /\ v \in Places /\ (v # NULLNODE => P[v] = Step(m, e))
    BY <1>1, <1>2, <1>3 DEF LinksSwapped
  <2> HIDE DEF v
  <2>2. CASE Step(m, e) = above
    <3>1. m = above.node /\ e = above.side /\ m \notin T[p]
      BY <1>1, <2>2, StepIs
    <3>2. v = p /\ new[m][e] = s /\ s \in Places
      BY <1>1, <1>2, <2>1, <2>2, <3>1 DEF v, Places
    <3> QED BY <1>4, <3>1, <3>2 DEF v
  <2>3. CASE Step(m, e) = hole
    <3>1. m = hole.node /\ e = hole.side /\ m \in T[p]
      BY <1>1, <2>3, StepIs
    <3>2. s # r
      BY <1>1, <2>1, <3>1, StepIs
    <3>3. v = s /\ new[m][e] = t /\ t \in Places
      BY <1>1, <1>2, <2>1, <2>3, <3>1, <3>2 DEF v, Places
    <3>4. U[t] = T[t]
      <4>1. CASE t = NULLNODE
        <5>1. T[p] \subseteq N
          BY <1>1, <1>2 DEF Nested
        <5>2. t \notin T[p] /\ t # s
          BY <1>1, <1>2, <4>1, <5>1
        <5>3. U[t] = T[t] \ {p}
          BY <1>4, <3>3, <5>2
        <5> QED BY <1>2, <4>1, <5>3
      <4>2. CASE t # NULLNODE
        <5>1. t \in T[t] /\ t # s
          BY <1>1, <1>2, <4>2 DEF Nested
        <5>2. t \in T[p]
          BY <1>1, <5>1
        <5>3. U[t] = T[t] \ {s}
          BY <1>4, <3>3, <5>1, <5>2
        <5> QED BY <1>1, <5>3
      <4> QED BY <4>1, <4>2
    <3> QED BY <1>1, <3>1, <3>3, <3>4 DEF v
  <2>4. CASE Step(m, e) # above /\ Step(m, e) # hole
    <3>1. new[m][e] = v
      BY <2>1, <2>4
    <3>2. CASE v = NULLNODE
      <4>1. U[v] = {} /\ T[v] = {}
        BY <1>1, <1>2, <1>4, <2>1, <3>2
      <4> QED BY <3>1, <4>1 DEF v
    <3>3. CASE v # NULLNODE
      <4>1. v # p /\ v # s /\ v \in N /\ P[v] = Step(m, e)
        <5>1. P[v] = Step(m, e) /\ v \in N /\ v # p
          BY <1>1, <2>1, <2>4, <3>3
        <5>2. v # s
          <6> SUFFICES ASSUME v = s PROVE FALSE
            OBVIOUS
          <6>1. s = r
            BY <1>1, <2>4, <5>1
          <6>2. P[r] = Step(m, e)
            BY <5>1, <6>1
          <6> QED BY <1>1, <2>1, <6>2, StepIs
        <5> QED BY <5>1, <5>2
      <4>2. v \in T[p] <=> m \in T[p]
        <5>1. ASSUME v \in T[p] PROVE m \in T[p]
          <6>1. P[v].node \in T[p]
            BY <1>1, <4>1, <5>1, UnderIs
          <6> QED BY <4>1, <6>1, StepIs
        <5>2. ASSUME m \in T[p] PROVE v \in T[p]
          <6>1. m \in N /\ T[m] \subseteq T[p]
            BY <1>1, <5>2, UnderIs
          <6>2. v \in T[v] /\ T[v] \subseteq T[m]
            BY <1>2, <4>1, <6>1 DEF Nested, v
          <6> QED BY <6>1, <6>2
        <5> QED BY <5>1, <5>2
      <4>3. U[v] = IF v \in T[p] THEN T[v] \ {s} ELSE T[v] \ {p}
        BY <1>4, <2>1, <4>1
      <4> QED BY <3>1, <4>2, <4>3 DEF v
    <3> QED BY <3>2, <3>3
  <2> QED BY <2>2, <2>3, <2>4
<1>7. ASSUME NEW m \in M \ {s}
      PROVE  /\ U[m] \subseteq M /\ U[m] = {m} \cup U[new[m][0]] \cup U[new[m][1]]
             /\ \A e \in Sides : \A k \in U[new[m][e]] : On(e, k, m)
  <2> DEFINE x == IF m \in T[p] THEN s ELSE p
  <2>1. /\ T[m] \subseteq N /\ T[m] = {m} \cup T[link[m][0]] \cup T[link[m][1]] /\ m # p /\ m # s
        /\ \A e \in Sides : \A k \in T[link[m][e]] : On(e, k, m)
    BY DEF Shaped
  <2>2. U[m] = T[m] \ {x} /\ m # x
    BY <1>2, <1>4, <2>1 DEF Places
  <2>3. \A e \in Sides : U[new[m][e]] = T[link[m][e]] \ {x}
    BY <1>6
  <2>4. p \notin U[m]
    <3>1. CASE m \notin T[p]
      BY <2>2, <3>1
    <3>2. CASE m \in T[p]
      <4>1. PICK v \in N : m \in T[v] /\ p \notin T[v]
        <5>1. CASE m \in T[r]
          BY <1>1, <5>1
        <5>2. CASE m \in T[c]
          BY <1>1, <1>2, <5>2
        <5> QED BY <1>1, <2>1, <3>2, <5>1, <5>2
      <4>2. T[m] \subseteq T[v]
        BY <4>1, UnderIs
      <4> QED BY <2>2, <4>1, <4>2
    <3> QED BY <3>1, <3>2
  <2> HIDE DEF x
  <2>5. U[m] \subseteq M
    BY <2>1, <2>2, <2>4
  <2>6. U[m] = {m} \cup U[new[m][0]] \cup U[new[m][1]]
    BY <1>2, <2>1, <2>2, <2>3
  <2>7. \A e \in Sides : \A k \in U[new[m][e]] : On(e, k, m)
    BY <2>1, <2>3
  <2> QED BY <2>5, <2>6, <2>7
<1>8. /\ U[s] \subseteq M /\ U[s] = {s} \cup U[new[s][0]] \cup U[new[s][1]]
      /\ \A e \in Sides : \A k \in U[new[s][e]] : On(e, k, s)
  <2>1. U[s] = T[p] \ {p} /\ T[p] \subseteq N /\ T[p] \subseteq AvlNodes /\ s \in Parents
    BY <1>1, <1>2, <1>4 DEF Nested, Places, Parents
  <2>2. Step(s, 0) # above /\ Step(s, 1) # above
    BY <1>1, StepIs
  <2>3. Step(s, 0) # hole
    <3>1. CASE s = r
      BY <1>1, <3>1, StepIs
    <3>2. CASE s # r
      <4> SUFFICES ASSUME Step(s, 0) = hole PROVE FALSE
        OBVIOUS
      <4>1. link[s][0] = s
        BY <1>1, <3>2, StepIs
      <4> QED BY <1>1, <1>2, <4>1
    <3> QED BY <3>1, <3>2
  <2>4. new[s][0] = c /\ U[c] = T[c]
    <3>1. new[s][0] = c
      BY <1>1, <1>2, <2>1, <2>2, <2>3 DEF LinksSwapped
    <3>2. CASE c = NULLNODE
      <4>1. c \in Places /\ c # s /\ T[c] = {}
        BY <1>1, <1>2, <3>2 DEF Places
      <4>2. U[c] = {}
        BY <1>4, <4>1
      <4> QED BY <3>1, <4>1, <4>2
    <3>3. CASE c # NULLNODE
      <4>1. c \in T[p] /\ c # s /\ c \in Places
        BY <1>1, <1>2, <3>3 DEF Nested, Places
      <4>2. U[c] = T[c] \ {s}
        BY <1>4, <4>1
      <4> QED BY <1>1, <3>1, <4>2
    <3> QED BY <3>2, <3>3
  <2>5. U[new[s][1]] = T[r] \ {s}
    <3>1. CASE s = r
      <4>1. new[s][1] = t /\ t \in Places
        <5>1. Step(s, 1) = hole /\ Step(s, 1) # above
          BY <1>1, <3>1
        <5>2. new[s][1] = t
          BY <1>2, <2>1, <5>1 DEF LinksSwapped
        <5>3. t \in Places
          BY <1>1, <1>2 DEF Places
        <5> QED BY <5>2, <5>3
      <4>2. CASE t = NULLNODE
        <5>1. U[t] = {} /\ T[t] = {} /\ T[s] = {s}
          BY <1>1, <1>2, <1>4, <4>1, <4>2
        <5> QED BY <3>1, <4>1, <5>1
      <4>3. CASE t # NULLNODE
        <5>1. t \in T[t] /\ t # s
          BY <1>1, <1>2, <4>3 DEF Nested
        <5>2. t \in T[p]
          BY <1>1, <5>1
        <5>3. U[t] = T[t] \ {s}
          BY <1>4, <4>1, <5>1, <5>2
        <5> QED BY <1>1, <3>1, <4>1, <5>3
      <4> QED BY <4>2, <4>3
    <3>2. CASE s # r
      <4>1. Step(s, 1) # hole
        <5> SUFFICES ASSUME Step(s, 1) = hole PROVE FALSE
          OBVIOUS
        <5>1. link[s][1] = s
          BY <1>1, <3>2, StepIs
        <5>2. s \notin T[s]
          BY <1>1, <5>1
        <5> QED BY <1>1, <1>2, <5>2 DEF Nested
      <4>2. new[s][1] = r /\ r \in Places /\ r \in T[p]
        <5>1. r \in T[r]
          BY <1>1, <1>2 DEF Nested
        <5> QED BY <1>1, <1>2, <2>1, <2>2, <4>1, <5>1 DEF LinksSwapped, Places
      <4> QED BY <1>4, <3>2, <4>2
    <3> QED BY <3>1, <3>2
  <2>6. \A k \in T[c] : k \in Nat /\ k < s
    <3>1. \A k \in T[c] : k \in AvlNodes /\ k \in Nat /\ On(0, k, p)
      BY <1>1, <1>2, <2>1, NumbersOf DEF Shaped
    <3>2. p \in Nat /\ s \in Nat /\ On(1, s, p)
      BY <1>1, <1>2, NumbersOf DEF Shaped
    <3> QED BY <3>1, <3>2 DEF On
  <2>7. \A k \in T[r] \ {s} : s < k
    BY DEF GivenSwap
  <2>8. U[s] \subseteq M
    BY <2>1
  <2>9. U[s] = {s} \cup U[new[s][0]] \cup U[new[s][1]]
    BY <1>1, <2>1, <2>4, <2>5
  <2>10. \A e \in Sides : \A k \in U[new[s][e]] : On(e, k, s)
    BY <2>4, <2>5, <2>6, <2>7 DEF On, Sides
  <2> QED BY <2>8, <2>9, <2>10
<1>9. U[new[Anchor][0]] = M /\ new[Anchor][1] = NULLNODE /\ U[NULLNODE] = {} /\ M \subseteq AvlNodes
  <2>1. T[link[Anchor][0]] = N /\ link[Anchor][1] = NULLNODE /\ Anchor \in Parents
    BY DEF Shaped, Parents
  <2>2. Anchor \notin T[p] /\ Anchor # s
    BY <1>1, <1>2 DEF Nested
  <2>3. U[new[Anchor][0]] = M
    BY <1>2, <1>6, <2>1, <2>2
  <2>4. new[Anchor][1] = NULLNODE
    <3>1. Step(Anchor, 1) # above
      BY <1>1, <1>2, <2>1, StepIs
    <3>2. Step(Anchor, 1) # hole
      BY <1>1, <1>2, StepIs
    <3> QED BY <1>2, <2>1, <2>2, <3>1, <3>2 DEF LinksSwapped
  <2>5. NULLNODE \in Places /\ NULLNODE # s
    BY <1>1, <1>2 DEF Places
  <2>6. U[NULLNODE] = {}
    BY <1>2, <1>4, <2>5
  <2> QED BY <1>2, <2>3, <2>4, <2>6
<1>10. \A m \in M :
         /\ U[m] \subseteq M /\ U[m] = {m} \cup U[new[m][0]] \cup U[new[m][1]]
         /\ \A e \in Sides : \A k \in U[new[m][e]] : On(e, k, m)
  BY <1>7, <1>8
<1>11. \A m \in M \cup {Anchor}, e \in Sides :
         new[m][e] \in M \cup {NULLNODE} /\ (new[m][e] # NULLNODE => Q[new[m][e]] = Step(m, e))
  BY <1>5
<1> HIDE DEF M
<1>12. Shaped(new, M, U, Q)
  BY <1>4, <1>9, <1>10, <1>11 DEF Shaped
<1> QED BY <1>12 DEF M

LEMMA SwapLevelled ==
  ASSUME NEW link, NEW N, NEW T, NEW P, Shaped(link, N, T, P),
         NEW balance, BalanceType(balance), NEW h, Balanced(link, balance, N, h, TopStep),
         NEW p, NEW s, NEW above, NEW hole, GivenSwap(link, N, T, P, p, s, above, hole),
         NEW new, LinksSwapped(link, new, p, s, above, hole)
  PROVE  \E g : Balanced(new, [balance EXCEPT ![s] = balance[p]], N \ {p}, g, hole)
<1> DEFINE M == N \ {p}
           r == link[p][1]
           c == link[p][0]
           t == link[s][1]
           g == [h EXCEPT ![s] = h[p]]
           after == [balance EXCEPT ![s] = balance[p]]
<1>1. /\ h \in [Places -> Nat] /\ h[NULLNODE] = 0
      /\ \A m \in N : Levelled(balance[m], h[link[m][0]], h[link[m][1]], h[m])
      /\ Falls(link, N, h)
  BY TopIsExact, BalancedFalls
<1>2. /\ p \in N /\ s \in N /\ r \in N /\ s # p /\ c \in N \cup {NULLNODE} /\ t \in N \cup {NULLNODE}
      /\ P[p] = above /\ above.node \notin T[p] /\ above = Step(above.node, above.side)
      /\ P[r] = Step(p, 1)
      /\ s \in T[r] /\ T[r] \subseteq T[p] /\ s \notin T[t]
      /\ hole = Step(hole.node, hole.side) /\ hole.node \in T[r]
      /\ (s # r => hole = P[s] /\ link[hole.node][hole.side] = s) /\ (s = r => hole = Step(s, 1))
      /\ above # hole /\ (c # NULLNODE => c # s) /\ link[s][0] = NULLNODE
  BY SMTT(30), <1>1, SwapFacts DEF GivenSwap
<1>3. /\ N \subseteq AvlNodes /\ Nested(link, N, T) /\ NULLNODE \notin N /\ Anchor \notin N
      /\ 0 \in Sides /\ 1 \in Sides /\ above \in Steps /\ link[above.node][above.side] = p
  <2>1. N \subseteq AvlNodes /\ Nested(link, N, T) /\ above \in Steps /\ link[above.node][above.side] = p
    BY NestedIs DEF Shaped, GivenSwap
  <2>2. NULLNODE \notin N /\ Anchor \notin N
    BY <2>1, NumbersOf
  <2> QED BY <2>1, <2>2 DEF Sides
<1>4. /\ \A m \in N : m \in Parents /\ m \in Places /\ h[m] \in Nat
      /\ \A m \in N, e \in Sides : link[m][e] \in Places /\ h[link[m][e]] \in Nat
      /\ \A m \in N, e \in Sides : link[m][e] # NULLNODE => P[link[m][e]] = Step(m, e)
  BY <1>1, <1>3 DEF Shaped, Parents, Places
<1>5. g \in [Places -> Nat] /\ g[s] = h[p] /\ \A n \in Places : n # s => g[n] = h[n]
  BY <1>1, <1>2, <1>4
<1>6. h[s] = h[t] + 1 /\ t # s
  <2>1. Levelled(balance[s], 0, h[t], h[s]) /\ h[t] \in Nat
    BY <1>1, <1>2, <1>3, <1>4
  <2>2. t # s
    BY <1>2, <1>3 DEF Nested
  <2> QED BY <2>1, <2>2 DEF Levelled
<1> HIDE DEF g
<1>7. ASSUME NEW m \in M, m # s, NEW e \in Sides PROVE Known(new, g, hole, m, e) = h[link[m][e]]
  <2>1. /\ m \in N /\ m # p /\ m \in Parents
        /\ new[m][e] = IF Step(m, e) = above THEN s ELSE IF Step(m, e) = hole THEN t ELSE link[m][e]
    BY <1>4, <1>7 DEF LinksSwapped
  <2>2. CASE Step(m, e) = above
    <3>1. new[m][e] = s /\ link[m][e] = p
      BY <1>2, <1>3, <2>1, <2>2, StepIs
    <3>2. g[new[m][e]] = h[p] /\ h[p] \in Nat
      BY <1>2, <1>4, <1>5, <3>1
    <3> QED BY <1>2, <2>2, <3>1, <3>2 DEF Known
  <2>3. CASE Step(m, e) = hole
    <3>1. s # r
      BY <1>2, <1>7, <2>3, StepIs
    <3>2. new[m][e] = t /\ link[m][e] = s
      BY <1>2, <2>1, <2>3, <3>1, StepIs
    <3>3. g[t] = h[t] /\ h[t] \in Nat
      BY <1>2, <1>3, <1>4, <1>5, <1>6
    <3> QED BY <1>6, <2>3, <3>2, <3>3 DEF Known
  <2>4. CASE Step(m, e) # above /\ Step(m, e) # hole
    <3>1. new[m][e] = link[m][e]
      BY <2>1, <2>4
    <3>2. link[m][e] # s
      <4> SUFFICES ASSUME link[m][e] = s PROVE FALSE
        OBVIOUS
      <4>1. P[s] = Step(m, e)
        BY <1>2, <1>3, <1>4, <2>1
      <4>2. s = r
        BY <1>2, <2>4, <4>1
      <4> QED BY <1>2, <2>1, <4>1, <4>2, StepIs
    <3>3. g[link[m][e]] = h[link[m][e]] /\ h[link[m][e]] \in Nat
      BY <1>4, <1>5, <2>1, <3>2
    <3> QED BY <2>4, <3>1, <3>3 DEF Known
  <2> QED BY <2>2, <2>3, <2>4
<1>8. Known(new, g, hole, s, 0) = h[c]
  <2>1. Step(s, 0) # above /\ Step(s, 0) # hole
    <3>1. Step(s, 0) # above
      BY <1>2, StepIs
    <3>2. CASE s = r
      BY <1>2, <3>1, <3>2, StepIs
    <3>3. CASE s # r
      <4> SUFFICES ASSUME Step(s, 0) = hole PROVE FALSE
        BY <3>1
      <4>1. link[s][0] = s
        BY <1>2, <3>3, StepIs
      <4> QED BY <1>2, <1>3, <4>1
    <3> QED BY <3>2, <3>3
  <2>2. new[s][0] = c
    BY <1>2, <1>3, <1>4, <2>1 DEF LinksSwapped
  <2>3. g[c] = h[c] /\ h[c] \in Nat
    BY <1>2, <1>3, <1>4, <1>5
  <2> QED BY <2>1, <2>2, <2>3 DEF Known
<1>9. Known(new, g, hole, s, 1) = h[r]
  <2>1. Step(s, 1) # above
    BY <1>2, StepIs
  <2>2. CASE s = r
    <3>1. new[s][1] = t /\ Step(s, 1) = hole
      BY <1>2, <1>3, <1>4, <2>1, <2>2 DEF LinksSwapped
    <3>2. g[t] = h[t] /\ h[t] \in Nat
      BY <1>2, <1>3, <1>4, <1>5, <1>6
    <3> QED BY <1>6, <2>2, <3>1, <3>2 DEF Known
  <2>3. CASE s # r
    <3>1. Step(s, 1) # hole
      <4> SUFFICES ASSUME Step(s, 1) = hole PROVE FALSE
        OBVIOUS
      <4>1. link[s][1] = s
        BY <1>2, <2>3, StepIs
      <4> QED BY <1>6, <4>1
    <3>2. new[s][1] = r
      BY <1>2, <1>3, <1>4, <2>1, <3>1 DEF LinksSwapped
    <3>3. g[r] = h[r] /\ h[r] \in Nat
      BY <1>2, <1>4, <1>5, <2>3
    <3> QED BY <3>1, <3>2, <3>3 DEF Known
  <2> QED BY <2>2, <2>3
<1>10. ASSUME NEW m \in M PROVE Levelled(after[m], Known(new, g, hole, m, 0), Known(new, g, hole, m, 1), g[m])
  <2>1. CASE m = s
    <3>1. after[m] = balance[p]
      BY <1>2, <1>3, <2>1 DEF BalanceType
    <3>2. Levelled(balance[p], h[c], h[r], h[p])
      BY <1>1, <1>2
    <3> QED BY <1>5, <1>8, <1>9, <2>1, <3>1, <3>2
  <2>2. CASE m # s
    <3>1. after[m] = balance[m] /\ g[m] = h[m]
      BY <1>3, <1>4, <1>5, <2>2 DEF BalanceType
    <3>2. Levelled(balance[m], h[link[m][0]], h[link[m][1]], h[m])
      BY <1>1
    <3> QED BY <1>3, <1>7, <2>2, <3>1, <3>2
  <2> QED BY <2>1, <2>2
<1>11. g[NULLNODE] = 0
  BY <1>1, <1>2, <1>3, <1>5 DEF Places
<1> HIDE DEF after, M
<1>12. Balanced(new, after, M, g, hole)
  BY <1>5, <1>10, <1>11 DEF Balanced
<1> QED BY <1>12 DEF after, M

-----------------------------------------------------------------------------
(* The way to the last node on side d of what hangs at a step.             *)
LEMMA OutwardIs ==
  ASSUME NEW T, NEW P, Shaped(av_link, av_nodes, T, P),
         NEW from \in Steps, from.node \in av_nodes \cup {Anchor}, NEW d \in Sides
  PROVE  LET way == Outward(from, d)
             s == Last(way).node
         IN  /\ IsWay(av_link, av_nodes, way) /\ way[1] = from
             /\ \A i \in 2 .. Len(way) : way[i].side = d
             /\ Below(from) = NULLNODE => Len(way) = 1
             /\ Below(from) # NULLNODE =>
                  /\ Len(way) >= 2 /\ s \in T[Below(from)] /\ av_link[s][d] = NULLNODE
                  /\ \A k \in T[Below(from)] : k = s \/ On(1 - d, k, s)
<1> DEFINE way == Outward(from, d)
           turn == [n \in AvlNodes |-> d]
           L == Len(way)
           s == Last(way).node
           N == av_nodes
<1>1. /\ N \subseteq AvlNodes /\ Nested(av_link, N, T) /\ NULLNODE \notin N /\ Anchor \notin N /\ T[NULLNODE] = {}
      /\ from.side \in Sides /\ N \subseteq Nat /\ 1 - d \in Sides /\ 1 - (1 - d) = d
  <2>1. N \subseteq AvlNodes /\ Nested(av_link, N, T) /\ T[NULLNODE] = {}
    BY NestedIs DEF Shaped
  <2>2. NULLNODE \notin N /\ Anchor \notin N /\ N \subseteq Nat
    BY <2>1, NumbersOf
  <2>3. from.side \in Sides
    BY DEF Steps
  <2> QED BY <2>1, <2>2, <2>3, NumbersOf
<1>2. turn \in [AvlNodes -> Sides \cup {Here}] /\ \A n \in AvlNodes : turn[n] = d /\ turn[n] # Here
  BY DEF Sides, Here
<1> HIDE DEF turn
<1>3. way = Down(from, turn)
  BY DEF Outward, turn
<1>4. IsWay(av_link, N, way) /\ way[1] = from /\ Turns(way, turn) /\ Stops(way, turn)
  BY <1>2, <1>3, DownIs
<1> HIDE DEF way
<1>5. /\ L \in Nat \ {0} /\ Last(way) = way[L] /\ L \in 1 .. L
      /\ \A i \in 1 .. L : way[i].node \in N \cup {Anchor} /\ way[i].side \in Sides
      /\ \A i \in 2 .. L : way[i].node \in N /\ Goes(av_link, way, i - 1) = way[i].node
  <2>1. \A i \in 2 .. L : way[i].node \in N /\ Goes(av_link, way, i - 1) = way[i].node
    BY <1>4 DEF IsWay
  <2> QED BY <1>1, <1>4, <2>1, StepsOf
<1>6. \A i \in 2 .. L : way[i].side = d
  BY <1>1, <1>2, <1>4, <1>5 DEF Turns
<1>7. Below(from) = Goes(av_link, way, 1) /\ Below(from) \in N \cup {NULLNODE}
  BY <1>1, <1>4 DEF Below, Goes, Shaped
<1>8. CASE Below(from) = NULLNODE
  <2>1. L = 1
    <3> SUFFICES ASSUME L # 1 PROVE FALSE
      OBVIOUS
    <3>0. L \in Nat \ {0} /\ L # 1
      BY <1>5
    <3>1. 2 \in 2 .. L
      <4> HIDE DEF L
      <4> QED BY <3>0
    <3>2. way[2].node \in N /\ Goes(av_link, way, 1) = way[2].node
      <4>1. 2 - 1 = 1
        OBVIOUS
      <4> QED BY <1>5, <3>1, <4>1
    <3> QED BY <1>1, <1>7, <1>8, <3>2
  <2> QED BY <1>4, <1>6, <1>8, <2>1 DEF way
<1>9. CASE Below(from) # NULLNODE
  <2>1. Below(Last(way)) = Goes(av_link, way, L) /\ Goes(av_link, way, L) = NULLNODE
    <3>1. Below(Last(way)) = Goes(av_link, way, L) /\ Below(Last(way)) \in N \cup {NULLNODE}
      BY <1>5 DEF Below, Goes, Shaped
    <3> QED BY <1>1, <1>2, <1>4, <3>1 DEF Stops
  <2>2. L >= 2
    BY <1>5, <1>7, <1>9, <2>1
  <2>3. s = way[L].node /\ s \in N /\ av_link[s][d] = NULLNODE /\ 1 \in 1 .. L /\ 1 < L
    BY <1>5, <1>6, <2>1, <2>2 DEF Goes
  <2>4. s \in T[Below(from)]
    BY <1>4, <1>5, <1>7, <2>3, WayNested
  <2> DEFINE A == {i \in Nat : i + 2 <= L => \A k \in T[Below(from)] : k \in T[way[i + 2].node] \/ On(1 - d, k, s)}
  <2>5. 0 \in A
    <3>1. 2 \in 2 .. L /\ 2 - 1 = 1 /\ 0 + 2 = 2
      BY <2>2
    <3> QED BY <1>5, <1>7, <3>1
  <2>6. ASSUME NEW i \in 1 .. L, i - 1 \in A PROVE i \in A
    <3> SUFFICES ASSUME i + 2 <= L, NEW k \in T[Below(from)] PROVE k \in T[way[i + 2].node] \/ On(1 - d, k, s)
      OBVIOUS
    <3>1. i + 1 \in 2 .. L /\ i + 2 \in 2 .. L /\ (i + 2) - 1 = i + 1 /\ (i - 1) + 2 = i + 1 /\ i + 1 \in 1 .. L /\ i + 1 < L
      BY <1>5
    <3> DEFINE m == way[i + 1].node
    <3>2. m \in N /\ way[i + 1].side = d /\ way[i + 2].node = av_link[m][d]
      BY <1>5, <1>6, <3>1 DEF Goes
    <3>3. k \in T[m] \/ On(1 - d, k, s)
      BY <2>6, <3>1
    <3>4. s \in T[av_link[m][d]]
      <4>1. s \in T[Goes(av_link, way, i + 1)]
        BY <1>4, <1>5, <2>3, <3>1, WayNested
      <4> QED BY <3>2, <4>1 DEF Goes
    <3> HIDE DEF m
    <3>5. T[m] = {m} \cup T[av_link[m][d]] \cup T[av_link[m][1 - d]] /\ T[m] \subseteq N
      <4>1. T[m] \subseteq N
        BY <1>1, <3>2 DEF Nested
      <4>2. T[m] = {m} \cup T[av_link[m][d]] \cup T[av_link[m][1 - d]]
        BY <1>1, <3>2 DEF Nested
      <4> QED BY <4>1, <4>2
    <3>6. On(d, s, m) /\ s \in Nat /\ m \in Nat
      BY <1>1, <2>3, <3>2, <3>4 DEF Shaped
    <3>7. CASE k \in T[m] /\ k \notin T[av_link[m][d]]
      <4>1. k \in Nat /\ (k = m \/ On(1 - d, k, m))
        BY <1>1, <3>2, <3>5, <3>7 DEF Shaped
      <4> QED BY <3>6, <4>1 DEF On, Sides
    <3> QED BY <3>2, <3>3, <3>7
  <2> HIDE DEF A
  <2>7. L - 2 \in 0 .. L /\ (L - 2) + 2 = L /\ L \in Nat
    BY <1>5, <2>2
  <2>8. 0 .. L \subseteq A
    BY <2>5, <2>6, <2>7, UpTo
  <2>9. ASSUME NEW k \in T[Below(from)] PROVE k = s \/ On(1 - d, k, s)
    <3>1. L - 2 \in A
      BY <2>7, <2>8
    <3>2. k \in T[s] \/ On(1 - d, k, s)
      BY <2>3, <2>7, <3>1 DEF A
    <3>3. T[s] = {s} \cup T[av_link[s][d]] \cup T[av_link[s][1 - d]]
      BY <1>1, <2>3 DEF Nested
    <3>4. \A l \in T[av_link[s][1 - d]] : On(1 - d, l, s)
      BY <1>1, <2>3 DEF Shaped
    <3> QED BY <1>1, <2>3, <3>2, <3>3, <3>4
  <2> QED BY <1>4, <1>6, <1>9, <2>2, <2>3, <2>4, <2>9 DEF way
<1> QED BY <1>8, <1>9

-----------------------------------------------------------------------------
(* The stack of avl_delete is a way in the tree without p, and ends at the *)
(* link where the tree is lower.                                           *)
LEMMA WayAbove ==
  ASSUME NEW link, NEW N, NEW T, NEW P, Shaped(link, N, T, P), NEW way, IsWay(link, N, way),
         NEW p \in N, Goes(link, way, Len(way)) = p
  PROVE  /\ \A i \in 1 .. Len(way) : way[i].node \notin T[p] /\ way[i].node # p
         /\ \A i \in 1 .. Len(way), j \in 1 .. Len(way) : i # j => way[i].node # way[j].node
<1> DEFINE L == Len(way)
           on == Append(way, Step(p, 0))
<1>1. N \subseteq AvlNodes /\ 0 \in Sides /\ L \in Nat \ {0}
  BY StepsOf DEF Shaped, Sides
<1>2. /\ IsWay(link, N, on) /\ Len(on) = L + 1
      /\ \A i \in 1 .. L : on[i] = way[i]
      /\ on[L + 1] = Step(p, 0)
  BY <1>1, WayGoesOn
<1> HIDE DEF on
<1>3. ASSUME NEW i \in 1 .. L PROVE way[i].node \notin T[p] /\ way[i].node # p
  <2>1. i \in 1 .. Len(on) /\ L + 1 \in 1 .. Len(on) /\ i < L + 1
    BY <1>1, <1>2
  <2>2. on[L + 1].node = p /\ on[i] = way[i]
    BY <1>2, StepIs
  <2>3. on[i].node \notin T[on[L + 1].node] /\ on[i].node # on[L + 1].node
    BY <1>2, <2>1, WayNested
  <2> QED BY <2>2, <2>3
<1>4. ASSUME NEW i \in 1 .. L, NEW j \in 1 .. L, i # j PROVE way[i].node # way[j].node
  <2>1. i < j \/ j < i
    BY <1>4
  <2> QED BY <2>1, WayNested
<1> QED BY <1>3, <1>4

LEMMA CutWay ==
  ASSUME NEW link, NEW N, NEW T, NEW P, Shaped(link, N, T, P), NEW way, IsWay(link, N, way),
         NEW p \in N, Goes(link, way, Len(way)) = p, NEW above, above = way[Len(way)],
         NEW new, LinksCut(link, new, p, above)
  PROVE  IsWay(new, N \ {p}, way)
<1> USE DEF LinksCut
<1> DEFINE L == Len(way)
<1>1. /\ N \subseteq AvlNodes /\ Anchor \notin N
      /\ L \in Nat \ {0} /\ L \in 1 .. L /\ way \in Seq(Steps)
      /\ \A i \in 1 .. L : /\ way[i].node \in N \cup {Anchor} /\ way[i].side \in Sides /\ way[i].node # p
                           /\ way[i] = Step(way[i].node, way[i].side)
      /\ \A i \in 2 .. L : way[i].node \in N /\ Goes(link, way, i - 1) = way[i].node
      /\ \A i, j \in 1 .. L : i # j => way[i].node # way[j].node
  <2>1. N \subseteq AvlNodes
    BY DEF Shaped
  <2>2. Anchor \notin N
    BY <2>1, NumbersOf
  <2>3. way \in Seq(Steps) /\ \A i \in 2 .. L : way[i].node \in N /\ Goes(link, way, i - 1) = way[i].node
    BY DEF IsWay
  <2> QED BY <2>1, <2>2, <2>3, StepsOf, WayAbove
<1>2. ASSUME NEW i \in 2 .. L PROVE Goes(new, way, i - 1) = way[i].node
  <2>1. i - 1 \in 1 .. L /\ i - 1 # L
    BY <1>1
  <2>2. Step(way[i - 1].node, way[i - 1].side) # way[L]
    BY <1>1, <2>1
  <2>3. way[i - 1].node \in Parents /\ way[i - 1].side \in Sides
    BY <1>1, <2>1 DEF Parents
  <2> QED BY <1>1, <2>2, <2>3 DEF Goes
<1>3. 1 \in 1 .. L /\ \A i \in 2 .. L : i \in 1 .. L
  BY <1>1
<1> QED BY <1>1, <1>2, <1>3 DEF IsWay

GivenStack(stack, way, right, s) ==
  /\ stack \in Seq(Steps) /\ Len(stack) = Len(way) + Len(right) - 1
  /\ \A i \in 1 .. Len(way) : stack[i] = way[i]
  /\ stack[Len(way) + 1] = Step(s, 1)
  /\ \A i \in Len(way) + 2 .. Len(stack) : stack[i] = right[i - Len(way)]

GivenRight(link, N, right, p) ==
  /\ IsWay(link, N, right) /\ right[1] = Step(p, 1) /\ Len(right) >= 2
  /\ \A i \in 2 .. Len(right) : right[i].side = 0

LEMMA RightIs ==
  ASSUME NEW link, NEW N, NEW T, NEW P, Shaped(link, N, T, P), NEW p \in N,
         NEW right, GivenRight(link, N, right, p)
  PROVE  LET R == Len(right)
             s == right[R].node
         IN  /\ R \in Nat /\ R >= 2
             /\ \A i \in 1 .. R : right[i] = Step(right[i].node, right[i].side) /\ right[i].side \in Sides
             /\ \A i \in 2 .. R : right[i].node \in N /\ right[i].node \in T[link[p][1]]
                                  /\ link[right[i - 1].node][right[i - 1].side] = right[i].node
             /\ \A i, j \in 1 .. R : i # j => right[i].node # right[j].node
             /\ s = link[p][1] <=> R = 2
             /\ R > 2 => P[s] = right[R - 1]
<1> DEFINE R == Len(right)
           s == right[R].node
<1>1. N \subseteq AvlNodes /\ IsWay(link, N, right) /\ right[1] = Step(p, 1) /\ R >= 2
  BY DEF GivenRight, Shaped
<1>2. /\ R \in Nat /\ R \in 1 .. R
      /\ \A i \in 1 .. R : /\ right[i] \in Steps /\ right[i].node \in N \cup {Anchor} /\ right[i].side \in Sides
                           /\ right[i] = Step(right[i].node, right[i].side)
      /\ \A i \in 2 .. R : right[i].node \in N /\ Goes(link, right, i - 1) = right[i].node
  <2>1. \A i \in 2 .. R : right[i].node \in N /\ Goes(link, right, i - 1) = right[i].node
    BY <1>1 DEF IsWay
  <2> QED BY <1>1, <2>1, StepsOf
<1>3. Goes(link, right, 1) = link[p][1]
  BY <1>1, StepIs DEF Goes
<1>4. ASSUME NEW i \in 2 .. R PROVE right[i].node \in T[link[p][1]]
  <2>1. 1 \in 1 .. R /\ i \in 1 .. R /\ 1 < i
    BY <1>2
  <2> QED BY <1>1, <1>3, <2>1, WayNested
<1>5. ASSUME NEW i \in 1 .. R, NEW j \in 1 .. R, i # j PROVE right[i].node # right[j].node
  <2>1. i < j \/ j < i
    BY <1>5
  <2> QED BY <1>1, <2>1, WayNested
<1>6. right[2].node = link[p][1]
  <2>1. 2 \in 2 .. R /\ 2 - 1 = 1
    BY <1>1, <1>2
  <2> QED BY <1>2, <1>3, <2>1
<1>7. s = link[p][1] <=> R = 2
  <2>1. 2 \in 1 .. R
    BY <1>1, <1>2
  <2> QED BY <1>2, <1>5, <1>6, <2>1
<1>8. ASSUME R > 2 PROVE P[s] = right[R - 1]
  <2>1. R \in 2 .. R /\ R - 1 \in 1 .. R
    BY <1>2, <1>8
  <2> DEFINE q == right[R - 1]
  <2>2. q.node \in N \cup {Anchor} /\ q.side \in Sides /\ q = Step(q.node, q.side) /\ link[q.node][q.side] = s /\ s \in N
    BY <1>2, <2>1 DEF Goes
  <2> HIDE DEF q
  <2>3. s # NULLNODE
    <3>1. N \subseteq AvlNodes /\ s \in N
      BY <1>1, <2>2
    <3> HIDE DEF s
    <3> QED BY <3>1, NumbersOf
  <2>4. P[s] = q
    BY <2>2, <2>3 DEF Shaped
  <2> QED BY <2>4 DEF q
<1> QED BY <1>1, <1>2, <1>4, <1>5, <1>7, <1>8 DEF Goes

GivenLeast(link, N, T, P, way, p, right, s, above, hole, stack) ==
  /\ p \in N /\ IsWay(link, N, way) /\ Goes(link, way, Len(way)) = p /\ above = way[Len(way)]
  /\ GivenRight(link, N, right, p) /\ s = right[Len(right)].node
  /\ GivenSwap(link, N, T, P, p, s, above, hole) /\ GivenStack(stack, way, right, s)

LEMMA SwapWay ==
  ASSUME NEW link, NEW N, NEW T, NEW P, Shaped(link, N, T, P), NEW h, Falls(link, N, h),
         NEW p, NEW above, NEW way, NEW right, NEW s, NEW hole, NEW stack,
         GivenLeast(link, N, T, P, way, p, right, s, above, hole, stack),
         NEW new, LinksSwapped(link, new, p, s, above, hole)
  PROVE  IsWay(new, N \ {p}, stack) /\ Last(stack) = hole /\ stack[1] = way[1]
<1> USE DEF GivenLeast
<1> DEFINE L == Len(way)
           R == Len(right)
           K == Len(stack)
           M == N \ {p}
<1>1. /\ R \in Nat /\ R >= 2
      /\ \A i \in 1 .. R : right[i] = Step(right[i].node, right[i].side) /\ right[i].side \in Sides
      /\ \A i \in 2 .. R : /\ right[i].node \in N /\ right[i].node \in T[link[p][1]]
                           /\ link[right[i - 1].node][right[i - 1].side] = right[i].node
      /\ \A i, j \in 1 .. R : i # j => right[i].node # right[j].node
      /\ s = link[p][1] <=> R = 2
      /\ R > 2 => P[s] = right[R - 1]
  <2> DEFINE u == right[R].node
  <2>1. /\ R \in Nat /\ R >= 2
        /\ \A i \in 1 .. R : right[i] = Step(right[i].node, right[i].side) /\ right[i].side \in Sides
        /\ \A i \in 2 .. R : /\ right[i].node \in N /\ right[i].node \in T[link[p][1]]
                             /\ link[right[i - 1].node][right[i - 1].side] = right[i].node
        /\ \A i, j \in 1 .. R : i # j => right[i].node # right[j].node
        /\ u = link[p][1] <=> R = 2
        /\ R > 2 => P[u] = right[R - 1]
    BY RightIs
  <2>2. s = u
    OBVIOUS
  <2> HIDE DEF u
  <2> QED BY <2>1, <2>2
<1>2. /\ p \in N /\ s \in N /\ s # p
      /\ p \notin T[link[p][1]] /\ s \in T[link[p][1]] /\ T[link[p][1]] \subseteq T[p]
      /\ hole = Step(hole.node, hole.side) /\ hole.node \in T[link[p][1]]
      /\ (s # link[p][1] => hole = P[s] /\ link[hole.node][hole.side] = s) /\ (s = link[p][1] => hole = Step(s, 1))
      /\ above # hole
  BY SwapFacts
<1>3. /\ N \subseteq AvlNodes /\ Anchor \notin N
      /\ L \in Nat \ {0} /\ L \in 1 .. L
      /\ \A i \in 1 .. L : /\ way[i].node \in N \cup {Anchor} /\ way[i].side \in Sides
                           /\ way[i].node # p /\ way[i].node \notin T[p]
                           /\ way[i] = Step(way[i].node, way[i].side)
      /\ \A i \in 2 .. L : way[i].node \in N /\ link[way[i - 1].node][way[i - 1].side] = way[i].node
      /\ \A i, j \in 1 .. L : i # j => way[i].node # way[j].node
  <2>1. N \subseteq AvlNodes
    BY DEF Shaped
  <2>2. Anchor \notin N
    BY <2>1, NumbersOf
  <2>3. \A i \in 2 .. L : way[i].node \in N /\ link[way[i - 1].node][way[i - 1].side] = way[i].node
    BY DEF IsWay, Goes
  <2> QED BY <2>1, <2>2, <2>3, StepsOf, WayAbove
<1>4. /\ stack \in Seq(Steps) /\ K = L + R - 1 /\ K \in Nat
      /\ \A i \in 1 .. L : stack[i] = way[i]
      /\ stack[L + 1] = Step(s, 1)
      /\ \A i \in L + 2 .. K : stack[i] = right[i - L]
  <2>1. /\ stack \in Seq(Steps) /\ K = L + R - 1
        /\ \A i \in 1 .. L : stack[i] = way[i]
        /\ stack[L + 1] = Step(s, 1)
        /\ \A i \in L + 2 .. K : stack[i] = right[i - L]
    BY DEF GivenStack
  <2>2. L \in Nat /\ L >= 1 /\ R \in Nat /\ R >= 2
    BY <1>1, <1>3
  <2> HIDE DEF K, L, R
  <2>3. K \in Nat
    BY <2>1, <2>2
  <2> QED BY <2>1, <2>3
<1>0. K = Len(stack) /\ L \in Nat /\ L >= 1 /\ above = way[L] /\ s = right[R].node
  BY <1>3
<1> HIDE DEF K, L, R
<1>5. Last(stack) = hole
  <2>1. Last(stack) = stack[K]
    BY <1>0 DEF Last
  <2>2. CASE R = 2
    <3>1. K = L + 1
      BY <1>0, <1>4, <2>2
    <3> QED BY <1>1, <1>2, <1>4, <2>1, <2>2, <3>1
  <2>3. CASE R # 2
    <3>1. R > 2 /\ K \in L + 2 .. K /\ K - L = R - 1
      BY <1>0, <1>1, <1>4, <2>3
    <3>2. s # link[p][1] /\ stack[K] = right[K - L]
      BY <1>1, <1>4, <3>1
    <3> QED BY <1>1, <1>2, <2>1, <3>1, <3>2
  <2> QED BY <2>2, <2>3
<1>6. \A m \in N \cup {Anchor}, e \in Sides :
        new[m][e] = IF Step(m, e) = above THEN s
                    ELSE IF Step(m, e) = hole THEN link[s][1]
                    ELSE IF m = s THEN link[p][e]
                    ELSE link[m][e]
  BY <1>3 DEF LinksSwapped, Parents
<1>7. ASSUME NEW i \in 2 .. K PROVE stack[i].node \in M /\ Goes(new, stack, i - 1) = stack[i].node
  <2>1. CASE i \in 2 .. L
    <3> DEFINE m == way[i - 1].node
               e == way[i - 1].side
    <3>1. /\ i \in 1 .. L /\ i - 1 \in 1 .. L /\ i - 1 # L
          /\ stack[i] = way[i] /\ stack[i - 1] = way[i - 1]
      <4>1. i \in 1 .. L /\ i - 1 \in 1 .. L /\ i - 1 # L
        BY <1>0, <2>1
      <4> QED BY <1>4, <4>1
    <3>2. m \in N \cup {Anchor} /\ e \in Sides /\ m # above.node /\ m \notin T[p] /\ link[m][e] = way[i].node
      BY <1>0, <1>3, <2>1, <3>1
    <3>3. Goes(new, stack, i - 1) = new[m][e]
      BY <3>1 DEF Goes
    <3> HIDE DEF m, e
    <3>4. Step(m, e) # above /\ Step(m, e) # hole /\ m # s
      <4>1. Step(m, e).node = m
        BY StepIs
      <4> QED BY <1>2, <3>2, <4>1
    <3>5. new[m][e] = link[m][e]
      BY <1>6, <3>2, <3>4
    <3> QED BY <1>3, <2>1, <3>1, <3>2, <3>3, <3>5
  <2>2. CASE i = L + 1
    <3> DEFINE m == above.node
               e == above.side
    <3>1. stack[i - 1] = above /\ stack[i].node = s /\ above = Step(m, e) /\ m \in N \cup {Anchor} /\ e \in Sides
      <4>1. stack[i - 1] = above
        BY <1>0, <1>3, <1>4, <2>2
      <4>2. stack[i].node = s
        BY <1>4, <2>2, StepIs
      <4> QED BY <1>0, <1>3, <4>1, <4>2
    <3>2. Goes(new, stack, i - 1) = new[m][e]
      BY <3>1 DEF Goes
    <3> HIDE DEF m, e
    <3>3. new[m][e] = s
      BY <1>6, <3>1
    <3> QED BY <1>2, <3>1, <3>2, <3>3
  <2>3. CASE i = L + 2
    <3>1. i - 1 = L + 1 /\ i \in L + 2 .. K /\ i - L = 2 /\ R # 2 /\ 2 \in 2 .. R /\ 2 - 1 = 1
      BY <1>1, <1>3, <1>4, <2>3
    <3>2. stack[i - 1] = Step(s, 1) /\ stack[i] = right[2]
      BY <1>4, <3>1
    <3>3. right[2].node = link[p][1] /\ right[2].node \in N /\ right[2].node \in T[link[p][1]]
      <4>1. right[1].node = p /\ right[1].side = 1
        BY StepIs DEF GivenRight
      <4> QED BY <1>1, <3>1, <4>1
    <3>4. Goes(new, stack, i - 1) = new[s][1]
      BY <3>2, StepIs DEF Goes
    <3>5. Step(s, 1) # above
      <4>1. Step(s, 1).node = s /\ s \in T[p]
        BY <1>2, StepIs
      <4> QED BY <1>0, <1>3, <4>1
    <3>6. Step(s, 1) # hole
      <4> SUFFICES ASSUME Step(s, 1) = hole PROVE FALSE
        OBVIOUS
      <4>1. R > 2 /\ R - 1 \in 1 .. R /\ R \in 1 .. R /\ R - 1 # R
        BY <1>1, <3>1
      <4>2. hole = right[R - 1]
        BY <1>1, <1>2, <4>1
      <4>3. right[R - 1].node # s
        BY <1>0, <1>1, <4>1
      <4> QED BY <4>2, <4>3, StepIs
    <3>7. new[s][1] = link[p][1]
      BY <1>2, <1>6, <3>5, <3>6 DEF Sides
    <3> QED BY <1>2, <3>2, <3>3, <3>4, <3>7
  <2>4. CASE i \in L + 3 .. K
    <3> DEFINE j == i - L
               m == right[j - 1].node
               e == right[j - 1].side
    <3>1. /\ i \in L + 2 .. K /\ i - 1 \in L + 2 .. K /\ (i - 1) - L = j - 1
          /\ j \in 3 .. R - 1 /\ j \in 2 .. R /\ j - 1 \in 2 .. R /\ j - 1 \in 1 .. R /\ R - 1 \in 1 .. R /\ j - 1 # R - 1 /\ j - 1 # R
          /\ R > 2 /\ R \in 1 .. R
      <4>1. L \in Nat /\ L >= 1 /\ R \in Nat /\ R >= 2 /\ K = L + R - 1 /\ i \in L + 3 .. K
        BY <1>0, <1>1, <1>4, <2>4
      <4> QED BY <4>1
    <3>2. stack[i] = right[j] /\ stack[i - 1] = right[j - 1]
      BY <1>4, <3>1
    <3>3. Goes(new, stack, i - 1) = new[m][e]
      BY <3>2 DEF Goes
    <3>4. m \in N /\ m \in T[link[p][1]] /\ e \in Sides /\ link[m][e] = right[j].node /\ right[j].node \in N /\ right[j].node # p
      BY <1>1, <1>2, <3>1
    <3>5. m # s /\ m # right[R - 1].node /\ hole = right[R - 1]
      <4>1. right[j - 1].node # right[R].node /\ right[j - 1].node # right[R - 1].node
        BY <1>1, <3>1
      <4>2. hole = right[R - 1]
        BY <1>1, <1>2, <3>1
      <4> QED BY <1>0, <4>1, <4>2
    <3>6. above.node \notin T[link[p][1]]
      BY <1>0, <1>2, <1>3
    <3> HIDE DEF j, m, e
    <3>7. Step(m, e).node = m
      BY StepIs
    <3>8. new[m][e] = link[m][e]
      BY <1>6, <3>4, <3>5, <3>6, <3>7
    <3> QED BY <3>2, <3>3, <3>4, <3>8
  <2>5. i \in 2 .. L \/ i = L + 1 \/ i = L + 2 \/ i \in L + 3 .. K
    BY <1>0, <1>4
  <2> QED BY <2>1, <2>2, <2>3, <2>4, <2>5
<1>8. stack[1] = way[1] /\ stack[1].node \in M \cup {Anchor} /\ K >= 1
  <2>1. 1 \in 1 .. L /\ K >= 1
    BY <1>0, <1>1, <1>4
  <2> QED BY <1>3, <1>4, <2>1
<1>9. IsWay(new, M, stack)
  BY <1>0, <1>4, <1>7, <1>8 DEF IsWay
<1> QED BY <1>5, <1>8, <1>9

-----------------------------------------------------------------------------
(* The links that avl_delete sets, and the tree it leaves.                 *)
LEMMA LinksOfChild ==
  ASSUME NEW link, LinkType(link), NEW p \in AvlNodes, NEW r \in AvlNodes,
         NEW above \in Steps, above.node # r
  PROVE  LET new == Hung([link EXCEPT ![r][0] = link[p][0]], above, r)
         IN  LinkType(new) /\ LinksSwapped(link, new, p, r, above, Step(r, 1))
<1> DEFINE first == Hung(link, Step(r, 0), link[p][0])
           new == Hung(first, above, r)
           hole == Step(r, 1)
<1>1. /\ r \in Parents /\ p \in Parents /\ r \in Places /\ 0 \in Sides /\ 1 \in Sides
      /\ Step(r, 0) \in Steps /\ link[p][0] \in Places
  <2>1. r \in Parents /\ p \in Parents /\ r \in Places /\ 0 \in Sides /\ 1 \in Sides
    BY DEF Parents, Places, Sides
  <2> QED BY <2>1, StepIs DEF LinkType
<1>2. first = [link EXCEPT ![r][0] = link[p][0]]
  BY StepIs DEF Hung
<1>3. LinkType(first) /\ \A m \in Parents, e \in Sides : first[m][e] = IF Step(m, e) = Step(r, 0) THEN link[p][0] ELSE link[m][e]
  BY <1>1, HungIs
<1> HIDE DEF first
<1>4. LinkType(new) /\ \A m \in Parents, e \in Sides : new[m][e] = IF Step(m, e) = above THEN r ELSE first[m][e]
  BY <1>1, <1>3, HungIs
<1> HIDE DEF new
<1>5. ASSUME NEW m \in Parents, NEW e \in Sides
      PROVE  new[m][e] = IF Step(m, e) = above THEN r ELSE IF Step(m, e) = hole THEN link[r][1]
                         ELSE IF m = r THEN link[p][e] ELSE link[m][e]
  <2>1. CASE m = r
    <3>1. Step(m, e) # above
      BY <2>1, StepIs
    <3>2. CASE e = 0
      BY <1>3, <1>4, <2>1, <3>1, <3>2, StepIs
    <3>3. CASE e = 1
      BY <1>3, <1>4, <2>1, <3>1, <3>3, StepIs
    <3> QED BY <3>2, <3>3 DEF Sides
  <2>2. CASE m # r
    BY <1>3, <1>4, <2>2, StepIs
  <2> QED BY <2>1, <2>2
<1>6. LinksSwapped(link, new, p, r, above, hole)
  BY <1>5 DEF LinksSwapped
<1> QED BY <1>2, <1>4, <1>6 DEF new

LEMMA LinksOfLeast ==
  ASSUME NEW link, LinkType(link), NEW p \in AvlNodes, NEW s \in AvlNodes, NEW q \in AvlNodes, q # s,
         NEW above \in Steps, above # Step(q, 0)
  PROVE  LET new == Hung([link EXCEPT ![s] = link[p], ![q][0] = link[s][1]], above, s)
         IN  LinkType(new) /\ LinksSwapped(link, new, p, s, above, Step(q, 0))
<1> DEFINE copied == [link EXCEPT ![s] = link[p]]
           first == Hung(copied, Step(q, 0), link[s][1])
           new == Hung(first, above, s)
           hole == Step(q, 0)
<1>1. /\ q \in Parents /\ s \in Parents /\ p \in Parents /\ s \in Places /\ 0 \in Sides /\ 1 \in Sides
      /\ hole \in Steps /\ link[s][1] \in Places
  <2>1. q \in Parents /\ s \in Parents /\ p \in Parents /\ s \in Places /\ 0 \in Sides /\ 1 \in Sides
    BY DEF Parents, Places, Sides
  <2> QED BY <2>1, StepIs DEF LinkType
<1>2. first = [link EXCEPT ![s] = link[p], ![q][0] = link[s][1]]
  BY StepIs DEF Hung
<1>3. LinkType(copied) /\ \A m \in Parents, e \in Sides : copied[m][e] = IF m = s THEN link[p][e] ELSE link[m][e]
  BY <1>1 DEF LinkType
<1> HIDE DEF copied
<1>4. LinkType(first) /\ \A m \in Parents, e \in Sides : first[m][e] = IF Step(m, e) = hole THEN link[s][1] ELSE copied[m][e]
  BY <1>1, <1>3, HungIs
<1> HIDE DEF first
<1>5. LinkType(new) /\ \A m \in Parents, e \in Sides : new[m][e] = IF Step(m, e) = above THEN s ELSE first[m][e]
  BY <1>1, <1>4, HungIs
<1> HIDE DEF new
<1>6. LinksSwapped(link, new, p, s, above, hole)
  BY <1>3, <1>4, <1>5 DEF LinksSwapped
<1> QED BY <1>2, <1>5, <1>6 DEF new

Lowered(link, balance, M, low) ==
  /\ LinkType(link) /\ BalanceType(balance)
  /\ \E U, Q : Shaped(link, M, U, Q)
  /\ \E g : Balanced(link, balance, M, g, low)

LEMMA UnlinkedIs ==
  ASSUME LinkType(av_link), BalanceType(av_balance), Vacant(av_link, av_nodes),
         NEW T, NEW P, Shaped(av_link, av_nodes, T, P),
         NEW h, Balanced(av_link, av_balance, av_nodes, h, TopStep),
         NEW p \in av_nodes, NEW way, IsWay(av_link, av_nodes, way), way[1] = TopStep,
         Goes(av_link, way, Len(way)) = p
  PROVE  LET out == Unlinked(p, way)
         IN  /\ IsWay(out.link, av_nodes \ {p}, out.stack) /\ out.stack[1] = TopStep
             /\ Lowered(out.link, out.balance, av_nodes \ {p}, Last(out.stack))
             /\ Vacant(out.link, av_nodes)
<1> DEFINE N == av_nodes
           M == N \ {p}
           L == Len(way)
           r == av_link[p][1]
           right == Outward(Step(p, 1), 0)
           R == Len(right)
           s == Last(right).node
           above == Last(way)
           out == Unlinked(p, way)
<1>1. /\ N \subseteq AvlNodes /\ NULLNODE \notin N /\ Anchor \notin N /\ p \in AvlNodes /\ p \in Parents /\ p \in Places
      /\ 0 \in Sides /\ 1 \in Sides
  <2>1. N \subseteq AvlNodes
    BY DEF Shaped
  <2>2. NULLNODE \notin N /\ Anchor \notin N
    BY <2>1, NumbersOf
  <2> QED BY <2>1, <2>2 DEF Parents, Places, Sides
<1>2. /\ L \in Nat \ {0} /\ L \in 1 .. L /\ above = way[L] /\ above \in Steps /\ above.node \in N \cup {Anchor}
      /\ above.side \in Sides /\ above = Step(above.node, above.side) /\ av_link[above.node][above.side] = p
  BY <1>1, StepsOf DEF Goes
<1>3. above.node \notin T[p]
  BY <1>2, WayAbove
<1>4. way \in Seq(Steps)
  BY DEF IsWay
<1>5. Falls(av_link, N, h)
  BY BalancedFalls
<1>6. r \in N \cup {NULLNODE}
  BY <1>1 DEF Shaped
<1>7. CASE r = NULLNODE
  <2> DEFINE new == Hung(av_link, above, av_link[p][0])
  <2>1. out = [link |-> new, balance |-> av_balance, stack |-> way]
    BY <1>7 DEF Unlinked
  <2>2. LinkType(new) /\ LinksCut(av_link, new, p, above)
    <3>1. av_link[p][0] \in Places
      BY <1>1 DEF LinkType
    <3> HIDE DEF above
    <3> QED BY <1>2, <3>1, HungIs DEF LinksCut
  <2> HIDE DEF new, above
  <2>3. \E U, Q : Shaped(new, M, U, Q)
    <3>1. p \in N /\ av_link[p][1] = NULLNODE
      BY <1>7
    <3> HIDE DEF r, M
    <3>2. \E U, Q : Shaped(new, N \ {p}, U, Q)
      BY <1>2, <2>2, <3>1, CutShaped
    <3> QED BY <3>2 DEF M
  <2>4. Balanced(new, av_balance, M, h, above)
    BY <1>2, <1>7, <2>2, CutLevelled
  <2>5. IsWay(new, M, way)
    BY <1>2, <2>2, CutWay
  <2>6. Vacant(new, N)
    <3> SUFFICES ASSUME NEW n \in AvlNodes \ N, NEW d \in Sides PROVE new[n][d] = NULLNODE
      BY DEF Vacant
    <3>1. n \in Parents /\ n # above.node
      BY <1>2, NumbersOf DEF Parents
    <3> QED BY <2>2, <3>1, StepIs DEF Vacant, LinksCut
  <2>7. Lowered(new, av_balance, M, above) /\ Last(way) = above
    BY <1>2, <2>2, <2>3, <2>4 DEF Lowered, above
  <2> QED BY <2>1, <2>5, <2>6, <2>7
<1>8. CASE r # NULLNODE
  <2>1. r \in N
    BY <1>6, <1>8
  <2>2. /\ IsWay(av_link, N, right) /\ right[1] = Step(p, 1) /\ R >= 2
        /\ \A i \in 2 .. R : right[i].side = 0
        /\ s \in T[r] /\ av_link[s][0] = NULLNODE /\ \A k \in T[r] : k = s \/ On(1, k, s)
    <3>1. Step(p, 1) \in Steps /\ Step(p, 1).node = p /\ Below(Step(p, 1)) = r
      BY <1>1, StepIs DEF Below
    <3>2. 1 - 0 = 1
      OBVIOUS
    <3> QED BY <1>1, <1>8, <3>1, <3>2, OutwardIs
  <2> HIDE DEF right
  <2>3. GivenRight(av_link, N, right, p)
    BY <2>2 DEF GivenRight
  <2>4. /\ R \in Nat /\ R >= 2 /\ s = right[R].node
        /\ \A i \in 1 .. R : right[i] = Step(right[i].node, right[i].side) /\ right[i].side \in Sides /\ right[i] \in Steps
        /\ \A i \in 2 .. R : /\ right[i].node \in N /\ right[i].node \in T[r]
                             /\ av_link[right[i - 1].node][right[i - 1].side] = right[i].node
        /\ \A i, j \in 1 .. R : i # j => right[i].node # right[j].node
        /\ s = r <=> R = 2
        /\ R > 2 => P[s] = right[R - 1]
    <3>1. Last(right) = right[R] /\ \A i \in 1 .. R : right[i] \in Steps
      BY <1>1, <2>2, StepsOf
    <3> DEFINE u == right[R].node
    <3>2. /\ R \in Nat /\ R >= 2
          /\ \A i \in 1 .. R : right[i] = Step(right[i].node, right[i].side) /\ right[i].side \in Sides
          /\ \A i \in 2 .. R : /\ right[i].node \in N /\ right[i].node \in T[av_link[p][1]]
                               /\ av_link[right[i - 1].node][right[i - 1].side] = right[i].node
          /\ \A i, j \in 1 .. R : i # j => right[i].node # right[j].node
          /\ u = av_link[p][1] <=> R = 2
          /\ R > 2 => P[u] = right[R - 1]
      BY <2>3, RightIs
    <3>3. s = u
      BY <3>1
    <3> HIDE DEF s, u
    <3> QED BY <3>1, <3>2, <3>3 DEF u
  <2> DEFINE hole == IF s = r THEN Step(s, 1) ELSE P[s]
             rest == SubSeq(right, 2, R - 1)
             stack == way \o <<Step(s, 1)>> \o rest
             after == [av_balance EXCEPT ![s] = av_balance[p]]
  <2>5. s \in N /\ s \in AvlNodes /\ s \in Parents /\ above.node # s /\ s # p
    <3>1. s \in N
      <4>1. R \in 2 .. R
        BY <2>4
      <4> QED BY <2>4, <4>1
    <3>2. T[r] \subseteq T[p] /\ p \notin T[r]
      <4>1. Nested(av_link, N, T)
        BY NestedIs
      <4> QED BY <1>1, <4>1 DEF Nested
    <3> QED BY <1>1, <1>3, <2>2, <3>1, <3>2 DEF Parents
  <2>6. GivenSwap(av_link, N, T, P, p, s, above, hole)
    BY <1>2, <2>2 DEF GivenSwap, On
  <2>7. GivenStack(stack, way, right, s)
    <3> DEFINE step == Step(s, 1)
               one == <<step>>
               both == way \o one
    <3>1. step \in Steps
      BY <1>1, <2>5, StepIs
    <3> HIDE DEF step
    <3>2. one \in Seq(Steps) /\ Len(one) = 1 /\ one[1] = step
      BY <3>1
    <3>3. both \in Seq(Steps) /\ Len(both) = L + 1 /\ \A i \in 1 .. L + 1 : both[i] = IF i <= L THEN way[i] ELSE one[i - L]
      <4> HIDE DEF one
      <4>1. /\ way \o one \in Seq(Steps) /\ Len(way \o one) = Len(way) + Len(one)
            /\ \A i \in 1 .. Len(way) + Len(one) : (way \o one)[i] = IF i <= Len(way) THEN way[i] ELSE one[i - Len(way)]
        BY <1>4, <3>2, ConcatProperties
      <4> QED BY <3>2, <4>1
    <3>4. rest \in Seq(Steps) /\ Len(rest) = R - 2 /\ \A i \in 1 .. R - 2 : rest[i] = right[i + 1]
      <4>1. \A i \in 2 .. R - 1 : right[i] \in Steps
        BY <2>4
      <4>2. 2 \in Int /\ R - 1 \in Int
        BY <2>4
      <4>3. /\ rest \in Seq(Steps)
            /\ Len(rest) = IF 2 <= R - 1 THEN (R - 1) - 2 + 1 ELSE 0
            /\ \A i \in 1 .. (R - 1) - 2 + 1 : rest[i] = right[2 + i - 1]
        BY <4>1, <4>2, SubSeqProperties
      <4>4. (R - 1) - 2 + 1 = R - 2 /\ (~ (2 <= R - 1) => R - 2 = 0) /\ \A i \in 1 .. R - 2 : 2 + i - 1 = i + 1
        <5>1. R \in Nat /\ R >= 2
          BY <2>4
        <5> HIDE DEF R
        <5> QED BY <5>1
      <4> QED BY <4>3, <4>4
    <3> HIDE DEF both, rest
    <3> DEFINE all == both \o rest
    <3>5. all \in Seq(Steps) /\ Len(all) = (L + 1) + (R - 2)
          /\ \A i \in 1 .. (L + 1) + (R - 2) : all[i] = IF i <= L + 1 THEN both[i] ELSE rest[i - (L + 1)]
      <4>1. /\ all \in Seq(Steps) /\ Len(all) = Len(both) + Len(rest)
            /\ \A i \in 1 .. Len(both) + Len(rest) : all[i] = IF i <= Len(both) THEN both[i] ELSE rest[i - Len(both)]
        BY <3>3, <3>4, ConcatProperties
      <4> HIDE DEF all
      <4> QED BY <3>3, <3>4, <4>1
    <3>6. stack = all
      BY DEF both, one, step
    <3> HIDE DEF all, one, stack, L, R
    <3>7. L \in Nat /\ L >= 1 /\ R \in Nat /\ R >= 2
      BY <1>2, <2>4
    <3>8. Len(stack) = L + R - 1 /\ (L + 1) + (R - 2) = L + R - 1
      <4>1. (L + 1) + (R - 2) = L + R - 1
        BY <3>7
      <4> QED BY <3>5, <3>6, <4>1
    <3>9. \A i \in 1 .. L : stack[i] = way[i]
      BY <3>3, <3>5, <3>6, <3>7
    <3>10. stack[L + 1] = step
      BY <3>2, <3>3, <3>5, <3>6, <3>7
    <3>11. ASSUME NEW i \in L + 2 .. Len(stack) PROVE stack[i] = right[i - L]
      <4>1. i \in 1 .. (L + 1) + (R - 2) /\ ~ (i <= L + 1) /\ i - (L + 1) \in 1 .. R - 2 /\ (i - (L + 1)) + 1 = i - L
        BY <3>7, <3>8
      <4> QED BY <3>4, <3>5, <3>6, <4>1
    <3> QED BY <3>5, <3>6, <3>8, <3>9, <3>10, <3>11 DEF GivenStack, step, L, R
  <2>8. PICK new : /\ out = [link |-> new, balance |-> after, stack |-> stack]
                   /\ LinkType(new) /\ LinksSwapped(av_link, new, p, s, above, hole)
    <3>1. CASE s = r
      <4> DEFINE new == Hung([av_link EXCEPT ![r][0] = av_link[p][0]], above, r)
      <4>1. LinkType(new) /\ LinksSwapped(av_link, new, p, r, above, Step(r, 1))
        BY <1>1, <1>2, <2>1, <2>5, <3>1, LinksOfChild
      <4>2. out = [link |-> new, balance |-> [av_balance EXCEPT ![r] = av_balance[p]], stack |-> Append(way, Step(r, 1))]
        BY <1>8, <3>1 DEF Unlinked, right
      <4>3. stack = Append(way, Step(r, 1))
        <5>1. rest = <<>>
          <6>1. R = 2
            BY <2>4, <3>1
          <6>2. 2 \in Int /\ R - 1 \in Int /\ R - 1 < 2
            BY <6>1
          <6> HIDE DEF R
          <6> QED BY <6>2, SubSeqEmpty
        <5>2. Step(r, 1) \in Steps
          BY <1>1, <2>5, <3>1, StepIs
        <5> DEFINE step == Step(r, 1)
                   both == way \o <<step>>
        <5> HIDE DEF step
        <5>3. both \in Seq(Steps) /\ both = Append(way, step)
          BY <1>4, <5>2 DEF step
        <5> HIDE DEF both
        <5>4. both \o <<>> = both
          BY <5>3, ConcatEmptySeq
        <5> QED BY <3>1, <5>1, <5>3, <5>4 DEF both, step
      <4> HIDE DEF new, stack, above, out
      <4> QED BY <3>1, <4>1, <4>2, <4>3
    <3>2. CASE s # r
      <4> DEFINE q == right[R - 1].node
                 new == Hung([av_link EXCEPT ![s] = av_link[p], ![q][0] = av_link[s][1]], above, s)
      <4>1. R > 2 /\ R - 1 \in 2 .. R /\ R - 1 \in 1 .. R /\ R \in 1 .. R /\ R - 1 # R
        <5>1. R \in Nat /\ R >= 2 /\ R # 2
          BY <2>4, <3>2
        <5> HIDE DEF R
        <5> QED BY <5>1
      <4>2. q \in N /\ q # s /\ right[R - 1] = Step(q, 0) /\ hole = right[R - 1] /\ q \in T[r]
        BY <2>2, <2>4, <3>2, <4>1
      <4>3. above # Step(q, 0)
        <5>1. T[r] \subseteq T[p]
          <6>1. Nested(av_link, N, T)
            BY NestedIs
          <6> QED BY <1>1, <6>1 DEF Nested
        <5> QED BY <1>3, <4>2, <5>1, StepIs
      <4>4. out = [link |-> new, balance |-> after, stack |-> stack]
        BY <1>8, <3>2 DEF Unlinked, right
      <4> HIDE DEF q, s, above
      <4>5. LinkType(new) /\ LinksSwapped(av_link, new, p, s, above, Step(q, 0))
        <5>1. LinkType(av_link) /\ p \in AvlNodes /\ s \in AvlNodes /\ q \in AvlNodes /\ q # s /\ above \in Steps
          BY <1>1, <1>2, <2>5, <4>2 DEF Shaped
        <5> QED BY <4>3, <5>1, LinksOfLeast
      <4> HIDE DEF new, stack, out, hole
      <4> QED BY <4>2, <4>4, <4>5
    <3> QED BY <3>1, <3>2
  <2> HIDE DEF stack, above, hole, s
  <2>9. \E U, Q : Shaped(new, M, U, Q)
    BY <1>5, <2>6, <2>8, SwapShaped
  <2>10. \E g : Balanced(new, after, M, g, hole)
    BY <2>6, <2>8, SwapLevelled
  <2>11. IsWay(new, M, stack) /\ Last(stack) = hole /\ stack[1] = way[1]
    <3>1. s = right[Len(right)].node
      BY <2>4
    <3>2. GivenLeast(av_link, N, T, P, way, p, right, s, above, hole, stack)
      BY <1>2, <2>3, <2>6, <2>7, <3>1 DEF GivenLeast
    <3>3. LinksSwapped(av_link, new, p, s, above, hole)
      BY <2>8
    <3> HIDE DEF M
    <3>4. IsWay(new, N \ {p}, stack) /\ Last(stack) = hole /\ stack[1] = way[1]
      BY <1>5, <3>2, <3>3, SwapWay
    <3> QED BY <3>4 DEF M
  <2>12. BalanceType(after)
    BY <1>1 DEF BalanceType
  <2>13. Vacant(new, N)
    <3> SUFFICES ASSUME NEW n \in AvlNodes \ N, NEW d \in Sides PROVE new[n][d] = NULLNODE
      BY DEF Vacant
    <3>1. n \in Parents /\ n # above.node /\ n # s
      BY <1>2, <2>5, NumbersOf DEF Parents
    <3>2. hole.node \in N
      BY <1>5, <2>6, SwapFacts
    <3>3. Step(n, d) # above /\ Step(n, d) # hole /\ av_link[n][d] = NULLNODE
      BY <3>1, <3>2, StepIs DEF Vacant
    <3> QED BY <2>8, <3>1, <3>3 DEF LinksSwapped
  <2>14. Lowered(new, after, M, hole)
    BY <2>8, <2>9, <2>10, <2>12 DEF Lowered
  <2> HIDE DEF after
  <2> QED BY <2>8, <2>11, <2>13, <2>14
<1> QED BY <1>7, <1>8

-----------------------------------------------------------------------------
(* The way back over the stack.  The subtree of entry k is lower than its  *)
(* node knows.                                                             *)
Leading(link, M, stack, k) ==
  /\ stack \in Seq(Steps) /\ k \in 1 .. Len(stack) /\ stack[1] = TopStep
  /\ \A j \in 2 .. k : stack[j].node \in M /\ Goes(link, stack, j - 1) = stack[j].node

Prefix(link, M, stack, k, w) == IsWay(link, M, w) /\ Len(w) = k /\ \A j \in 1 .. k : w[j] = stack[j]

Stepping(M, stack, k) ==
  /\ k \in Nat \ {0}
  /\ \A j \in 1 .. k : /\ stack[j] \in Steps /\ stack[j].node \in M \cup {Anchor} /\ stack[j].side \in Sides
                       /\ stack[j] = Step(stack[j].node, stack[j].side)

LEMMA LeadingIs ==
  ASSUME NEW link, NEW M, M \subseteq AvlNodes, NEW stack, NEW k, Leading(link, M, stack, k)
  PROVE  /\ \E w : Prefix(link, M, stack, k, w)
         /\ Stepping(M, stack, k)
<1> USE DEF Leading, Stepping
<1> DEFINE w == SubSeq(stack, 1, k)
<1>1. Len(stack) \in Nat /\ k \in Nat \ {0} /\ k \in 0 .. Len(stack)
  OBVIOUS
<1>2. w \in Seq(Steps) /\ Len(w) = k /\ \A j \in 1 .. k : w[j] = stack[j]
  BY <1>1, PrefixIs
<1> HIDE DEF w
<1>3. ASSUME NEW j \in 2 .. k PROVE w[j].node \in M /\ Goes(link, w, j - 1) = w[j].node
  <2>1. j \in 1 .. k /\ j - 1 \in 1 .. k
    BY <1>1
  <2> QED BY <1>2, <2>1 DEF Goes
<1>4. w[1].node \in M \cup {Anchor}
  BY <1>1, <1>2, StepIs DEF TopStep
<1>5. IsWay(link, M, w)
  BY <1>1, <1>2, <1>3, <1>4 DEF IsWay
<1>6. \A j \in 1 .. k : /\ w[j] \in Steps /\ w[j].node \in M \cup {Anchor} /\ w[j].side \in Sides
                        /\ w[j] = Step(w[j].node, w[j].side)
  BY SMTT(30), <1>2, <1>5, StepsOf
<1>7. Prefix(link, M, stack, k, w)
  BY <1>2, <1>5 DEF Prefix
<1> QED BY <1>1, <1>2, <1>6, <1>7

GivenLower(link, balance, M, g, stack, k) ==
  /\ k >= 2 /\ Leading(link, M, stack, k)
  /\ LinkType(link) /\ BalanceType(balance) /\ Balanced(link, balance, M, g, stack[k])

(* What is known of y, the node of entry k; hl is the height on the side   *)
(* that is lower now, hh that on the other.                                *)
AtLower(link, balance, M, U, g, stack, k, y, high, z) ==
  LET hl == g[link[y][1 - high]]
      hh == g[link[y][high]]
  IN  /\ y \in M /\ high \in Sides /\ z \in Steps /\ z.node \in M \cup {Anchor} /\ link[z.node][z.side] = y
      /\ hl \in Nat /\ hh \in Nat /\ g[y] \in Nat /\ k - 1 \in 1 .. k /\ z = Step(z.node, z.side)
      /\ \/ balance[y] = 0 /\ hh = hl + 1 /\ g[y] = 1 + hh
         \/ balance[y] = Sign(high) /\ hh = hl + 2 /\ g[y] = 1 + hh
         \/ balance[y] = -Sign(high) /\ hh = hl /\ g[y] = 2 + hh
      /\ ElseLevelled(link, balance, M, g, y)
      /\ \A j \in 1 .. k - 1 : stack[j].node \notin U[y]
      /\ \A j \in 1 .. k - 2 : stack[j] # z

LEMMA LowerFacts ==
  ASSUME NEW link, NEW M, NEW U, NEW Q, Shaped(link, M, U, Q),
         NEW balance, NEW g, NEW stack, NEW k, GivenLower(link, balance, M, g, stack, k)
  PROVE  AtLower(link, balance, M, U, g, stack, k, stack[k].node, 1 - stack[k].side, stack[k - 1])
<1> USE DEF GivenLower
<1> DEFINE y == stack[k].node
           d == stack[k].side
           high == 1 - d
           z == stack[k - 1]
           hl == g[link[y][1 - high]]
           hh == g[link[y][high]]
<1>1. M \subseteq AvlNodes /\ M \subseteq Places
  BY DEF Shaped, Places
<1>0. Leading(link, M, stack, k)
  OBVIOUS
<1>13. PICK w : Prefix(link, M, stack, k, w)
  BY <1>0, <1>1, LeadingIs
<1>14. IsWay(link, M, w) /\ Len(w) = k /\ \A j \in 1 .. k : w[j] = stack[j]
  BY <1>13 DEF Prefix
<1>2. /\ k \in Nat \ {0}
      /\ \A j \in 1 .. k : /\ stack[j] \in Steps /\ stack[j].node \in M \cup {Anchor} /\ stack[j].side \in Sides
                           /\ stack[j] = Step(stack[j].node, stack[j].side)
  <2>1. Stepping(M, stack, k)
    BY <1>0, <1>1, LeadingIs
  <2> QED BY <2>1 DEF Stepping
<1>3. k \in 2 .. k /\ k \in 1 .. k /\ k - 1 \in 1 .. k /\ k - 1 < k
  BY <1>2
<1>4. y \in M /\ Goes(link, stack, k - 1) = y
  BY <1>3 DEF Leading
<1>5. d \in Sides /\ high \in Sides /\ 1 - high = d /\ stack[k] = Step(y, d) /\ d # high
      /\ z \in Steps /\ z.node \in M \cup {Anchor} /\ z = Step(z.node, z.side) /\ link[z.node][z.side] = y
  <2>1. d \in Sides /\ stack[k] = Step(y, d) /\ z \in Steps /\ z.node \in M \cup {Anchor} /\ z = Step(z.node, z.side)
    BY <1>2, <1>3
  <2>2. high \in Sides /\ 1 - high = d /\ d # high
    BY <2>1, NumbersOf
  <2> QED BY <1>4, <2>1, <2>2 DEF Goes
<1>6. /\ g \in [Places -> Nat] /\ g[NULLNODE] = 0
      /\ \A m \in M : Levelled(balance[m], Known(link, g, stack[k], m, 0), Known(link, g, stack[k], m, 1), g[m])
  BY DEF Balanced
<1>7. hl \in Nat /\ hh \in Nat /\ g[y] \in Nat
  <2>1. link[y][d] \in Places /\ link[y][high] \in Places /\ y \in Places
    BY <1>1, <1>4, <1>5 DEF Shaped, Places
  <2> QED BY <1>5, <1>6, <2>1
<1>8. /\ Known(link, g, stack[k], y, d) = hl + 1 /\ Known(link, g, stack[k], y, high) = hh
  <2>1. stack[k] # Step(y, high)
    BY <1>5, StepIs
  <2> QED BY <1>5, <1>7, <2>1 DEF Known
<1>9. \/ balance[y] = 0 /\ hh = hl + 1 /\ g[y] = 1 + hh
      \/ balance[y] = Sign(high) /\ hh = hl + 2 /\ g[y] = 1 + hh
      \/ balance[y] = -Sign(high) /\ hh = hl /\ g[y] = 2 + hh
  <2> DEFINE near == hh
             far == hl + 1
             b == balance[y]
             height == g[y]
             l == Known(link, g, stack[k], y, 0)
             rr == Known(link, g, stack[k], y, 1)
  <2>1. Levelled(b, l, rr, height)
    BY <1>4, <1>6
  <2>2. (high = 0 => l = near /\ rr = far) /\ (high = 1 => l = far /\ rr = near)
    BY <1>5, <1>8
  <2>3. near \in Int /\ far \in Int /\ high \in Sides
    BY <1>5, <1>7
  <2> HIDE DEF near, far, l, rr, b, height, high, y
  <2>4. \/ b = 0 /\ near = far /\ height = 1 + near
        \/ b = Sign(high) /\ near = far + 1 /\ height = 1 + near
        \/ b = -Sign(high) /\ far = near + 1 /\ height = 1 + far
    BY <2>1, <2>2, <2>3, LevelOf
  <2>5. near = hh /\ far = hl + 1 /\ b = balance[y] /\ height = g[y]
    BY DEF near, far, b, height
  <2> HIDE DEF hh, hl
  <2> QED BY <1>7, <2>4, <2>5
<1>10. ElseLevelled(link, balance, M, g, y)
  <2> SUFFICES ASSUME NEW m \in M, m # y PROVE Levelled(balance[m], g[link[m][0]], g[link[m][1]], g[m])
    BY <1>6 DEF ElseLevelled
  <2>1. \A e \in Sides : stack[k] # Step(m, e)
    BY <1>5, StepIs
  <2>2. \A e \in Sides : g[link[m][e]] \in Nat
    BY <1>1, <1>6 DEF Shaped, Places
  <2>3. \A e \in Sides : Known(link, g, stack[k], m, e) = g[link[m][e]]
    BY <2>1, <2>2 DEF Known
  <2>4. 0 \in Sides /\ 1 \in Sides
    BY DEF Sides
  <2> QED BY <1>6, <2>3, <2>4
<1>11. ASSUME NEW j \in 1 .. k - 1 PROVE stack[j].node \notin U[y]
  <2>1. j \in 1 .. Len(w) /\ k \in 1 .. Len(w) /\ j < k /\ j \in 1 .. k
    BY <1>2, <1>3, <1>14
  <2>2. w[j].node \notin U[w[k].node]
    BY <1>2, <1>14, <2>1, WayNested
  <2> QED BY <1>2, <1>3, <1>14, <2>1, <2>2
<1>12. ASSUME NEW j \in 1 .. k - 2 PROVE stack[j] # z
  <2>1. j \in 1 .. Len(w) /\ k - 1 \in 1 .. Len(w) /\ j < k - 1 /\ j \in 1 .. k
    BY <1>2, <1>3, <1>14
  <2>2. w[j].node # w[k - 1].node
    BY <1>2, <1>14, <2>1, WayNested
  <2> QED BY <1>2, <1>3, <1>14, <2>1, <2>2
<1> QED BY <1>3, <1>4, <1>5, <1>7, <1>9, <1>10, <1>11, <1>12 DEF AtLower

(* One step up: either the tree is right again, or what is wrong is one    *)
(* entry higher.                                                           *)
LEMMA LowerNode ==
  ASSUME NEW link, NEW M, NEW U, NEW Q, Shaped(link, M, U, Q),
         NEW balance, NEW g, NEW y \in M, ElseLevelled(link, balance, M, g, y),
         NEW z \in Steps, z.node \in M \cup {Anchor}, link[z.node][z.side] = y,
         NEW hh \in Nat, g[link[y][0]] = hh, g[link[y][1]] = hh, g[y] = 2 + hh,
         NEW now, now[y] = 0, \A m \in M : m # y => now[m] = balance[m]
  PROVE  \E f : Balanced(link, now, M, f, z)
<1> DEFINE f == [g EXCEPT ![y] = hh + 1]
<1>1. M \subseteq AvlNodes /\ M \subseteq Places /\ NULLNODE \notin M /\ 0 \in Sides /\ 1 \in Sides /\ Nested(link, M, U)
  <2>0. M \subseteq AvlNodes
    BY DEF Shaped
  <2>1. M \subseteq AvlNodes /\ Nested(link, M, U)
    BY <2>0, NestedIs
  <2>2. NULLNODE \notin M
    BY <2>1, NumbersOf
  <2> QED BY <2>1, <2>2 DEF Places, Sides
<1>2. g \in [Places -> Nat] /\ g[NULLNODE] = 0 /\ \A m \in M : m # y => Levelled(balance[m], g[link[m][0]], g[link[m][1]], g[m])
  BY DEF ElseLevelled
<1>3. f \in [Places -> Nat] /\ f[y] = hh + 1 /\ (\A n \in Places : n # y => f[n] = g[n]) /\ f[NULLNODE] = 0
  <2>1. y \in Places /\ hh + 1 \in Nat /\ NULLNODE \in Places /\ NULLNODE # y
    BY <1>1 DEF Places
  <2> QED BY <1>2, <2>1
<1> HIDE DEF f
<1>4. z.side \in Sides /\ z = Step(z.node, z.side) /\ Q[y] = z
  <2>1. z.side \in Sides /\ z = Step(z.node, z.side)
    BY DEF Steps, Step
  <2> QED BY <1>1, <2>1 DEF Shaped
<1>5. ASSUME NEW m \in M, NEW e \in Sides PROVE Known(link, f, z, m, e) = g[link[m][e]]
  <2>1. link[m][e] \in Places /\ (link[m][e] # NULLNODE => Q[link[m][e]] = Step(m, e))
    BY <1>1 DEF Shaped, Places
  <2>2. CASE z = Step(m, e)
    <3>1. link[m][e] = y
      BY <2>2, StepIs
    <3> QED BY <1>3, <2>2, <3>1 DEF Known
  <2>3. CASE z # Step(m, e)
    <3>1. link[m][e] # y
      BY <1>1, <1>4, <2>1, <2>3
    <3>2. f[link[m][e]] = g[link[m][e]] /\ g[link[m][e]] \in Nat
      BY <1>2, <1>3, <2>1, <3>1
    <3> QED BY <2>3, <3>2 DEF Known
  <2> QED BY <2>2, <2>3
<1>6. ASSUME NEW m \in M PROVE Levelled(now[m], Known(link, f, z, m, 0), Known(link, f, z, m, 1), f[m])
  <2>1. CASE m = y
    <3>1. Known(link, f, z, m, 0) = hh /\ Known(link, f, z, m, 1) = hh
      BY <1>1, <1>5, <2>1
    <3> QED BY <1>3, <2>1, <3>1 DEF Levelled
  <2>2. CASE m # y
    BY <1>1, <1>2, <1>3, <1>5, <2>2
  <2> QED BY <2>1, <2>2
<1>7. Balanced(link, now, M, f, z)
  BY <1>3, <1>6 DEF Balanced
<1> QED BY <1>7

Holds(tree, M, N, stack, k) ==
  /\ LinkType(tree.link) /\ BalanceType(tree.balance) /\ Vacant(tree.link, N)
  /\ \E U, Q : Shaped(tree.link, M, U, Q)
  /\ \E g : Balanced(tree.link, tree.balance, M, g, IF tree.lower THEN stack[k] ELSE TopStep)
  /\ tree.lower => Leading(tree.link, M, stack, k)

Turned(t, r, z) ==
  t.link = Hung(r.link, z, r.top) /\ t.balance = r.balance /\ (t.lower <=> ~ r.even)

LEMMA TurnedIs ==
  ASSUME NEW link, NEW M, NEW U, NEW Q, Shaped(link, M, U, Q), NEW N, M \subseteq N, N \subseteq AvlNodes, Vacant(link, N),
         NEW balance, NEW g, NEW stack, NEW k, GivenLower(link, balance, M, g, stack, k),
         NEW y, NEW high, NEW z, AtLower(link, balance, M, U, g, stack, k, y, high, z), stack[k - 1] = z,
         balance[y] = Sign(high),
         NEW now, now = [balance EXCEPT ![y] = balance[y] + Sign(high)],
         NEW r, r = Rotation(link, now, y, high), NEW t, Turned(t, r, z)
  PROVE  Holds(t, M, N, stack, k - 1)
<1> DEFINE x == link[y][high]
           hl == g[link[y][1 - high]]
           hh == g[link[y][high]]
           low == IF ~ r.even THEN z ELSE TopStep
           new == Hung(r.link, z, r.top)
<1>1. /\ y \in M /\ high \in Sides /\ z \in Steps /\ z.node \in M \cup {Anchor} /\ link[z.node][z.side] = y
      /\ hl \in Nat /\ hh \in Nat /\ g[y] \in Nat /\ k - 1 \in 1 .. k
      /\ \/ balance[y] = 0 /\ hh = hl + 1 /\ g[y] = 1 + hh
         \/ balance[y] = Sign(high) /\ hh = hl + 2 /\ g[y] = 1 + hh
         \/ balance[y] = -Sign(high) /\ hh = hl /\ g[y] = 2 + hh
      /\ ElseLevelled(link, balance, M, g, y)
      /\ \A j \in 1 .. k - 1 : stack[j].node \notin U[y]
      /\ \A j \in 1 .. k - 2 : stack[j] # z
  BY DEF AtLower
<1>2. LinkType(link) /\ BalanceType(balance) /\ Leading(link, M, stack, k) /\ k >= 2 /\ M \subseteq AvlNodes /\ k \in Nat
  BY DEF GivenLower, Leading, Shaped
<1>3. hh = hl + 2 /\ g[y] = 1 + hh
  <2>1. Sign(high) \in {-1, 1}
    BY <1>1, NumbersOf
  <2> HIDE DEF hh, hl
  <2> QED BY <1>1, <2>1
<1>4. BalanceType(now) /\ now[y] = balance[y] + Sign(high) /\ \A m \in AvlNodes : m # y => now[m] = balance[m]
  <2>1. Sign(high) \in Int
    <3>1. high \in Sides
      BY <1>1
    <3>2. Sign(high) \in {-1, 1}
      BY <3>1, NumbersOf
    <3> QED BY <3>2
  <2>2. y \in AvlNodes
    BY <1>1, <1>2
  <2> QED BY <1>2, <2>1, <2>2 DEF BalanceType
<1>5. ElseLevelled(link, now, M, g, y)
  BY <1>1, <1>2, <1>4 DEF ElseLevelled
<1>6. FitsAbove(g, y, z, low, IF r.even THEN hh + 1 ELSE hh)
  <2> HIDE DEF hh, hl
  <2>1. CASE r.even
    BY <1>1, <1>3, <2>1 DEF FitsAbove
  <2>2. CASE ~ r.even
    BY <1>1, <1>3, <2>2 DEF FitsAbove
  <2> QED BY <2>1, <2>2
<1>7. GivenRotation(link, M, now, g, r, low, y, z, high)
  BY <1>3, <1>5, <1>6 DEF GivenRotation
<1>14. z \in Steps /\ z.node \in M \cup {Anchor} /\ link[z.node][z.side] = y /\ y \in M /\ high \in Sides
  BY <1>1
<1> HIDE DEF low
<1>8. /\ LinkType(new) /\ BalanceType(r.balance)
      /\ \E V, R : Shaped(new, M, V, R)
      /\ \E f : Balanced(new, r.balance, M, f, low)
      /\ \A m \in Parents : m \notin U[y] => \A e \in Sides :
           new[m][e] = IF Step(m, e) = z THEN r.top ELSE link[m][e]
  <2> HIDE DEF x, hl, hh
  <2>1. /\ LinkType(Hung(r.link, z, r.top)) /\ BalanceType(r.balance)
        /\ \E V, R : Shaped(Hung(r.link, z, r.top), M, V, R)
        /\ \E f : Balanced(Hung(r.link, z, r.top), r.balance, M, f, low)
        /\ \A m \in Parents : m \notin U[y] => \A e \in Sides :
             Hung(r.link, z, r.top)[m][e] = IF Step(m, e) = z THEN r.top ELSE link[m][e]
    <3>1. LinkType(link) /\ BalanceType(now)
      BY <1>2, <1>4
    <3>2. IsRotated(link, M, U, r, low, y, z)
      BY <1>7, <1>14, <3>1, RotatedIs
    <3> QED BY <3>2 DEF IsRotated
  <2> QED BY <2>1
<1> HIDE DEF new
<1>9. Vacant(new, N)
  <2> SUFFICES ASSUME NEW n \in AvlNodes \ N, NEW d \in Sides PROVE new[n][d] = NULLNODE
    BY DEF Vacant
  <2>1. n \in Parents /\ n # Anchor /\ n \notin M /\ U[y] \subseteq M
    BY <1>1, NumbersOf DEF Parents, Shaped
  <2>2. Step(n, d) # z
    BY <1>14, <2>1, StepIs
  <2> QED BY <1>8, <2>1, <2>2 DEF Vacant
<1>10. Leading(new, M, stack, k - 1)
  <2> SUFFICES ASSUME NEW j \in 2 .. k - 1 PROVE stack[j].node \in M /\ Goes(new, stack, j - 1) = stack[j].node
    <3>1. k - 1 \in 1 .. Len(stack)
      BY <1>2 DEF Leading
    <3> QED BY <1>2, <3>1 DEF Leading
  <2>1. j \in 2 .. k /\ j - 1 \in 1 .. k - 2 /\ j - 1 \in 1 .. k - 1 /\ j - 1 \in 1 .. k
    BY <1>2
  <2> DEFINE step == stack[j - 1]
  <2>2. step \in Steps /\ step.node \in M \cup {Anchor} /\ step.side \in Sides /\ step = Step(step.node, step.side)
    <3>1. Stepping(M, stack, k)
      BY <1>2, LeadingIs
    <3> QED BY <2>1, <3>1 DEF Stepping
  <2>3. step # z /\ step.node \notin U[y]
    BY <1>1, <2>1
  <2>4. stack[j].node \in M /\ link[step.node][step.side] = stack[j].node
    BY <1>2, <2>1 DEF Leading, Goes
  <2>5. Goes(new, stack, j - 1) = new[step.node][step.side]
    BY DEF Goes
  <2> HIDE DEF step
  <2>6. step.node \in Parents
    BY <1>2, <2>2 DEF Parents
  <2>7. new[step.node][step.side] = link[step.node][step.side]
    BY <1>8, <2>2, <2>3, <2>6
  <2> QED BY <2>4, <2>5, <2>7
<1>11. t.link = new /\ t.balance = r.balance /\ (t.lower <=> ~ r.even)
  BY DEF Turned, new
<1>12. (IF t.lower THEN z ELSE TopStep) = low
  BY <1>11 DEF low
<1> QED BY <1>8, <1>9, <1>10, <1>11, <1>12 DEF Holds

LEMMA RebalancedIs ==
  ASSUME NEW M, NEW N, M \subseteq N, N \subseteq AvlNodes, NEW stack, NEW k, k >= 2,
         NEW tree, tree.lower, Holds(tree, M, N, stack, k)
  PROVE  Holds(Rebalanced(tree, stack, k), M, N, stack, k - 1)
<1> DEFINE link == tree.link
           balance == tree.balance
           y == stack[k].node
           high == 1 - stack[k].side
           z == stack[k - 1]
           now == [balance EXCEPT ![y] = balance[y] + Sign(high)]
           r == Rotation(link, now, y, high)
           out == Rebalanced(tree, stack, k)
<1>1. LinkType(link) /\ BalanceType(balance) /\ Vacant(link, N) /\ Leading(link, M, stack, k)
  BY DEF Holds
<1>2. PICK U, Q, g : Shaped(link, M, U, Q) /\ Balanced(link, balance, M, g, stack[k])
  BY DEF Holds
<1>3. GivenLower(link, balance, M, g, stack, k)
  BY <1>1, <1>2 DEF GivenLower
<1> DEFINE hl == g[link[y][1 - high]]
           hh == g[link[y][high]]
<1>0. AtLower(link, balance, M, U, g, stack, k, y, high, z)
  BY <1>2, <1>3, LowerFacts
<1>4. /\ y \in M /\ high \in Sides /\ z \in Steps /\ z.node \in M \cup {Anchor} /\ link[z.node][z.side] = y
      /\ hl \in Nat /\ hh \in Nat /\ g[y] \in Nat /\ k - 1 \in 1 .. k
      /\ \/ balance[y] = 0 /\ hh = hl + 1 /\ g[y] = 1 + hh
         \/ balance[y] = Sign(high) /\ hh = hl + 2 /\ g[y] = 1 + hh
         \/ balance[y] = -Sign(high) /\ hh = hl /\ g[y] = 2 + hh
      /\ ElseLevelled(link, balance, M, g, y)
  BY <1>0 DEF AtLower
<1>5. Sign(high) \in {-1, 1} /\ M \subseteq AvlNodes /\ k \in Nat /\ 1 - high \in Sides
  <2>1. high \in Sides
    BY <1>4
  <2> HIDE DEF high
  <2>2. Sign(high) \in {-1, 1} /\ 1 - high \in Sides
    BY <2>1, NumbersOf
  <2> QED BY <1>1, <2>2 DEF Leading
<1>6. BalanceType(now) /\ now[y] = balance[y] + Sign(high) /\ \A m \in AvlNodes : m # y => now[m] = balance[m]
  <2>1. Sign(high) \in Int
    BY <1>5
  <2>2. y \in AvlNodes /\ now = [balance EXCEPT ![y] = balance[y] + Sign(high)]
    BY <1>4, <1>5
  <2> HIDE DEF high, y, now, balance
  <2> QED BY <1>1, <2>1, <2>2 DEF BalanceType
<1>7. out = CASE now[y] = Sign(high) -> [link |-> link, balance |-> now, lower |-> FALSE]
              [] now[y] = 2 * Sign(high) -> [link |-> Hung(r.link, z, r.top), balance |-> r.balance, lower |-> ~ r.even]
              [] OTHER -> [link |-> link, balance |-> now, lower |-> TRUE]
  BY DEF Rebalanced
<1> HIDE DEF out, link, balance
<1>8. CASE balance[y] = Sign(high)
  <2>1. out = [link |-> Hung(r.link, z, r.top), balance |-> r.balance, lower |-> ~ r.even]
    <3>1. now[y] # Sign(high) /\ now[y] = 2 * Sign(high)
      BY <1>5, <1>6, <1>8
    <3> HIDE DEF now, r, z, y, high
    <3> QED BY <1>7, <3>1
  <2>2. now = [balance EXCEPT ![y] = balance[y] + Sign(high)] /\ r = Rotation(link, now, y, high) /\ stack[k - 1] = z
    OBVIOUS
  <2> HIDE DEF now, r, y, high, z
  <2>3. Turned(out, r, z)
    BY <2>1 DEF Turned
  <2>4. Holds(out, M, N, stack, k - 1)
    BY <1>0, <1>1, <1>2, <1>3, <1>8, <2>2, <2>3, TurnedIs
  <2> QED BY <2>4 DEF out
<1>9. CASE balance[y] = 0
  <2>1. hh = hl + 1 /\ g[y] = 1 + hh
    <3> HIDE DEF hh, hl
    <3> QED BY <1>4, <1>5, <1>9
  <2>2. now[y] = Sign(high)
    BY <1>5, <1>6, <1>9
  <2>3. out = [link |-> link, balance |-> now, lower |-> FALSE]
    <3>1. now[y] = Sign(high) /\ Sign(high) # 2 * Sign(high)
      BY <1>5, <2>2
    <3> HIDE DEF now, r, z, y, high
    <3> QED BY <1>7, <3>1
  <2>4. Levelled(now[y], g[link[y][0]], g[link[y][1]], g[y])
    <3> DEFINE b == now[y]
               height == g[y]
               l == g[link[y][0]]
               rr == g[link[y][1]]
    <3>1. (high = 0 => l = hh /\ rr = hl) /\ (high = 1 => l = hl /\ rr = hh)
      OBVIOUS
    <3>2. b = Sign(high) /\ height = 1 + hh /\ hh \in Int /\ hl \in Int /\ high \in Sides
      BY SMTT(30), <1>4, <2>1, <2>2
    <3> HIDE DEF b, height, l, rr, hh, hl, high
    <3>3. Levelled(b, l, rr, height)
      BY <2>1, <3>1, <3>2, LevelOf
    <3> QED BY <3>3 DEF b, l, rr, height
  <2>5. ElseLevelled(link, now, M, g, y)
    BY <1>4, <1>5, <1>6 DEF ElseLevelled
  <2> HIDE DEF now, y
  <2>6. Balanced(link, now, M, g, TopStep)
    BY <1>2, <2>4, <2>5, ElseIsBalanced
  <2>7. out.link = link /\ out.balance = now /\ ~ out.lower
    BY <2>3
  <2>8. Holds(out, M, N, stack, k - 1)
    BY <1>1, <1>2, <1>6, <2>6, <2>7 DEF Holds
  <2> QED BY <2>8 DEF out
<1>10. CASE balance[y] = -Sign(high)
  <2>1. hh = hl /\ g[y] = 2 + hh
    <3> HIDE DEF hh, hl
    <3> QED BY <1>4, <1>5, <1>10
  <2>2. now[y] = 0
    BY <1>5, <1>6, <1>10
  <2>3. out = [link |-> link, balance |-> now, lower |-> TRUE]
    <3>1. now[y] # Sign(high) /\ now[y] # 2 * Sign(high)
      BY <1>5, <2>2
    <3> HIDE DEF now, r, z, y, high
    <3> QED BY <1>7, <3>1
  <2>4. g[link[y][0]] = hh /\ g[link[y][1]] = hh
    <3>1. high = 0 \/ high = 1
      BY <1>4 DEF Sides
    <3> QED BY <2>1, <3>1
  <2> HIDE DEF now, y, hh, z
  <2>5. \A m \in M : m # y => now[m] = balance[m]
    BY <1>5, <1>6
  <2>6. \E f : Balanced(link, now, M, f, z)
    <3>1. Shaped(link, M, U, Q) /\ ElseLevelled(link, balance, M, g, y)
      BY <1>2, <1>4
    <3>2. y \in M /\ z \in Steps /\ z.node \in M \cup {Anchor} /\ link[z.node][z.side] = y
      BY <1>4
    <3>3. hh \in Nat /\ g[y] = 2 + hh
      BY <1>4, <2>1
    <3> QED BY <2>2, <2>4, <2>5, <3>1, <3>2, <3>3, LowerNode
  <2>7. Leading(link, M, stack, k - 1)
    BY <1>1, <1>4, <1>5 DEF Leading
  <2>8. out.link = link /\ out.balance = now /\ out.lower /\ stack[k - 1] = z
    BY <2>3 DEF z
  <2>9. Holds(out, M, N, stack, k - 1)
    BY <1>1, <1>2, <1>6, <2>6, <2>7, <2>8 DEF Holds
  <2> QED BY <2>9 DEF out
<1> QED BY <1>4, <1>8, <1>9, <1>10

TreeStates == [link : [Parents -> [Sides -> Places]], balance : [AvlNodes -> Int], lower : BOOLEAN]

LEMMA RebalancedType ==
  ASSUME NEW stack, NEW k, NEW tree,
         LinkType(Rebalanced(tree, stack, k).link), BalanceType(Rebalanced(tree, stack, k).balance)
  PROVE  Rebalanced(tree, stack, k) \in TreeStates
<1> DEFINE y == stack[k].node
           high == 1 - stack[k].side
           now == [tree.balance EXCEPT ![y] = @ + Sign(high)]
           r == Rotation(tree.link, now, y, high)
           out == Rebalanced(tree, stack, k)
<1>1. out = CASE now[y] = Sign(high) -> [link |-> tree.link, balance |-> now, lower |-> FALSE]
              [] now[y] = 2 * Sign(high) -> [link |-> Hung(r.link, stack[k - 1], r.top), balance |-> r.balance, lower |-> ~ r.even]
              [] OTHER -> [link |-> tree.link, balance |-> now, lower |-> TRUE]
  BY DEF Rebalanced
<1>2. LinkType(out.link) /\ BalanceType(out.balance)
  OBVIOUS
<1> HIDE DEF out, now, r, y, high
<1>3. \E l, b, e : e \in BOOLEAN /\ out = [link |-> l, balance |-> b, lower |-> e]
  <2>1. CASE now[y] = Sign(high)
    <3>1. Sign(high) # 2 * Sign(high)
      BY DEF Sign
    <3> QED BY <1>1, <2>1, <3>1
  <2>2. CASE now[y] # Sign(high) /\ now[y] = 2 * Sign(high)
    <3>1. out = [link |-> Hung(r.link, stack[k - 1], r.top), balance |-> r.balance, lower |-> ~ r.even]
      BY <1>1, <2>2
    <3>2. (~ r.even) \in BOOLEAN
      OBVIOUS
    <3> QED BY <3>1, <3>2
  <2>3. CASE now[y] # Sign(high) /\ now[y] # 2 * Sign(high)
    BY <1>1, <2>3
  <2> QED BY <2>1, <2>2, <2>3
<1>4. out \in TreeStates
  BY <1>2, <1>3 DEF TreeStates, LinkType, BalanceType
<1> QED BY <1>4 DEF out

LEMMA AllRebalancedIs ==
  ASSUME NEW M, NEW N, M \subseteq N, N \subseteq AvlNodes, NEW link, NEW balance, NEW stack,
         IsWay(link, M, stack), stack[1] = TopStep, Lowered(link, balance, M, Last(stack)), Vacant(link, N)
  PROVE  LET done == AllRebalanced(link, balance, stack)
         IN  Lowered(done.link, done.balance, M, TopStep) /\ Vacant(done.link, N)
<1> DEFINE K == Len(stack)
           start == [link |-> link, balance |-> balance, lower |-> TRUE]
           Onward(t, i) == IF t.lower THEN Rebalanced(t, stack, K + 1 - i) ELSE t
           next == [i \in Nat |-> [t \in TreeStates |-> IF Onward(t, i) \in TreeStates THEN Onward(t, i) ELSE t]]
<1>1. K \in Nat \ {0} /\ stack \in Seq(Steps) /\ Last(stack) = stack[K] /\ M \subseteq AvlNodes
  BY StepsOf DEF IsWay
<1>2. LinkType(link) /\ BalanceType(balance)
  BY DEF Lowered
<1>3. start \in TreeStates
  BY <1>2 DEF TreeStates, LinkType, BalanceType
<1>4. next \in [Nat -> [TreeStates -> TreeStates]]
  <2> HIDE DEF Onward
  <2> QED OBVIOUS
<1>5. Holds(start, M, N, stack, K)
  <2>1. start.link = link /\ start.balance = balance /\ start.lower
    OBVIOUS
  <2> HIDE DEF start
  <2>2. Leading(link, M, stack, K)
    BY <1>1 DEF IsWay, Leading
  <2> QED BY <1>1, <2>1, <2>2 DEF Holds, Lowered
<1> HIDE DEF next, start
<1>6. PICK v : Iterated(v, TreeStates, start, next)
  BY <1>3, <1>4, Iterates
<1> DEFINE A == {i \in Nat : i <= K - 1 => Holds(v[i], M, N, stack, K - i) /\ (i # 0 => v[i] = Onward(v[i - 1], i))}
<1>7. 0 \in A
  BY <1>1, <1>5, <1>6 DEF Iterated
<1>8. ASSUME NEW i \in 1 .. K, i - 1 \in A PROVE i \in A
  <2> SUFFICES ASSUME i <= K - 1 PROVE Holds(v[i], M, N, stack, K - i) /\ v[i] = Onward(v[i - 1], i)
    OBVIOUS
  <2> DEFINE t == v[i - 1]
             k == K - (i - 1)
  <2>1. i \in Nat /\ i # 0 /\ i - 1 \in Nat /\ i - 1 <= K - 1 /\ k >= 2 /\ k - 1 = K - i /\ K + 1 - i = k
    BY <1>1
  <2>2. Holds(t, M, N, stack, k)
    BY <1>8, <2>1
  <2>3. t \in TreeStates /\ v[i] = next[i][t]
    BY <1>6, <2>1 DEF Iterated
  <2>4. v[i] = IF Onward(t, i) \in TreeStates THEN Onward(t, i) ELSE t
    <3> HIDE DEF Onward, t
    <3> QED BY <2>1, <2>3 DEF next
  <2>5. Onward(t, i) = IF t.lower THEN Rebalanced(t, stack, k) ELSE t
    BY <2>1
  <2> HIDE DEF Onward, t, k
  <2>6. CASE t.lower
    <3> DEFINE u == Rebalanced(t, stack, k)
    <3>1. Holds(u, M, N, stack, k - 1)
      BY <2>1, <2>2, <2>6, RebalancedIs
    <3>2. u \in TreeStates
      BY <3>1, RebalancedType DEF Holds
    <3> HIDE DEF u
    <3>3. Onward(t, i) = u
      BY <2>5, <2>6 DEF u
    <3> QED BY <2>1, <2>4, <3>1, <3>2, <3>3 DEF t
  <2>7. CASE ~ t.lower
    <3>1. v[i] = t /\ Onward(t, i) = t
      BY <2>3, <2>4, <2>5, <2>7
    <3>2. Holds(t, M, N, stack, k - 1)
      BY <2>2, <2>7 DEF Holds
    <3> QED BY <2>1, <3>1, <3>2 DEF t
  <2> QED BY <2>6, <2>7
<1> HIDE DEF A
<1>9. 0 .. K \subseteq A
  BY <1>1, <1>7, <1>8, UpTo
<1> DEFINE IsTree(w) == w = [i \in 0 .. K - 1 |-> IF i = 0 THEN start ELSE Onward(w[i - 1], i)]
           w0 == [i \in 0 .. K - 1 |-> v[i]]
<1>10. IsTree(w0)
  <2>1. ASSUME NEW i \in 0 .. K - 1 PROVE v[i] = IF i = 0 THEN start ELSE Onward(w0[i - 1], i)
    <3>1. CASE i = 0
      BY <1>6, <3>1 DEF Iterated
    <3>2. CASE i # 0
      <4>1. i \in 0 .. K /\ i <= K - 1 /\ i - 1 \in 0 .. K - 1
        BY <1>1, <3>2
      <4>2. i \in A /\ w0[i - 1] = v[i - 1]
        BY <1>9, <4>1
      <4> HIDE DEF w0, Onward
      <4>3. v[i] = Onward(v[i - 1], i)
        BY <3>2, <4>1, <4>2 DEF A
      <4> QED BY <3>2, <4>2, <4>3
    <3> QED BY <3>1, <3>2
  <2> HIDE DEF Onward
  <2> QED BY <2>1
<1> DEFINE tree == CHOOSE w : IsTree(w)
<1>11. IsTree(tree)
  <2> HIDE DEF IsTree, w0
  <2> QED BY <1>10
<1>12. AllRebalanced(link, balance, stack) = tree[K - 1]
  BY DEF AllRebalanced, start, Onward
<1> HIDE DEF tree
<1> DEFINE B == {i \in Nat : i <= K - 1 => tree[i] = v[i]}
<1>13. \A i \in 0 .. K - 1 : tree[i] = IF i = 0 THEN start ELSE Onward(tree[i - 1], i)
  <2> HIDE DEF Onward
  <2> QED BY <1>11
<1>14. 0 \in B
  <2>1. tree[0] = start
    BY <1>1, <1>13
  <2> QED BY <1>6, <2>1 DEF Iterated
<1>15. ASSUME NEW i \in 1 .. K, i - 1 \in B PROVE i \in B
  <2> SUFFICES ASSUME i <= K - 1 PROVE tree[i] = v[i]
    OBVIOUS
  <2>1. i \in 0 .. K - 1 /\ i # 0 /\ i - 1 <= K - 1 /\ i \in 0 .. K
    BY <1>1
  <2>2. tree[i - 1] = v[i - 1]
    BY <1>15, <2>1
  <2>3. i \in A
    BY <1>9, <2>1
  <2> HIDE DEF Onward
  <2>4. tree[i] = Onward(tree[i - 1], i)
    BY <1>13, <2>1
  <2>5. v[i] = Onward(v[i - 1], i)
    BY <2>1, <2>3 DEF A
  <2> QED BY <2>2, <2>4, <2>5
<1> HIDE DEF B
<1>16. 0 .. K \subseteq B
  BY <1>1, <1>14, <1>15, UpTo
<1>17. tree[K - 1] = v[K - 1] /\ Holds(v[K - 1], M, N, stack, 1)
  <2>1. K - 1 \in 0 .. K /\ K - (K - 1) = 1 /\ K - 1 <= K - 1
    BY <1>1
  <2>2. K - 1 \in A /\ K - 1 \in B
    BY <1>9, <1>16, <2>1
  <2> QED BY <2>1, <2>2 DEF A, B
<1> DEFINE done == tree[K - 1]
<1>18. Holds(done, M, N, stack, 1)
  BY <1>17
<1> HIDE DEF done
<1>19. Lowered(done.link, done.balance, M, TopStep) /\ Vacant(done.link, N)
  <2>1. (IF done.lower THEN stack[1] ELSE TopStep) = TopStep
    OBVIOUS
  <2> QED BY <1>18, <2>1 DEF Holds, Lowered
<1> QED BY <1>12, <1>19 DEF done

-----------------------------------------------------------------------------
(* A tree depends on the links and the balances of its own nodes.          *)
LEMMA ShapedSame ==
  ASSUME NEW link, NEW M, NEW U, NEW Q, Shaped(link, M, U, Q),
         NEW new, \A m \in M \cup {Anchor}, e \in Sides : new[m][e] = link[m][e]
  PROVE  Shaped(new, M, U, Q)
<1>1. 0 \in Sides /\ 1 \in Sides
  BY DEF Sides
<1>2. /\ \A m \in M \cup {Anchor}, e \in Sides : new[m][e] \in M \cup {NULLNODE}
      /\ \A m \in M \cup {Anchor}, e \in Sides : new[m][e] # NULLNODE => Q[new[m][e]] = Step(m, e)
  BY DEF Shaped
<1>3. new[Anchor][0] = link[Anchor][0] /\ new[Anchor][1] = link[Anchor][1]
  BY <1>1
<1>4. \A m \in M : new[m][0] = link[m][0] /\ new[m][1] = link[m][1]
  BY <1>1
<1>5. \A m \in M, d \in Sides : \A k \in U[new[m][d]] : On(d, k, m)
  BY DEF Shaped
<1> QED BY <1>2, <1>3, <1>4, <1>5 DEF Shaped

LEMMA BalancedSame ==
  ASSUME NEW link, NEW M, NEW U, NEW Q, Shaped(link, M, U, Q),
         NEW new, \A m \in M \cup {Anchor}, e \in Sides : new[m][e] = link[m][e],
         NEW balance, NEW g, Balanced(link, balance, M, g, TopStep),
         NEW after, \A m \in M : after[m] = balance[m]
  PROVE  Balanced(new, after, M, g, TopStep)
<1>1. 0 \in Sides /\ 1 \in Sides
  BY DEF Sides
<1>2. /\ g \in [Places -> Nat] /\ g[NULLNODE] = 0
      /\ \A m \in M : Levelled(balance[m], g[link[m][0]], g[link[m][1]], g[m])
  BY TopIsExact
<1>3. \A m \in M : Levelled(after[m], g[new[m][0]], g[new[m][1]], g[m])
  BY <1>1, <1>2
<1>4. Shaped(new, M, U, Q)
  BY ShapedSame
<1> QED BY <1>2, <1>3, <1>4, TopIsExact

LEMMA EmptyIs ==
  ASSUME NEW link, LinkType(link), \A m \in Parents, e \in Sides : link[m][e] = NULLNODE,
         NEW balance, BalanceType(balance)
  PROVE  Fits(link, balance, {}) /\ Vacant(link, {})
<1> DEFINE T == [n \in Places |-> {}]
           P == [n \in Places |-> TopStep]
           h == [n \in Places |-> 0]
<1>1. Anchor \in Parents /\ 0 \in Sides /\ 1 \in Sides /\ TopStep \in Steps /\ NULLNODE \in Places
      /\ link[Anchor][0] = NULLNODE /\ link[Anchor][1] = NULLNODE
  <2>1. Anchor \in Parents /\ 0 \in Sides /\ 1 \in Sides /\ NULLNODE \in Places
    BY DEF Parents, Sides, Places
  <2> QED BY <2>1, StepIs DEF TopStep
<1>2. Shaped(link, {}, T, P)
  <2>1. \A m \in {} \cup {Anchor}, d \in Sides : link[m][d] = NULLNODE
    BY <1>1
  <2> QED BY <1>1, <2>1 DEF Shaped
<1>3. Balanced(link, balance, {}, h, TopStep)
  BY <1>1 DEF Balanced
<1>4. Vacant(link, {})
  BY DEF Vacant, Parents
<1> HIDE DEF T, P, h
<1> QED BY <1>2, <1>3, <1>4 DEF Fits

LEMMA TreeInit == AvlInit => TreeInv
<1> SUFFICES ASSUME AvlInit PROVE TreeInv
  OBVIOUS
<1>1. /\ av_link = [n \in Parents |-> [d \in Sides |-> NULLNODE]]
      /\ av_balance = [n \in AvlNodes |-> 0] /\ av_nodes = {} /\ av_count = 0
  BY DEF AvlInit, Parents
<1>2. LinkType(av_link) /\ BalanceType(av_balance) /\ \A m \in Parents, e \in Sides : av_link[m][e] = NULLNODE
  BY <1>1 DEF LinkType, BalanceType, Places
<1>3. Fits(av_link, av_balance, {}) /\ Vacant(av_link, {})
  BY <1>2, EmptyIs
<1> QED BY <1>1, <1>3, FS_EmptySet DEF TreeInv

LEMMA ClearKeeps ==
  ASSUME TreeInv, avl_clear
  PROVE  TreeInv' /\ av_nodes' = {} /\ av_generation' = 0
<1> DEFINE none == [d \in Sides |-> NULLNODE]
           link == [av_link EXCEPT ![Anchor] = none]
<1>1. LinkType(av_link) /\ BalanceType(av_balance) /\ av_nodes \subseteq AvlNodes
  BY DEF TreeInv, Fits
<1>2. none \in [Sides -> Places] /\ \A e \in Sides : none[e] = NULLNODE
  BY DEF Places
<1>3. DOMAIN link = Parents /\ link[Anchor] = none /\ Anchor \in Parents
  BY <1>1 DEF LinkType, Parents
<1>4. /\ av_link' = [n \in DOMAIN link |-> IF n \in AvlNodes THEN none ELSE link[n]]
      /\ av_balance' = [n \in AvlNodes |-> IF n \in AvlNodes THEN 0 ELSE av_balance[n]]
      /\ av_nodes' = av_nodes \ AvlNodes /\ av_count' = 0 /\ av_generation' = 0
  BY DEF avl_clear, Free
<1> HIDE DEF none, link
<1>5. av_link' = [n \in Parents |-> none] /\ av_balance' = [n \in AvlNodes |-> 0] /\ av_nodes' = {}
  <2>1. \A n \in Parents : n \in AvlNodes \/ link[n] = none
    BY <1>3 DEF Parents
  <2> QED BY <1>1, <1>3, <1>4, <2>1
<1>6. LinkType(av_link') /\ BalanceType(av_balance') /\ \A m \in Parents, e \in Sides : av_link'[m][e] = NULLNODE
  BY <1>2, <1>5 DEF LinkType, BalanceType
<1>7. Fits(av_link', av_balance', {}) /\ Vacant(av_link', {})
  BY <1>6, EmptyIs
<1> QED BY <1>4, <1>5, <1>7, FS_EmptySet DEF TreeInv

LEMMA DeleteKeeps ==
  ASSUME TreeInv, NEW key \in AvlKeys, avl_delete(key)
  PROVE  /\ TreeInv' /\ av_nodes' = av_nodes \ {key} /\ av_generation' = av_generation + 1
         /\ key \in av_nodes /\ avl_find(key) = key
<1> DEFINE N == av_nodes
           p == avl_find(key)
           M == N \ {p}
           way == Way(key)
           out == Unlinked(p, way)
           done == AllRebalanced(out.link, out.balance, out.stack)
           none == [d \in Sides |-> NULLNODE]
<1>1. PICK T, P, h : Shaped(av_link, N, T, P) /\ Balanced(av_link, av_balance, N, h, TopStep)
  BY DEF TreeInv, Fits
<1>2. LinkType(av_link) /\ BalanceType(av_balance) /\ Vacant(av_link, N) /\ N \subseteq AvlNodes
  BY DEF TreeInv, Fits
<1>3. /\ IsWay(av_link, N, way) /\ way[1] = TopStep /\ p = Goes(av_link, way, Len(way))
      /\ p = IF key \in N THEN key ELSE NULLNODE
  BY <1>1, SearchIs
<1>4. /\ p # NULLNODE /\ p = key /\ key \in N
      /\ Free({p}, done.link, done.balance) /\ av_count' = av_count - 1 /\ av_generation' = av_generation + 1
  BY <1>3 DEF avl_delete
<1> HIDE DEF way, p
<1>5. /\ IsWay(out.link, M, out.stack) /\ out.stack[1] = TopStep
      /\ Lowered(out.link, out.balance, M, Last(out.stack)) /\ Vacant(out.link, N)
  BY <1>1, <1>2, <1>3, <1>4, UnlinkedIs
<1> HIDE DEF out
<1>6. Lowered(done.link, done.balance, M, TopStep) /\ Vacant(done.link, N)
  <2> DEFINE ol == out.link
             ob == out.balance
             os == out.stack
  <2>1. IsWay(ol, M, os) /\ os[1] = TopStep /\ Lowered(ol, ob, M, Last(os)) /\ Vacant(ol, N) /\ M \subseteq N
    BY <1>5
  <2>2. done = AllRebalanced(ol, ob, os)
    OBVIOUS
  <2> HIDE DEF ol, ob, os, M, done
  <2> QED BY <1>2, <2>1, <2>2, AllRebalancedIs
<1> HIDE DEF done
<1>7. PICK U, Q, g : Shaped(done.link, M, U, Q) /\ Balanced(done.link, done.balance, M, g, TopStep)
  BY <1>6 DEF Lowered
<1>8. LinkType(done.link) /\ BalanceType(done.balance)
  BY <1>6 DEF Lowered
<1>9. none \in [Sides -> Places] /\ \A e \in Sides : none[e] = NULLNODE
  BY DEF Places
<1>10. /\ av_link' = [n \in DOMAIN done.link |-> IF n \in {p} THEN none ELSE done.link[n]]
       /\ av_balance' = [n \in AvlNodes |-> IF n \in {p} THEN 0 ELSE done.balance[n]]
       /\ av_nodes' = M
  BY <1>4 DEF Free
<1> HIDE DEF none
<1>11. av_link' = [n \in Parents |-> IF n = p THEN none ELSE done.link[n]]
  BY <1>8, <1>10 DEF LinkType
<1>12. LinkType(av_link') /\ BalanceType(av_balance')
  BY <1>8, <1>9, <1>10, <1>11 DEF LinkType, BalanceType
<1>13. /\ \A m \in M \cup {Anchor}, e \in Sides : av_link'[m][e] = done.link[m][e]
       /\ \A m \in M : av_balance'[m] = done.balance[m]
  <2>1. \A m \in M \cup {Anchor} : m \in Parents /\ m # p
    BY <1>2, <1>4, NumbersOf DEF Parents
  <2>2. \A m \in M : m \in AvlNodes
    BY <1>2
  <2> QED BY <1>10, <1>11, <2>1, <2>2
<1> DEFINE new == av_link'
           after == av_balance'
<1>14. Shaped(new, M, U, Q) /\ Balanced(new, after, M, g, TopStep)
  <2>1. /\ \A m \in M \cup {Anchor}, e \in Sides : new[m][e] = done.link[m][e]
        /\ \A m \in M : after[m] = done.balance[m]
    BY <1>13
  <2> DEFINE dl == done.link
             db == done.balance
  <2>2. /\ \A m \in M \cup {Anchor}, e \in Sides : new[m][e] = dl[m][e]
        /\ \A m \in M : after[m] = db[m]
        /\ Shaped(dl, M, U, Q) /\ Balanced(dl, db, M, g, TopStep)
    BY <1>7, <2>1
  <2> HIDE DEF new, after, M, dl, db
  <2> QED BY <2>2, ShapedSame, BalancedSame
<1>15. Vacant(av_link', M)
  <2> SUFFICES ASSUME NEW n \in AvlNodes \ M, NEW d \in Sides PROVE av_link'[n][d] = NULLNODE
    BY DEF Vacant
  <2>1. n \in Parents
    BY DEF Parents
  <2>2. CASE n = p
    BY <1>9, <1>11, <2>1, <2>2
  <2>3. CASE n # p
    <3>1. n \in AvlNodes \ N
      BY <2>3
    <3> QED BY <1>6, <1>11, <2>1, <2>3, <3>1 DEF Vacant
  <2> QED BY <2>2, <2>3
<1>16. av_count' = Cardinality(M)
  <2>1. IsFiniteSet(N)
    BY <1>2, AvlAssumption, FS_Subset DEF AvlNodes
  <2>2. av_count = Cardinality(N)
    BY DEF TreeInv
  <2> QED BY <1>4, <2>1, <2>2, FS_RemoveElement
<1>17. Fits(av_link', av_balance', M)
  BY <1>2, <1>12, <1>14 DEF Fits
<1>18. TreeInv'
  BY <1>10, <1>15, <1>16, <1>17 DEF TreeInv
<1> QED BY <1>4, <1>10, <1>18 DEF p

(* A step keeps the tree.                                                  *)
LEMMA ProbeKeeps ==
  ASSUME TreeInv, NEW key \in AvlKeys, avl_probe(key)
  PROVE  /\ TreeInv' /\ av_nodes' = av_nodes \cup {key}
         /\ \/ av_generation' = av_generation /\ KeepsLinks(av_link, av_link', av_nodes)
            \/ av_generation' = av_generation + 1
<1>1. PICK T, P : Shaped(av_link, av_nodes, T, P)
  BY DEF TreeInv, Fits
<1>2. avl_find(key) = IF key \in av_nodes THEN key ELSE NULLNODE
  BY <1>1, SearchIs
<1>3. key # NULLNODE
  BY NumbersOf DEF AvlNodes
<1>4. CASE key \in av_nodes
  <2>1. UNCHANGED treeVars
    BY <1>2, <1>3, <1>4 DEF avl_probe
  <2>2. TreeInv'
    BY <2>1 DEF treeVars, TreeInv
  <2>3. KeepsLinks(av_link, av_link', av_nodes)
    BY <2>1 DEF treeVars, KeepsLinks
  <2> QED BY <1>4, <2>1, <2>2, <2>3 DEF treeVars
<1>5. CASE key \notin av_nodes
  <2>1. Insert(Way(key), key)
    BY <1>2, <1>5 DEF avl_probe
  <2> QED BY <1>5, <2>1, InsertKeeps
<1> QED BY <1>4, <1>5

LEMMA TreeStep == TreeInv /\ [AvlNext]_avlVars => TreeInv'
<1> SUFFICES ASSUME TreeInv, [AvlNext]_avlVars PROVE TreeInv'
  OBVIOUS
<1>1. ASSUME UNCHANGED treeVars PROVE TreeInv'
  BY <1>1 DEF treeVars, TreeInv
<1>2. ASSUME NEW key \in AvlKeys, avl_probe(key) PROVE TreeInv'
  BY <1>2, ProbeKeeps
<1>3. ASSUME NEW key \in AvlKeys, avl_delete(key) PROVE TreeInv'
  BY <1>3, DeleteKeeps
<1>4. ASSUME avl_clear PROVE TreeInv'
  BY <1>4, ClearKeeps
<1>5. ASSUME NEW t \in Traversers, NEW key \in AvlKeys, avl_t_insert(t, key) PROVE TreeInv'
  BY <1>2, <1>5 DEF avl_t_insert
<1>6. UNCHANGED avlVars => UNCHANGED treeVars
  BY DEF avlVars, treeVars
<1> QED BY <1>1, <1>2, <1>3, <1>4, <1>5, <1>6 DEF AvlNext

LEMMA TreeIsKept == AvlSpec => []TreeInv
BY TreeInit, TreeStep, PTL DEF AvlSpec

-----------------------------------------------------------------------------
(* The keys below a node and its height, of which the invariant says only  *)
(* that there are some that fit, are those of the definitions.             *)
KeysBelow(f) ==
  f = [n \in Places |-> IF n = NULLNODE THEN {} ELSE {n} \cup f[av_link[n][0]] \cup f[av_link[n][1]]]

Highest(l, r) == 1 + (IF l < r THEN r ELSE l)

HeightBelow(f) ==
  f = [n \in Places |-> IF n = NULLNODE THEN 0 ELSE Highest(f[av_link[n][0]], f[av_link[n][1]])]

LEMMA KeysAre ==
  ASSUME NEW T, NEW P, Shaped(av_link, av_nodes, T, P), NEW h, Falls(av_link, av_nodes, h),
         NEW f, KeysBelow(f)
  PROVE  \A n \in av_nodes \cup {NULLNODE} : f[n] = T[n]
<1> DEFINE N == av_nodes
           Wrong == {n \in N : f[n] # T[n]}
           S == {h[n] : n \in Wrong}
<1>1. /\ N \subseteq Places /\ NULLNODE \in Places /\ NULLNODE \notin N /\ T[NULLNODE] = {}
      /\ \A m \in N : T[m] = {m} \cup T[av_link[m][0]] \cup T[av_link[m][1]]
      /\ 0 \in Sides /\ 1 \in Sides
      /\ \A m \in N, d \in Sides : av_link[m][d] \in N \cup {NULLNODE}
  <2>1. N \subseteq AvlNodes
    BY DEF Shaped
  <2>2. N \subseteq Places /\ NULLNODE \in Places /\ NULLNODE \notin N
    BY <2>1, NumbersOf DEF Places
  <2>3. 0 \in Sides /\ 1 \in Sides
    BY DEF Sides
  <2> QED BY <2>2, <2>3 DEF Shaped
<1>2. /\ f[NULLNODE] = {}
      /\ \A n \in N : f[n] = {n} \cup f[av_link[n][0]] \cup f[av_link[n][1]]
  BY <1>1 DEF KeysBelow
<1>3. Wrong = {}
  <2> SUFFICES ASSUME Wrong # {} PROVE FALSE
    OBVIOUS
  <2>1. S \subseteq Nat /\ S # {}
    BY <1>1 DEF Falls
  <2> HIDE DEF S
  <2>2. PICK k \in S : \A l \in S : k <= l
    BY <2>1, SmallestOf
  <2>3. PICK n \in Wrong : h[n] = k
    BY <2>2 DEF S
  <2>4. ASSUME NEW d \in Sides PROVE f[av_link[n][d]] = T[av_link[n][d]]
    <3>1. h[av_link[n][d]] < h[n] /\ av_link[n][d] \in N \cup {NULLNODE}
      BY <1>1 DEF Falls
    <3>2. h[av_link[n][d]] \in Nat /\ h[n] \in Nat
      BY <1>1, <3>1 DEF Falls
    <3>3. h[av_link[n][d]] \notin S
      BY <2>2, <2>3, <3>1, <3>2
    <3>4. av_link[n][d] \notin Wrong
      BY <3>3 DEF S
    <3> QED BY <1>1, <1>2, <3>1, <3>4
  <2>5. f[n] = T[n]
    BY <1>1, <1>2, <2>4
  <2> QED BY <2>5
<1> QED BY <1>1, <1>2, <1>3

LEMMA HeightsAre ==
  ASSUME NEW T, NEW P, Shaped(av_link, av_nodes, T, P), NEW h, Falls(av_link, av_nodes, h), h[NULLNODE] = 0,
         \A m \in av_nodes : h[m] = Highest(h[av_link[m][0]], h[av_link[m][1]]),
         NEW f, HeightBelow(f)
  PROVE  \A n \in av_nodes \cup {NULLNODE} : f[n] = h[n]
<1> DEFINE N == av_nodes
           Wrong == {n \in N : f[n] # h[n]}
           S == {h[n] : n \in Wrong}
<1>1. /\ N \subseteq Places /\ NULLNODE \in Places /\ NULLNODE \notin N
      /\ 0 \in Sides /\ 1 \in Sides
      /\ \A m \in N, d \in Sides : av_link[m][d] \in N \cup {NULLNODE}
  <2>1. N \subseteq AvlNodes
    BY DEF Shaped
  <2>2. N \subseteq Places /\ NULLNODE \in Places /\ NULLNODE \notin N
    BY <2>1, NumbersOf DEF Places
  <2>3. 0 \in Sides /\ 1 \in Sides
    BY DEF Sides
  <2> QED BY <2>2, <2>3 DEF Shaped
<1>2. /\ f[NULLNODE] = 0
      /\ \A n \in N : f[n] = Highest(f[av_link[n][0]], f[av_link[n][1]])
  BY <1>1 DEF HeightBelow
<1>3. Wrong = {}
  <2> SUFFICES ASSUME Wrong # {} PROVE FALSE
    OBVIOUS
  <2>1. S \subseteq Nat /\ S # {}
    BY <1>1 DEF Falls
  <2> HIDE DEF S
  <2>2. PICK k \in S : \A l \in S : k <= l
    BY <2>1, SmallestOf
  <2>3. PICK n \in Wrong : h[n] = k
    BY <2>2 DEF S
  <2>4. ASSUME NEW d \in Sides PROVE f[av_link[n][d]] = h[av_link[n][d]]
    <3>1. h[av_link[n][d]] < h[n] /\ av_link[n][d] \in N \cup {NULLNODE}
      BY <1>1 DEF Falls
    <3>2. h[av_link[n][d]] \in Nat /\ h[n] \in Nat
      BY <1>1, <3>1 DEF Falls
    <3>3. h[av_link[n][d]] \notin S
      BY <2>2, <2>3, <3>1, <3>2
    <3>4. av_link[n][d] \notin Wrong
      BY <3>3 DEF S
    <3> QED BY <1>2, <3>1, <3>4
  <2>5. f[n] = h[n]
    BY <1>1, <1>2, <2>4
  <2> QED BY <2>5
<1> QED BY <1>2, <1>3

(* There are such functions: beside the tree nothing hangs at a node.      *)
LEMMA SubtreeIs ==
  ASSUME NEW T, NEW P, Shaped(av_link, av_nodes, T, P), NEW h, Balanced(av_link, av_balance, av_nodes, h, TopStep),
         Vacant(av_link, av_nodes)
  PROVE  \A n \in av_nodes \cup {NULLNODE} : Subtree[n] = T[n] /\ Height[n] = h[n]
<1> DEFINE N == av_nodes
           keys == [n \in Places |-> IF n \in N \cup {NULLNODE} THEN T[n] ELSE {n}]
           high == [n \in Places |-> IF n \in N \cup {NULLNODE} THEN h[n] ELSE 1]
<1>1. /\ N \subseteq Places /\ NULLNODE \in Places /\ NULLNODE \notin N /\ T[NULLNODE] = {}
      /\ \A m \in N : T[m] = {m} \cup T[av_link[m][0]] \cup T[av_link[m][1]]
      /\ 0 \in Sides /\ 1 \in Sides
      /\ \A m \in N : av_link[m][0] \in N \cup {NULLNODE} /\ av_link[m][1] \in N \cup {NULLNODE}
  <2>1. N \subseteq AvlNodes
    BY DEF Shaped
  <2>2. N \subseteq Places /\ NULLNODE \in Places /\ NULLNODE \notin N
    BY <2>1, NumbersOf DEF Places
  <2>3. 0 \in Sides /\ 1 \in Sides
    BY DEF Sides
  <2> QED BY <2>2, <2>3 DEF Shaped
<1>2. /\ h \in [Places -> Nat] /\ h[NULLNODE] = 0
      /\ \A m \in N : Levelled(av_balance[m], h[av_link[m][0]], h[av_link[m][1]], h[m])
  BY TopIsExact
<1>3. \A m \in N : h[m] = Highest(h[av_link[m][0]], h[av_link[m][1]])
  BY <1>2 DEF Levelled, Highest
<1>4. Falls(av_link, N, h)
  BY BalancedFalls
<1>5. \A n \in Places \ (N \cup {NULLNODE}) : av_link[n][0] = NULLNODE /\ av_link[n][1] = NULLNODE
  BY <1>1 DEF Places, Vacant
<1>6. ASSUME NEW n \in Places
      PROVE  keys[n] = IF n = NULLNODE THEN {} ELSE {n} \cup keys[av_link[n][0]] \cup keys[av_link[n][1]]
  <2>1. CASE n = NULLNODE
    BY <1>1, <2>1
  <2>2. CASE n \in N
    BY <1>1, <2>2
  <2>3. CASE n \notin N \cup {NULLNODE}
    <3>1. keys[av_link[n][0]] = {} /\ keys[av_link[n][1]] = {}
      BY <1>1, <1>5, <2>3
    <3> QED BY <2>3, <3>1
  <2> QED BY <2>1, <2>2, <2>3
<1>7. ASSUME NEW n \in Places
      PROVE  high[n] = IF n = NULLNODE THEN 0 ELSE Highest(high[av_link[n][0]], high[av_link[n][1]])
  <2>1. CASE n = NULLNODE
    BY <1>1, <1>2, <2>1
  <2>2. CASE n \in N
    BY <1>1, <1>3, <2>2
  <2>3. CASE n \notin N \cup {NULLNODE}
    <3>1. high[av_link[n][0]] = 0 /\ high[av_link[n][1]] = 0
      BY <1>1, <1>2, <1>5, <2>3
    <3> QED BY <2>3, <3>1 DEF Highest
  <2> QED BY <2>1, <2>2, <2>3
<1>8. KeysBelow(keys)
  <2>1. keys = [n \in Places |-> keys[n]]
    OBVIOUS
  <2> HIDE DEF keys
  <2> QED BY <1>6, <2>1 DEF KeysBelow
<1>9. HeightBelow(high)
  <2>1. high = [n \in Places |-> high[n]]
    OBVIOUS
  <2> HIDE DEF high
  <2> QED BY <1>7, <2>1 DEF HeightBelow
<1>10. Subtree = CHOOSE f : KeysBelow(f)
  BY DEF Subtree, KeysBelow, Places
<1>11. Height = CHOOSE f : HeightBelow(f)
  BY DEF Height, HeightBelow, Places, Highest
<1>12. KeysBelow(Subtree) /\ HeightBelow(Height)
  BY <1>8, <1>9, <1>10, <1>11
<1> QED BY <1>2, <1>3, <1>4, <1>12, KeysAre, HeightsAre

LEMMA TreeInvBalanced == TreeInv => TreeIsBalanced
<1> SUFFICES ASSUME TreeInv PROVE TreeIsBalanced
  OBVIOUS
<1>1. PICK T, P, h : Shaped(av_link, av_nodes, T, P) /\ Balanced(av_link, av_balance, av_nodes, h, TopStep)
  BY DEF TreeInv, Fits
<1>2. \A n \in av_nodes \cup {NULLNODE} : Subtree[n] = T[n] /\ Height[n] = h[n]
  BY <1>1, SubtreeIs DEF TreeInv
<1>3. /\ 0 \in Sides /\ 1 \in Sides
      /\ \A m \in av_nodes \cup {Anchor}, d \in Sides : av_link[m][d] \in av_nodes \cup {NULLNODE}
      /\ T[av_link[Anchor][0]] = av_nodes
      /\ \A m \in av_nodes, d \in Sides : \A k \in T[av_link[m][d]] : On(d, k, m)
  BY <1>1 DEF Shaped, Sides
<1>4. \A m \in av_nodes : Levelled(av_balance[m], h[av_link[m][0]], h[av_link[m][1]], h[m])
  BY <1>1, TopIsExact
<1>5. Subtree[Root] = av_nodes
  <2>1. Root \in av_nodes \cup {NULLNODE} /\ T[Root] = av_nodes
    BY <1>3 DEF Root
  <2> QED BY <1>2, <2>1
<1>6. ASSUME NEW n \in av_nodes
      PROVE  LET l == av_link[n][0]
                 r == av_link[n][1]
             IN  /\ \A k \in Subtree[l] : k < n
                 /\ \A k \in Subtree[r] : n < k
                 /\ av_balance[n] = Height[r] - Height[l]
                 /\ av_balance[n] \in {-1, 0, 1}
  <2> DEFINE l == av_link[n][0]
             r == av_link[n][1]
  <2>1. Subtree[l] = T[l] /\ Subtree[r] = T[r] /\ Height[l] = h[l] /\ Height[r] = h[r]
    BY <1>2, <1>3
  <2>2. (\A k \in T[l] : On(0, k, n)) /\ (\A k \in T[r] : On(1, k, n))
    BY <1>3
  <2>3. Levelled(av_balance[n], h[l], h[r], h[n])
    BY <1>4
  <2> HIDE DEF l, r
  <2>4. (\A k \in T[l] : k < n) /\ (\A k \in T[r] : n < k)
    BY <2>2 DEF On
  <2>5. av_balance[n] = h[r] - h[l] /\ av_balance[n] \in {-1, 0, 1}
    BY <2>3 DEF Levelled
  <2>6. /\ \A k \in Subtree[l] : k < n
        /\ \A k \in Subtree[r] : n < k
        /\ av_balance[n] = Height[r] - Height[l]
        /\ av_balance[n] \in {-1, 0, 1}
    BY <2>1, <2>4, <2>5
  <2> QED BY <2>6 DEF l, r
<1> QED BY <1>5, <1>6 DEF TreeInv, TreeIsBalanced

(* After any insertions and deletions each key is in the tree once,        *)
(* between the smaller and the greater ones, and the balances are right.   *)
THEOREM TheTreeIsBalanced == AvlSpec => []TreeIsBalanced
BY TreeIsKept, TreeInvBalanced, PTL

-----------------------------------------------------------------------------
(* The order of the keys along a way from the top.                         *)
LEMMA OnFacts ==
  ASSUME NEW d \in Sides, NEW k \in Nat, NEW l \in Nat
  PROVE  /\ On(d, k, l) <=> On(1 - d, l, k)
         /\ On(d, k, l) => ~ On(1 - d, k, l) /\ k # l
         /\ On(d, k, l) \/ On(1 - d, k, l) \/ k = l
         /\ \A m \in Nat : On(d, k, l) /\ On(d, l, m) => On(d, k, m)
BY DEF Sides, On

FromTop(link, N, way) == IsWay(link, N, way) /\ way[1] = TopStep

LEMMA TopFacts ==
  ASSUME NEW link, NEW N, NEW T, NEW P, Shaped(link, N, T, P), NEW way, FromTop(link, N, way)
  PROVE  /\ Goes(link, way, 1) = link[Anchor][0] /\ T[Goes(link, way, 1)] = N
         /\ Len(way) \in Nat \ {0} /\ 1 \in 1 .. Len(way) /\ Len(way) \in 1 .. Len(way)
         /\ \A i \in 2 .. Len(way) :
              /\ way[i].node \in N /\ way[i].side \in Sides /\ Goes(link, way, i - 1) = way[i].node
              /\ way[i].node \in Nat
              /\ \A k \in T[Goes(link, way, i)] : On(way[i].side, k, way[i].node)
<1>1. IsWay(link, N, way) /\ way[1] = TopStep /\ N \subseteq AvlNodes
  BY DEF FromTop, Shaped
<1>2. TopStep.node = Anchor /\ TopStep.side = 0
  BY StepIs DEF TopStep
<1>3. Goes(link, way, 1) = link[Anchor][0] /\ T[Goes(link, way, 1)] = N
  BY <1>1, <1>2 DEF Goes, Shaped
<1>4. Len(way) \in Nat \ {0} /\ \A i \in 1 .. Len(way) : way[i].side \in Sides
  BY <1>1, StepsOf
<1>5. \A i \in 2 .. Len(way) : way[i].node \in N /\ Goes(link, way, i - 1) = way[i].node
  BY <1>1 DEF IsWay
<1>6. ASSUME NEW i \in 2 .. Len(way)
      PROVE  /\ way[i].side \in Sides /\ way[i].node \in Nat
             /\ \A k \in T[Goes(link, way, i)] : On(way[i].side, k, way[i].node)
  <2>1. i \in 1 .. Len(way)
    BY <1>4
  <2>2. way[i].side \in Sides /\ way[i].node \in N /\ way[i].node \in Nat
    BY <1>1, <1>4, <1>5, <2>1, NumbersOf
  <2> QED BY <2>2 DEF Goes, Shaped
<1> QED BY <1>3, <1>4, <1>5, <1>6

(* A key that is not below a node lies on one side of all that are.        *)
LEMMA Apart ==
  ASSUME NEW link, NEW N, NEW T, NEW P, Shaped(link, N, T, P), NEW way, FromTop(link, N, way),
         NEW j \in 1 .. Len(way), NEW k \in N, k \notin T[Goes(link, way, j)]
  PROVE  \E e \in Sides : \A l \in T[Goes(link, way, j)] : On(e, k, l)
<1> DEFINE L == Len(way)
           B(i) == T[Goes(link, way, i)]
           A == {n \in Nat : n + 1 <= L => (k \notin B(n + 1) => \E e \in Sides : \A l \in B(n + 1) : On(e, k, l))}
<1>1. L \in Nat \ {0} /\ N \subseteq Nat /\ Nested(link, N, T)
  <2>1. N \subseteq AvlNodes
    BY DEF Shaped
  <2> QED BY <2>1, TopFacts, NestedIs, NumbersOf
<1>2. 0 \in A
  <2>1. B(1) = N /\ 0 + 1 = 1
    BY TopFacts
  <2> QED BY <2>1
<1>3. ASSUME NEW n \in 1 .. L, n - 1 \in A PROVE n \in A
  <2> SUFFICES ASSUME n + 1 <= L, k \notin B(n + 1) PROVE \E e \in Sides : \A l \in B(n + 1) : On(e, k, l)
    BY <1>1
  <2> DEFINE a == way[n + 1].node
             s == way[n + 1].side
  <2>1. n + 1 \in 2 .. L /\ (n + 1) - 1 = n /\ (n - 1) + 1 = n
    BY <1>1
  <2>2. a \in N /\ s \in Sides /\ Goes(link, way, n) = a /\ a \in Nat
    BY <2>1, TopFacts
  <2>3. \A l \in B(n + 1) : On(s, l, a)
    BY <2>1, TopFacts
  <2>4. B(n + 1) = T[link[a][s]]
    BY DEF Goes
  <2> HIDE DEF a, s
  <2>5. T[a] \subseteq N
    BY <1>1, <2>2 DEF Nested
  <2>6. T[a] = {a} \cup T[link[a][s]] \cup T[link[a][1 - s]]
    BY <1>1, <2>2 DEF Nested
  <2>7. B(n + 1) \subseteq Nat /\ B(n + 1) \subseteq T[a] /\ k \in Nat
    BY <1>1, <2>4, <2>5, <2>6
  <2>8. CASE k \notin T[a]
    <3>1. k \notin B(n)
      BY <2>2, <2>8
    <3>2. \E e \in Sides : \A l \in B(n) : On(e, k, l)
      BY <1>1, <1>3, <2>1, <3>1
    <3> QED BY <2>2, <2>7, <3>2
  <2>9. CASE k \in T[a]
    <3>1. k = a \/ k \in T[link[a][1 - s]]
      BY <2>4, <2>6, <2>9
    <3>2. 1 - s \in Sides /\ 1 - (1 - s) = s
      BY <2>2, NumbersOf
    <3>3. k = a \/ On(1 - s, k, a)
      BY <2>2, <3>1, <3>2 DEF Shaped
    <3>4. ASSUME NEW l \in B(n + 1) PROVE On(1 - s, k, l)
      <4>1. l \in Nat /\ On(s, l, a)
        BY <2>3, <2>7
      <4>2. On(1 - s, a, l)
        BY <2>2, <4>1, OnFacts
      <4> QED BY <2>2, <2>7, <3>2, <3>3, <4>1, <4>2, OnFacts
    <3> QED BY <3>2, <3>4
  <2> QED BY <2>8, <2>9
<1> HIDE DEF A
<1>4. j - 1 \in 0 .. L /\ (j - 1) + 1 = j /\ j <= L
  BY <1>1
<1>5. 0 .. L \subseteq A
  BY <1>1, <1>2, <1>3, UpTo
<1>6. j - 1 \in A
  BY <1>4, <1>5
<1> QED BY <1>4, <1>6 DEF A

(* Behind the last entry whose side is not d, the way to a node without a  *)
(* subtree on side d passes no key on that side of the node.               *)
LEMMA NoneBetween ==
  ASSUME NEW link, NEW N, NEW T, NEW P, Shaped(link, N, T, P), NEW way, FromTop(link, N, way),
         NEW x \in N, Goes(link, way, Len(way)) = x, NEW d \in Sides, link[x][d] = NULLNODE,
         NEW q \in 1 .. Len(way), \A i \in q + 1 .. Len(way) : way[i].side = d,
         NEW k \in T[Goes(link, way, q)], k \in Nat
  PROVE  ~ On(d, k, x)
<1> SUFFICES ASSUME On(d, k, x) PROVE FALSE
  OBVIOUS
<1> DEFINE L == Len(way)
           A == {n \in Nat : q + n <= L => k \in T[Goes(link, way, q + n)]}
<1>1. L \in Nat \ {0} /\ N \subseteq Nat /\ Nested(link, N, T) /\ T[NULLNODE] = {} /\ 1 - d \in Sides /\ x \in Nat
  <2>1. N \subseteq AvlNodes /\ T[NULLNODE] = {}
    BY DEF Shaped
  <2> QED BY <2>1, TopFacts, NestedIs, NumbersOf
<1>2. 0 \in A
  BY <1>1
<1>3. ASSUME NEW n \in 1 .. L, n - 1 \in A PROVE n \in A
  <2> SUFFICES ASSUME q + n <= L PROVE k \in T[Goes(link, way, q + n)]
    BY <1>1
  <2> DEFINE i == q + n
             a == way[i].node
  <2>1. i \in 2 .. L /\ i \in q + 1 .. L /\ i - 1 = q + (n - 1) /\ n - 1 \in Nat
    BY <1>1
  <2>2. k \in T[Goes(link, way, i - 1)]
    BY <1>3, <2>1
  <2> HIDE DEF i
  <2>3. a \in N /\ Goes(link, way, i - 1) = a /\ a \in Nat /\ way[i].side = d
    BY <2>1, TopFacts
  <2>4. Goes(link, way, i) = link[a][d]
    BY <2>3 DEF Goes
  <2>5. x \in T[link[a][d]]
    <3>1. CASE i = L
      <4>1. x \in T[x]
        BY <1>1 DEF Nested
      <4> QED BY <2>4, <3>1, <4>1
    <3>2. CASE i # L
      <4>1. L \in 2 .. L /\ L - 1 \in 1 .. L /\ i \in 1 .. L /\ i < L /\ L \in 1 .. L
        BY <1>1, <2>1, <3>2
      <4>2. IsWay(link, N, way)
        BY DEF FromTop
      <4>3. T[way[L].node] \subseteq T[Goes(link, way, i)]
        BY <4>1, <4>2, WayNested
      <4>4. way[L].node \in N /\ way[L].side \in Sides /\ x = link[way[L].node][way[L].side]
        BY <4>1, TopFacts DEF Goes
      <4> DEFINE b == way[L].node
                 e == way[L].side
      <4>5. b \in N /\ e \in Sides /\ x = link[b][e]
        BY <4>4
      <4> HIDE DEF b, e
      <4>6. T[link[b][e]] \subseteq T[b] /\ x \in T[x]
        BY <1>1, <4>5 DEF Nested
      <4> QED BY <2>4, <4>3, <4>5, <4>6 DEF b
    <3> QED BY <3>1, <3>2
  <2>6. On(d, x, a)
    BY <2>3, <2>5 DEF Shaped
  <2> HIDE DEF a
  <2>7. T[a] = {a} \cup T[link[a][d]] \cup T[link[a][1 - d]]
    BY <1>1, <2>3 DEF Nested
  <2>8. \A l \in T[link[a][1 - d]] : On(1 - d, l, a)
    BY <1>1, <2>3 DEF Shaped
  <2>9. On(d, k, a)
    BY <1>1, <2>3, <2>6, OnFacts
  <2>10. k # a /\ ~ On(1 - d, k, a)
    BY <1>1, <2>3, <2>9 DEF On, Sides
  <2>11. k \in T[link[a][d]]
    BY <2>2, <2>3, <2>7, <2>8, <2>10
  <2> QED BY <2>4, <2>11 DEF i
<1> HIDE DEF A
<1>4. L - q \in 0 .. L /\ q + (L - q) = L
  BY <1>1
<1>5. 0 .. L \subseteq A
  BY <1>1, <1>2, <1>3, UpTo
<1>6. L - q \in A
  BY <1>4, <1>5
<1>7. k \in T[x]
  BY <1>1, <1>4, <1>6 DEF A
<1>8. T[x] = {x} \cup T[link[x][d]] \cup T[link[x][1 - d]]
  BY <1>1 DEF Nested
<1>9. \A l \in T[link[x][1 - d]] : On(1 - d, l, x)
  BY <1>1 DEF Shaped
<1>10. k # x /\ ~ On(1 - d, k, x)
  BY <1>1, OnFacts
<1> QED BY <1>1, <1>7, <1>8, <1>9, <1>10

-----------------------------------------------------------------------------
(* A stack fits a node if it has the nodes of the way that leads to it.    *)
StackFits(link, N, stack, x) ==
  \E way : FromTop(link, N, way) /\ Goes(link, way, Len(way)) = x /\ stack = NodesOf(way)

Begins(link, N, way, m, w) ==
  /\ IsWay(link, N, w) /\ Len(w) = m /\ w[1] = way[1]
  /\ \A i \in 1 .. m : w[i] = way[i]
  /\ m < Len(way) => Goes(link, w, Len(w)) = way[m + 1].node

Joins(link, N, u, v, w) ==
  /\ IsWay(link, N, w) /\ Len(w) = Len(u) + Len(v) /\ w[1] = u[1]
  /\ Goes(link, w, Len(w)) = Goes(link, v, Len(v))
  /\ \A i \in 1 .. Len(u) : w[i] = u[i]
  /\ \A i \in 1 .. Len(v) : w[Len(u) + i] = v[i]

Spells(S, way, first, s) ==
  s \in Seq(S) /\ Len(s) = Len(way) - 1 /\ \A i \in 1 .. Len(way) - 1 : s[i] = way[i + first].node

LEMMA WayFirst ==
  ASSUME NEW link, NEW N, N \subseteq AvlNodes, NEW way, IsWay(link, N, way), NEW m \in 1 .. Len(way),
         NEW w, w = SubSeq(way, 1, m)
  PROVE  Begins(link, N, way, m, w)
<1>1. way \in Seq(Steps) /\ Len(way) \in Nat \ {0} /\ way[1].node \in N \cup {Anchor}
      /\ \A i \in 2 .. Len(way) : way[i].node \in N /\ Goes(link, way, i - 1) = way[i].node
  BY StepsOf DEF IsWay
<1>2. w \in Seq(Steps) /\ Len(w) = m /\ \A i \in 1 .. m : w[i] = way[i]
  <2>1. m \in 0 .. Len(way)
    BY <1>1
  <2> QED BY <1>1, <2>1, PrefixIs
<1>3. m \in Nat /\ m >= 1 /\ m <= Len(way) /\ 1 \in 1 .. m
  BY <1>1
<1>4. ASSUME NEW i \in 2 .. m PROVE w[i].node \in N /\ Goes(link, w, i - 1) = w[i].node
  <2>1. i \in 1 .. m /\ i - 1 \in 1 .. m /\ i \in 2 .. Len(way)
    BY <1>1, <1>3
  <2> QED BY <1>1, <1>2, <2>1 DEF Goes
<1>5. IsWay(link, N, w)
  BY <1>1, <1>2, <1>3, <1>4 DEF IsWay
<1>6. ASSUME m < Len(way) PROVE Goes(link, w, m) = way[m + 1].node
  <2>1. m + 1 \in 2 .. Len(way) /\ (m + 1) - 1 = m /\ m \in 1 .. m
    BY <1>1, <1>3, <1>6
  <2>2. Goes(link, way, m) = way[m + 1].node
    BY <1>1, <2>1
  <2> QED BY <1>2, <2>1, <2>2 DEF Goes
<1> QED BY <1>2, <1>3, <1>5, <1>6 DEF Begins

LEMMA WayJoin ==
  ASSUME NEW link, NEW N, N \subseteq AvlNodes, NEW u, IsWay(link, N, u), NEW v, IsWay(link, N, v),
         v[1].node \in N, Goes(link, u, Len(u)) = v[1].node, NEW w, w = u \o v
  PROVE  Joins(link, N, u, v, w)
<1> DEFINE A == Len(u)
           B == Len(v)
<1>1. u \in Seq(Steps) /\ A \in Nat \ {0} /\ u[1].node \in N \cup {Anchor}
      /\ \A i \in 2 .. A : u[i].node \in N /\ Goes(link, u, i - 1) = u[i].node
  BY StepsOf DEF IsWay
<1>2. v \in Seq(Steps) /\ B \in Nat \ {0}
      /\ \A i \in 2 .. B : v[i].node \in N /\ Goes(link, v, i - 1) = v[i].node
  BY StepsOf DEF IsWay
<1>3. w \in Seq(Steps) /\ Len(w) = A + B /\ (\A i \in 1 .. A : w[i] = u[i])
      /\ \A i \in 1 .. B : w[A + i] = v[i]
  <2>1. w \in Seq(Steps) /\ Len(w) = A + B
    BY <1>1, <1>2
  <2>2. \A i \in 1 .. A : w[i] = u[i]
    BY <1>1, <1>2
  <2>3. \A i \in 1 .. B : w[A + i] = v[i]
    <3> TAKE i \in 1 .. B
    <3>1. A + i \in 1 .. A + B /\ A + i > A /\ (A + i) - A = i
      BY <1>1, <1>2
    <3> QED BY <1>1, <1>2, <3>1
  <2> QED BY <2>1, <2>2, <2>3
<1>4. Goes(link, u, A) = v[1].node
  OBVIOUS
<1> HIDE DEF A, B
<1>5. 1 \in 1 .. A /\ A \in 1 .. A /\ B \in 1 .. B /\ 1 \in 1 .. B /\ A + B \in Nat /\ A + B >= 1
  BY <1>1, <1>2
<1>6. ASSUME NEW i \in 2 .. A + B PROVE w[i].node \in N /\ Goes(link, w, i - 1) = w[i].node
  <2>1. CASE i <= A
    <3>1. i \in 2 .. A /\ i \in 1 .. A /\ i - 1 \in 1 .. A
      BY <1>1, <1>2, <2>1
    <3> QED BY <1>1, <1>3, <3>1 DEF Goes
  <2>2. CASE i = A + 1
    <3>1. i - 1 = A /\ w[i] = v[1] /\ w[i - 1] = u[A]
      BY <1>1, <1>3, <1>5, <2>2
    <3> QED BY <1>4, <3>1 DEF Goes
  <2>3. CASE i > A + 1
    <3> DEFINE j == i - A
    <3>1. j \in 2 .. B /\ j \in 1 .. B /\ j - 1 \in 1 .. B /\ i = A + j /\ i - 1 = A + (j - 1)
      BY <1>1, <1>2, <2>3
    <3> HIDE DEF j
    <3>2. w[A + j] = v[j] /\ w[A + (j - 1)] = v[j - 1]
      BY <1>3, <3>1
    <3> QED BY <1>2, <3>1, <3>2 DEF Goes
  <2>4. i <= A \/ i = A + 1 \/ i > A + 1
    BY <1>1, <1>2
  <2> QED BY <2>1, <2>2, <2>3, <2>4
<1>7. w[1] = u[1] /\ Goes(link, w, A + B) = Goes(link, v, B)
  BY <1>3, <1>5 DEF Goes
<1>8. IsWay(link, N, w)
  BY <1>1, <1>3, <1>5, <1>6, <1>7 DEF IsWay
<1>9. Len(w) = A + B
  BY <1>3
<1> QED BY <1>3, <1>7, <1>8, <1>9 DEF A, B, Joins

LEMMA NodesOfAre ==
  ASSUME NEW link, NEW N, N \subseteq AvlNodes, NEW way, IsWay(link, N, way), NEW s, s = NodesOf(way)
  PROVE  Spells(N, way, 1, s)
<1> DEFINE n == Len(way) - 1
<1>1. n \in Nat /\ Len(way) = n + 1 /\ Len(way) \in Nat
  BY StepsOf
<1>2. \A i \in 1 .. n : way[i + 1].node \in N
  BY <1>1 DEF IsWay
<1>3. s \in [1 .. n -> N] /\ \A i \in 1 .. n : s[i] = way[i + 1].node
  BY <1>2 DEF NodesOf
<1> HIDE DEF n
<1>4. s \in Seq(N) /\ Len(s) = n
  BY <1>1, <1>3, LenOf
<1> QED BY <1>3, <1>4 DEF n, Spells

LEMMA NodesAboveAre ==
  ASSUME NEW link, NEW N, N \subseteq AvlNodes, NEW way, IsWay(link, N, way), NEW s, s = NodesAbove(way)
  PROVE  Spells(N \cup {Anchor}, way, 0, s)
<1> DEFINE n == Len(way) - 1
<1>1. n \in Nat /\ Len(way) = n + 1 /\ Len(way) \in Nat
  BY StepsOf
<1>2. \A i \in 1 .. n : way[i].node \in N \cup {Anchor}
  BY <1>1, StepsOf
<1>3. s \in [1 .. n -> N \cup {Anchor}] /\ \A i \in 1 .. n : s[i] = way[i].node
  BY <1>2 DEF NodesAbove
<1> HIDE DEF n
<1>4. s \in Seq(N \cup {Anchor}) /\ Len(s) = n
  BY <1>1, <1>3, LenOf
<1>5. \A i \in 1 .. n : i + 0 = i
  BY <1>1
<1> QED BY <1>3, <1>4, <1>5 DEF n, Spells

(* The stack of a node that the way to another passes.                     *)
LEMMA StackUp ==
  ASSUME NEW link, NEW N, N \subseteq AvlNodes, NEW way, FromTop(link, N, way), NEW q \in 2 .. Len(way)
  PROVE  StackFits(link, N, SubSeq(NodesOf(way), 1, q - 2), way[q].node)
<1> DEFINE w == SubSeq(way, 1, q - 1)
           s == NodesOf(way)
<1>1. IsWay(link, N, way) /\ way[1] = TopStep
  BY DEF FromTop
<1>2. /\ Len(way) \in Nat /\ q \in Nat /\ q - 1 \in 1 .. Len(way) /\ q - 1 < Len(way) /\ (q - 1) + 1 = q
      /\ q - 2 \in 0 .. Len(way) - 1
  BY <1>1, StepsOf
<1>0. w = SubSeq(way, 1, q - 1) /\ s = NodesOf(way)
  OBVIOUS
<1> HIDE DEF w, s
<1>3. /\ IsWay(link, N, w) /\ Len(w) = q - 1 /\ w[1] = way[1]
      /\ \A i \in 1 .. q - 1 : w[i] = way[i]
      /\ Goes(link, w, Len(w)) = way[q].node
  <2>1. Begins(link, N, way, q - 1, w)
    BY <1>0, <1>1, <1>2, WayFirst
  <2> QED BY <1>2, <2>1 DEF Begins
<1>4. s \in Seq(N) /\ Len(s) = Len(way) - 1 /\ \A i \in 1 .. Len(way) - 1 : s[i] = way[i + 1].node
  <2>1. Spells(N, way, 1, s)
    BY <1>0, <1>1, NodesOfAre
  <2> QED BY <2>1 DEF Spells
<1>5. SubSeq(s, 1, q - 2) \in Seq(N) /\ Len(SubSeq(s, 1, q - 2)) = q - 2
      /\ \A i \in 1 .. q - 2 : SubSeq(s, 1, q - 2)[i] = s[i]
  BY <1>2, <1>4, PrefixIs
<1> DEFINE a == SubSeq(s, 1, q - 2)
           b == NodesOf(w)
<1>a. b = NodesOf(w) /\ a = SubSeq(s, 1, q - 2)
  OBVIOUS
<1> HIDE DEF a, b
<1>6. b \in Seq(N) /\ Len(b) = Len(w) - 1 /\ \A i \in 1 .. Len(w) - 1 : b[i] = w[i + 1].node
  <2>1. Spells(N, w, 1, b)
    BY <1>3, <1>a, NodesOfAre
  <2> QED BY <2>1 DEF Spells
<1>7. Len(b) = q - 2 /\ a \in Seq(N) /\ Len(a) = q - 2 /\ \A i \in 1 .. q - 2 : a[i] = s[i]
  BY <1>2, <1>3, <1>5, <1>6, <1>a
<1>8. \A i \in 1 .. q - 2 : a[i] = b[i]
  <2> TAKE i \in 1 .. q - 2
  <2>1. i \in 1 .. Len(way) - 1 /\ i \in 1 .. Len(w) - 1 /\ i + 1 \in 1 .. q - 1
    BY <1>2, <1>3
  <2> QED BY <1>3, <1>4, <1>6, <1>7, <2>1
<1>9. a = b
  BY <1>6, <1>7, <1>8, SeqEqual
<1>10. FromTop(link, N, w)
  BY <1>1, <1>3 DEF FromTop
<1> QED BY <1>0, <1>3, <1>9, <1>10, <1>a DEF StackFits

LEMMA StackEnd ==
  ASSUME NEW link, NEW N, N \subseteq AvlNodes, NEW way, FromTop(link, N, way), Len(way) >= 2
  PROVE  StackFits(link, N, Tail(NodesAbove(way)), way[Len(way)].node)
<1> DEFINE w == SubSeq(way, 1, Len(way) - 1)
           s == NodesAbove(way)
           L == Len(way)
           a == Tail(s)
           b == NodesOf(w)
<1>1. IsWay(link, N, way) /\ way[1] = TopStep
  BY DEF FromTop
<1>2. L \in Nat /\ L >= 2 /\ L - 1 \in 1 .. L /\ L - 1 < L /\ (L - 1) + 1 = L
  BY <1>1, StepsOf
<1>0. w = SubSeq(way, 1, L - 1) /\ s = NodesAbove(way) /\ b = NodesOf(w)
  OBVIOUS
<1> HIDE DEF w, s, b
<1>3. /\ IsWay(link, N, w) /\ Len(w) = L - 1 /\ w[1] = way[1]
      /\ \A i \in 1 .. L - 1 : w[i] = way[i]
      /\ Goes(link, w, Len(w)) = way[L].node
  <2>1. Begins(link, N, way, L - 1, w)
    BY <1>0, <1>1, <1>2, WayFirst
  <2> QED BY <1>2, <2>1 DEF Begins
<1>4. s \in Seq(N \cup {Anchor}) /\ Len(s) = L - 1 /\ \A i \in 1 .. L - 1 : s[i] = way[i].node
  <2>1. Spells(N \cup {Anchor}, way, 0, s)
    BY <1>0, <1>1, NodesAboveAre
  <2>2. \A i \in 1 .. L - 1 : i + 0 = i
    BY <1>2
  <2> QED BY <2>1, <2>2 DEF Spells
<1>5. b \in Seq(N) /\ Len(b) = Len(w) - 1 /\ \A i \in 1 .. Len(w) - 1 : b[i] = w[i + 1].node
  <2>1. Spells(N, w, 1, b)
    BY <1>0, <1>3, NodesOfAre
  <2> QED BY <2>1 DEF Spells
<1> HIDE DEF L
<1>6. a \in Seq(N \cup {Anchor}) /\ Len(a) = L - 2 /\ \A i \in 1 .. L - 2 : a[i] = s[i + 1]
  <2>1. s # <<>>
    BY <1>2, <1>4
  <2>2. Len(s) - 1 = L - 2
    BY <1>2, <1>4
  <2> QED BY <1>4, <2>1, <2>2, HeadTailProperties
<1>7. Len(b) = L - 2 /\ b \in Seq(N \cup {Anchor})
  <2>1. Len(w) - 1 = L - 2
    BY <1>2, <1>3
  <2>2. \A i \in 1 .. Len(b) : b[i] \in N
    BY <1>5
  <2> QED BY <1>5, <2>1, <2>2
<1>8. \A i \in 1 .. L - 2 : a[i] = b[i]
  <2> TAKE i \in 1 .. L - 2
  <2>1. i + 1 \in 1 .. L - 1 /\ i \in 1 .. Len(w) - 1
    BY SMTT(30), <1>2, <1>3
  <2> QED BY <1>3, <1>4, <1>5, <1>6, <2>1
<1> HIDE DEF a
<1>9. a = b
  BY <1>6, <1>7, <1>8, SeqEqual
<1>10. StackFits(link, N, a, way[L].node)
  <2>1. FromTop(link, N, w)
    BY <1>1, <1>3 DEF FromTop
  <2> QED BY <1>0, <1>3, <1>9, <2>1 DEF StackFits
<1> QED BY <1>0, <1>10 DEF a, L

LEMMA StackDown ==
  ASSUME NEW link, NEW N, N \subseteq AvlNodes, NEW way, FromTop(link, N, way),
         NEW x \in N, Goes(link, way, Len(way)) = x,
         NEW down, IsWay(link, N, down), down[1].node = x, Len(down) >= 2
  PROVE  StackFits(link, N, NodesOf(way) \o NodesAbove(down), down[Len(down)].node)
<1> DEFINE L == Len(way)
           D == Len(down)
           v == SubSeq(down, 1, D - 1)
           w == way \o v
           s == NodesOf(way)
           r == NodesAbove(down)
           a == s \o r
           b == NodesOf(w)
<1>1. IsWay(link, N, way) /\ way[1] = TopStep
  BY DEF FromTop
<1>2. L \in Nat \ {0} /\ D \in Nat /\ D >= 2 /\ D - 1 \in 1 .. D /\ D - 1 < D /\ (D - 1) + 1 = D
  <2>1. L \in Nat \ {0} /\ D \in Nat
    BY <1>1, StepsOf
  <2> QED BY <2>1
<1>0. v = SubSeq(down, 1, D - 1) /\ w = way \o v /\ s = NodesOf(way) /\ r = NodesAbove(down) /\ b = NodesOf(w)
  OBVIOUS
<1> HIDE DEF v, w, s, r, b
<1>3. /\ IsWay(link, N, v) /\ Len(v) = D - 1 /\ v[1] = down[1]
      /\ \A i \in 1 .. D - 1 : v[i] = down[i]
      /\ Goes(link, v, Len(v)) = down[D].node
  <2>1. Begins(link, N, down, D - 1, v)
    BY <1>0, <1>2, WayFirst
  <2> QED BY <1>2, <2>1 DEF Begins
<1>4. /\ IsWay(link, N, w) /\ Len(w) = L + Len(v) /\ w[1] = way[1]
      /\ Goes(link, w, Len(w)) = Goes(link, v, Len(v))
      /\ \A i \in 1 .. L : w[i] = way[i]
      /\ \A i \in 1 .. Len(v) : w[L + i] = v[i]
  <2>1. v[1].node \in N /\ Goes(link, way, Len(way)) = v[1].node
    BY <1>3
  <2>2. Joins(link, N, way, v, w)
    BY <1>0, <1>1, <1>3, <2>1, WayJoin
  <2> QED BY <2>2 DEF Joins
<1>5. s \in Seq(N) /\ Len(s) = L - 1 /\ \A i \in 1 .. L - 1 : s[i] = way[i + 1].node
  <2>1. Spells(N, way, 1, s)
    BY <1>0, <1>1, NodesOfAre
  <2> QED BY <2>1 DEF Spells
<1>6. r \in Seq(N \cup {Anchor}) /\ Len(r) = D - 1 /\ \A i \in 1 .. D - 1 : r[i] = down[i].node
  <2>1. Spells(N \cup {Anchor}, down, 0, r)
    BY <1>0, NodesAboveAre
  <2>2. \A i \in 1 .. D - 1 : i + 0 = i
    BY <1>2
  <2> QED BY <2>1, <2>2 DEF Spells
<1>7. b \in Seq(N) /\ Len(b) = Len(w) - 1 /\ \A i \in 1 .. Len(w) - 1 : b[i] = w[i + 1].node
  <2>1. Spells(N, w, 1, b)
    BY <1>0, <1>4, NodesOfAre
  <2> QED BY <2>1 DEF Spells
<1> HIDE DEF L, D
<1>8. Len(w) = L + (D - 1) /\ Len(b) = (L - 1) + (D - 1) /\ Len(w) - 1 = (L - 1) + (D - 1)
  BY <1>2, <1>3, <1>4, <1>7
<1>9. s \in Seq(N \cup {Anchor}) /\ b \in Seq(N \cup {Anchor})
  <2>1. (\A i \in 1 .. Len(s) : s[i] \in N) /\ (\A i \in 1 .. Len(b) : b[i] \in N)
    BY <1>5, <1>7
  <2> QED BY <1>5, <1>7, <2>1
<1>10. a \in Seq(N \cup {Anchor}) /\ Len(a) = (L - 1) + (D - 1)
       /\ \A i \in 1 .. (L - 1) + (D - 1) : a[i] = IF i <= L - 1 THEN s[i] ELSE r[i - (L - 1)]
  <2> DEFINE l == L - 1
             k == D - 1
  <2>1. l \in Nat /\ k \in Nat /\ Len(s) = l /\ Len(r) = k
    BY <1>2, <1>5, <1>6
  <2> HIDE DEF l, k
  <2>2. a \in Seq(N \cup {Anchor}) /\ Len(a) = l + k /\ \A i \in 1 .. l + k : a[i] = IF i <= l THEN s[i] ELSE r[i - l]
    <3> DEFINE S == N \cup {Anchor}
    <3>1. s \in Seq(S) /\ r \in Seq(S)
      BY <1>6, <1>9
    <3> HIDE DEF S
    <3>2. a \in Seq(S) /\ Len(a) = Len(s) + Len(r)
      BY <3>1, ConcatProperties
    <3>3. \A i \in 1 .. Len(s) + Len(r) : a[i] = IF i <= Len(s) THEN s[i] ELSE r[i - Len(s)]
      BY <3>1, ConcatProperties
    <3> QED BY <2>1, <3>2, <3>3 DEF S
  <2> QED BY <2>2 DEF l, k
<1>11. ASSUME NEW i \in 1 .. (L - 1) + (D - 1) PROVE a[i] = b[i]
  <2>1. b[i] = w[i + 1].node
    BY <1>7, <1>8
  <2>2. CASE i <= L - 1
    <3>1. i \in 1 .. L - 1 /\ i + 1 \in 1 .. L
      BY <1>2, <2>2
    <3> QED BY <1>4, <1>5, <1>10, <2>1, <2>2, <3>1
  <2>3. CASE i > L - 1
    <3> DEFINE j == i - (L - 1)
    <3>1. j \in 1 .. D - 1 /\ i + 1 = L + j /\ j \in 1 .. Len(v) /\ ~ (i <= L - 1)
      BY <1>2, <1>3, <2>3
    <3>2. a[i] = r[j]
      BY <1>10, <3>1
    <3> HIDE DEF j
    <3>3. b[i] = v[j].node /\ v[j] = down[j] /\ r[j] = down[j].node
      BY <1>3, <1>4, <1>6, <2>1, <3>1
    <3> QED BY <3>2, <3>3
  <2>4. i <= L - 1 \/ i > L - 1
    BY <1>2
  <2> QED BY <2>2, <2>3, <2>4
<1> HIDE DEF a
<1>12. a = b
  BY <1>8, <1>9, <1>10, <1>11, SeqEqual
<1>13. StackFits(link, N, a, down[D].node)
  <2>1. FromTop(link, N, w)
    BY <1>1, <1>4 DEF FromTop
  <2> QED BY <1>0, <1>3, <1>4, <1>12, <2>1 DEF StackFits
<1> QED BY <1>0, <1>13 DEF a, D

-----------------------------------------------------------------------------
(* The next node on a side.                                                *)
Follows(s, x, d) == s \in Beyond(x, d) /\ \A k \in Beyond(x, d) : k = s \/ On(d, k, s)

(* It has the stack that leads to it.                                      *)
NextIs(x, d, s, stack) ==
  \/ s = NULLNODE /\ Beyond(x, d) = {}
  \/ s \in av_nodes /\ Follows(s, x, d) /\ StackFits(av_link, av_nodes, stack, s)

LEMMA BeyondIs ==
  ASSUME NEW x, NEW d
  PROVE  \A k : k \in Beyond(x, d) <=> k \in av_nodes /\ On(d, k, x)
BY DEF Beyond, On

(* Down: the last node on the other side of what is below on this.         *)
LEMMA DownNext ==
  ASSUME NEW T, NEW P, Shaped(av_link, av_nodes, T, P), NEW way, FromTop(av_link, av_nodes, way),
         NEW x \in av_nodes, Goes(av_link, way, Len(way)) = x, NEW d \in Sides, av_link[x][d] # NULLNODE,
         NEW down, down = Outward(Step(x, d), 1 - d)
  PROVE  /\ Len(down) > 1
         /\ NextIs(x, d, Last(down).node, NodesOf(way) \o NodesAbove(down))
<1> DEFINE N == av_nodes
           from == Step(x, d)
           s == Last(down).node
           e == 1 - d
<1>1. /\ N \subseteq AvlNodes /\ N \subseteq Nat /\ x \in Nat /\ e \in Sides /\ 1 - e = d
      /\ Nested(av_link, N, T)
  <2>1. N \subseteq AvlNodes
    BY DEF Shaped
  <2>2. N \subseteq Nat /\ x \in Nat
    BY <2>1, NumbersOf
  <2>3. e \in Sides /\ 1 - e = d
    BY NumbersOf
  <2>4. Nested(av_link, N, T)
    BY NestedIs
  <2> QED BY <2>1, <2>2, <2>3, <2>4
<1>2. from \in Steps /\ from.node = x /\ from.node \in N \cup {Anchor} /\ Below(from) = av_link[x][d]
  BY <1>1, StepIs DEF Below, Parents
<1> HIDE DEF from
<1>3. down = Outward(from, e)
  BY DEF from
<1> HIDE DEF e
<1>4. /\ IsWay(av_link, N, down) /\ down[1] = from /\ Len(down) >= 2
      /\ s \in T[av_link[x][d]]
      /\ \A k \in T[av_link[x][d]] : k = s \/ On(d, k, s)
  BY SMTT(30), <1>1, <1>2, <1>3, OutwardIs
<1>5. Last(down) = down[Len(down)] /\ Len(down) \in Nat /\ Len(down) > 1
  <2>1. IsWay(av_link, N, down) /\ N \subseteq AvlNodes
    BY <1>1, <1>4
  <2> QED BY <1>4, <2>1, StepsOf
<1>6. T[x] = {x} \cup T[av_link[x][d]] \cup T[av_link[x][1 - d]] /\ T[x] \subseteq N
  <2>1. T[x] = {x} \cup T[av_link[x][d]] \cup T[av_link[x][1 - d]]
    BY <1>1 DEF Nested
  <2>2. T[x] \subseteq N
    BY <1>1 DEF Nested
  <2> QED BY <2>1, <2>2
<1> HIDE DEF s
<1>7. s \in N /\ On(d, s, x) /\ s \in Nat /\ s \in T[x]
  BY <1>1, <1>4, <1>6 DEF Shaped
<1>8. ASSUME NEW k \in N, On(d, k, x) PROVE k = s \/ On(d, k, s)
  <2>1. k \in Nat /\ k # x /\ ~ On(1 - d, k, x)
    BY <1>1, <1>8 DEF On, Sides
  <2>2. CASE k \in T[x]
    <3>1. k \notin T[av_link[x][1 - d]]
      BY <1>1, <2>1 DEF Shaped, e
    <3> QED BY <1>4, <1>6, <2>1, <2>2, <3>1
  <2>3. CASE k \notin T[x]
    <3>1. Len(way) \in 1 .. Len(way) /\ k \notin T[Goes(av_link, way, Len(way))]
      BY <2>3, TopFacts
    <3>2. PICK f \in Sides : \A l \in T[Goes(av_link, way, Len(way))] : On(f, k, l)
      BY <3>1, Apart
    <3>3. On(f, k, x) /\ On(f, k, s)
      BY <1>6, <1>7, <3>2
    <3>4. f = d
      BY <1>1, <1>8, <2>1, <3>3 DEF On, Sides
    <3> QED BY <3>3, <3>4
  <2> QED BY <2>2, <2>3
<1>9. Follows(s, x, d)
  BY <1>7, <1>8, BeyondIs DEF Follows
<1>10. down[1].node = x
  BY <1>2, <1>4
<1>11. StackFits(av_link, N, NodesOf(way) \o NodesAbove(down), down[Len(down)].node)
  BY <1>1, <1>4, <1>10, StackDown
<1>12. StackFits(av_link, N, NodesOf(way) \o NodesAbove(down), s)
  BY <1>5, <1>11 DEF s
<1> QED BY <1>5, <1>7, <1>9, <1>12 DEF NextIs, s

(* Up: the last node of the way whose other side was taken.                *)
LEMMA UpNext ==
  ASSUME NEW T, NEW P, Shaped(av_link, av_nodes, T, P), NEW way, FromTop(av_link, av_nodes, way),
         NEW x \in av_nodes, Goes(av_link, way, Len(way)) = x, NEW d \in Sides, av_link[x][d] = NULLNODE,
         NEW stack, stack = NodesOf(way)
  PROVE  NextIs(x, d, Climb(x, stack, d).node, Climb(x, stack, d).stack)
<1> DEFINE N == av_nodes
           L == Len(way)
           Lower(i) == IF i = Len(stack) THEN x ELSE stack[i + 1]
           other == {i \in 1 .. Len(stack) : av_link[stack[i]][d] # Lower(i)}
           turned == {i \in 1 .. L - 1 : way[i + 1].side # d}
<1>1. /\ N \subseteq AvlNodes /\ N \subseteq Nat /\ x \in Nat /\ NULLNODE \notin N
      /\ Nested(av_link, N, T)
  <2>1. N \subseteq AvlNodes
    BY DEF Shaped
  <2> QED BY <2>1, NumbersOf, NestedIs
<1>2. IsWay(av_link, N, way)
  BY DEF FromTop
<1>3. Spells(N, way, 1, stack)
  BY <1>1, <1>2, NodesOfAre
<1>4. Len(stack) = L - 1 /\ \A i \in 1 .. L - 1 : stack[i] = way[i + 1].node
  BY <1>3 DEF Spells
<1>5. L \in Nat \ {0} /\ L \in 1 .. L
      /\ \A i \in 2 .. L : /\ way[i].node \in N /\ way[i].side \in Sides /\ Goes(av_link, way, i - 1) = way[i].node
                           /\ way[i].node \in Nat
                           /\ \A k \in T[Goes(av_link, way, i)] : On(way[i].side, k, way[i].node)
  BY TopFacts
<1>6. ASSUME NEW i \in 1 .. L - 1
      PROVE  av_link[stack[i]][d] # Lower(i) <=> way[i + 1].side # d
  <2> DEFINE a == way[i + 1].node
             e == way[i + 1].side
  <2>1. i + 1 \in 2 .. L
    BY <1>5
  <2>2. a \in N /\ e \in Sides /\ stack[i] = a /\ Goes(av_link, way, i + 1) = av_link[a][e]
    BY <1>4, <1>5, <2>1 DEF Goes
  <2>3. Lower(i) = av_link[a][e] /\ av_link[a][e] \in N
    <3>1. CASE i = L - 1
      <4>1. i + 1 = L
        BY <1>5, <3>1
      <4> QED BY <1>4, <2>2, <3>1, <4>1
    <3>2. CASE i # L - 1
      <4>1. i + 1 \in 1 .. L - 1 /\ i + 2 \in 2 .. L /\ (i + 2) - 1 = i + 1 /\ (i + 1) + 1 = i + 2
        BY <1>5, <3>2
      <4>2. stack[i + 1] = way[i + 2].node
        BY <1>4, <4>1
      <4>3. way[i + 2].node \in N /\ Goes(av_link, way, i + 1) = way[i + 2].node
        BY <1>5, <4>1
      <4> QED BY <1>4, <2>2, <3>2, <4>2, <4>3
    <3> QED BY <3>1, <3>2
  <2> HIDE DEF a, e
  <2>4. ASSUME e # d PROVE av_link[a][d] # av_link[a][e]
    <3>1. e = 1 - d
      BY <2>2, <2>4, NumbersOf
    <3> DEFINE b == av_link[a][e]
    <3>2. b \in N /\ b \in T[b]
      BY <1>1, <2>3 DEF Nested
    <3>3. \A k \in T[av_link[a][d]] : k \notin T[av_link[a][1 - d]]
      BY <1>1, <2>2 DEF Nested
    <3> QED BY <3>1, <3>2, <3>3
  <2> QED BY <2>2, <2>3, <2>4 DEF e
<1>7. other = turned
  BY <1>4, <1>6
<1>8. /\ other = {} => Climb(x, stack, d).node = NULLNODE
      /\ other # {} => /\ Climb(x, stack, d).node = stack[Max(other)]
                       /\ Climb(x, stack, d).stack = SubSeq(stack, 1, Max(other) - 1)
  BY DEF Climb
<1> HIDE DEF other
<1>9. \A k \in N : k \in Nat
  BY <1>1
<1>10. CASE turned = {}
  <2>1. \A i \in 1 + 1 .. L : way[i].side = d
    <3> TAKE i \in 1 + 1 .. L
    <3>1. i - 1 \in 1 .. L - 1 /\ (i - 1) + 1 = i
      BY <1>5
    <3>2. i - 1 \notin turned
      BY <1>10
    <3> QED BY <3>1, <3>2
  <2>2. 1 \in 1 .. L /\ T[Goes(av_link, way, 1)] = N
    BY TopFacts
  <2>3. ASSUME NEW k \in N PROVE ~ On(d, k, x)
    <3>1. k \in T[Goes(av_link, way, 1)] /\ k \in Nat
      BY <1>9, <2>2
    <3> QED BY <2>1, <2>2, <3>1, NoneBetween
  <2>4. Beyond(x, d) = {}
    BY <2>3, BeyondIs
  <2> QED BY <1>7, <1>8, <1>10, <2>4 DEF NextIs
<1>11. CASE turned # {}
  <2> DEFINE m == Max(turned)
             q == m + 1
             a == way[q].node
  <2>1. m \in turned /\ \A k \in turned : m >= k
    <3>1. turned \subseteq Nat /\ (\A k \in turned : k <= L) /\ 0 \notin turned /\ L \in Nat
      BY <1>5
    <3> HIDE DEF turned
    <3>2. PICK n \in turned \cup {0} : \A k \in turned : k <= n
      BY <3>1, LargestOf
    <3>3. n \in turned /\ \A k \in turned : n >= k
      <4>1. PICK k \in turned : k <= n
        BY <1>11, <3>2
      <4>2. n \in Nat /\ k \in Nat /\ k # 0
        BY <3>1, <4>1
      <4>3. n # 0
        BY <4>1, <4>2
      <4>4. \A l \in turned : l \in Nat /\ l <= n
        BY <3>1, <3>2
      <4> QED BY <4>2, <4>3, <4>4
    <3> QED BY <3>3 DEF Max, m
  <2> HIDE DEF m
  <2>2. m \in 1 .. L - 1 /\ q \in 2 .. L /\ q \in 1 .. L /\ way[q].side # d /\ q - 2 = m - 1 /\ q \in Nat
    BY <1>5, <2>1
  <2>3. \A i \in q + 1 .. L : way[i].side = d
    <3> TAKE i \in q + 1 .. L
    <3>1. i - 1 \in 1 .. L - 1 /\ (i - 1) + 1 = i /\ ~ (m >= i - 1)
      BY <1>5, <2>2
    <3>2. i - 1 \notin turned
      BY <2>1, <3>1
    <3> QED BY <3>1, <3>2
  <2>4. Climb(x, stack, d).node = a /\ Climb(x, stack, d).stack = SubSeq(stack, 1, q - 2)
    BY <1>4, <1>7, <1>8, <1>11, <2>2 DEF m
  <2> HIDE DEF q
  <2>5. StackFits(av_link, N, SubSeq(stack, 1, q - 2), a)
    BY <1>1, <2>2, StackUp
  <2>6. /\ a \in N /\ a \in Nat /\ way[q].side = 1 - d /\ Goes(av_link, way, q) = av_link[a][1 - d]
        /\ \A k \in T[Goes(av_link, way, q)] : On(1 - d, k, a)
    <3>1. way[q].side \in Sides
      BY <1>5, <2>2
    <3>2. way[q].side = 1 - d
      BY <2>2, <3>1, NumbersOf
    <3> QED BY <1>5, <2>2, <3>2 DEF Goes
  <2>7. x \in T[Goes(av_link, way, q)]
    <3>1. CASE q = L
      BY <1>1, <3>1 DEF Nested
    <3>2. CASE q # L
      <4>1. L \in 2 .. L /\ L \in 1 .. L /\ q < L
        BY <1>5, <2>2, <3>2
      <4>2. T[way[L].node] \subseteq T[Goes(av_link, way, q)]
        BY <1>2, <2>2, <4>1, WayNested
      <4> DEFINE b == way[L].node
                 e == way[L].side
      <4>3. b \in N /\ e \in Sides /\ x = av_link[b][e]
        BY <1>5, <4>1 DEF Goes
      <4> HIDE DEF b, e
      <4>4. T[av_link[b][e]] \subseteq T[b] /\ x \in T[x]
        BY <1>1, <4>3 DEF Nested
      <4> QED BY <4>2, <4>3, <4>4 DEF b
    <3> QED BY <3>1, <3>2
  <2>8. On(1 - d, x, a)
    BY <2>6, <2>7
  <2>9. On(d, a, x)
    BY <1>1, <2>6, <2>8 DEF On, Sides
  <2> HIDE DEF a
  <2>10. ASSUME NEW k \in N, On(d, k, x) PROVE k = a \/ On(d, k, a)
    <3>0. k \in Nat
      BY <1>9
    <3>1. k \notin T[Goes(av_link, way, q)]
      <4> SUFFICES ASSUME k \in T[Goes(av_link, way, q)] PROVE FALSE
        OBVIOUS
      <4> QED BY <2>2, <2>3, <2>10, <3>0, NoneBetween
    <3>2. T[a] = {a} \cup T[av_link[a][d]] \cup T[av_link[a][1 - d]]
      BY <1>1, <2>6 DEF Nested
    <3>3. \A l \in T[av_link[a][d]] : On(d, l, a)
      BY <2>6 DEF Shaped
    <3>4. CASE k \in T[a]
      BY <2>6, <3>1, <3>2, <3>3, <3>4
    <3>5. CASE k \notin T[a]
      <4>1. q - 1 \in 1 .. L /\ Goes(av_link, way, q - 1) = a
        BY <1>5, <2>2 DEF a
      <4>2. PICK f \in Sides : \A l \in T[Goes(av_link, way, q - 1)] : On(f, k, l)
        BY <3>5, <4>1, Apart
      <4>3. x \in T[a] /\ a \in T[a]
        BY <2>6, <2>7, <3>2
      <4>4. On(f, k, x) /\ On(f, k, a)
        BY <4>1, <4>2, <4>3
      <4>5. f = d
        BY <1>1, <2>10, <3>0, <4>4 DEF On, Sides
      <4> QED BY <4>4, <4>5
    <3> QED BY <3>4, <3>5
  <2>11. Follows(a, x, d)
    BY <2>6, <2>9, <2>10, BeyondIs DEF Follows
  <2> QED BY <2>4, <2>5, <2>6, <2>11 DEF NextIs
<1> QED BY <1>10, <1>11

-----------------------------------------------------------------------------
(* A traverser that is as old as the tree has the stack of its node.       *)
AtNode(node, stack, generation) ==
  /\ node \in av_nodes \cup {NULLNODE, Lost} /\ generation \in Int
  /\ node \in av_nodes =>
       /\ generation <= av_generation
       /\ generation = av_generation => StackFits(av_link, av_nodes, stack, node)

TraversersType ==
  /\ tv_node = [t \in Traversers |-> tv_node[t]]
  /\ tv_stack = [t \in Traversers |-> tv_stack[t]]
  /\ tv_generation = [t \in Traversers |-> tv_generation[t]]

TraverserInv ==
  /\ TreeInv /\ av_generation \in Nat /\ TraversersType
  /\ \A t \in Traversers : AtNode(tv_node[t], tv_stack[t], tv_generation[t])

LEMMA StandAtIs ==
  ASSUME TraversersType, NEW t \in Traversers, NEW n, NEW stack, NEW generation, StandAt(t, n, stack, generation)
  PROVE  /\ TraversersType'
         /\ tv_node'[t] = n /\ tv_stack'[t] = stack /\ tv_generation'[t] = generation
         /\ \A u \in Traversers : u # t =>
              tv_node'[u] = tv_node[u] /\ tv_stack'[u] = tv_stack[u] /\ tv_generation'[u] = tv_generation[u]
<1>1. tv_node' = [u \in Traversers |-> IF u = t THEN n ELSE tv_node[u]]
  BY DEF StandAt, TraversersType
<1>2. tv_stack' = [u \in Traversers |-> IF u = t THEN stack ELSE tv_stack[u]]
  BY DEF StandAt, TraversersType
<1>3. tv_generation' = [u \in Traversers |-> IF u = t THEN generation ELSE tv_generation[u]]
  BY DEF StandAt, TraversersType
<1> QED BY <1>1, <1>2, <1>3 DEF TraversersType

LEMMA StandKeeps ==
  ASSUME TraverserInv, UNCHANGED treeVars, NEW t \in Traversers,
         NEW n, NEW stack, NEW generation, StandAt(t, n, stack, generation), AtNode(n, stack, generation)
  PROVE  TraverserInv'
<1>1. /\ av_link' = av_link /\ av_nodes' = av_nodes /\ av_generation' = av_generation /\ TreeInv'
      /\ TraversersType
  BY DEF treeVars, TreeInv, TraverserInv
<1>2. /\ TraversersType'
      /\ tv_node'[t] = n /\ tv_stack'[t] = stack /\ tv_generation'[t] = generation
      /\ \A u \in Traversers : u # t =>
           tv_node'[u] = tv_node[u] /\ tv_stack'[u] = tv_stack[u] /\ tv_generation'[u] = tv_generation[u]
  BY <1>1, StandAtIs
<1>3. ASSUME NEW u \in Traversers PROVE AtNode(tv_node[u], tv_stack[u], tv_generation[u])'
  <2>1. AtNode(tv_node'[u], tv_stack'[u], tv_generation'[u])
    <3>1. CASE u = t
      BY <1>2, <3>1
    <3>2. CASE u # t
      BY <1>2, <3>2 DEF TraverserInv
    <3> QED BY <3>1, <3>2
  <2> QED BY <1>1, <2>1 DEF AtNode
<1> QED BY <1>1, <1>2, <1>3 DEF TraverserInv

(* A stack still fits when links have only been added.                     *)
LEMMA FitsStill ==
  ASSUME NEW link, NEW new, NEW N, N \subseteq AvlNodes, KeepsLinks(link, new, N), NEW M, N \subseteq M,
         NEW stack, NEW x \in N, StackFits(link, N, stack, x)
  PROVE  StackFits(new, M, stack, x)
<1>1. PICK way : FromTop(link, N, way) /\ Goes(link, way, Len(way)) = x /\ stack = NodesOf(way)
  BY DEF StackFits
<1>2. /\ IsWay(link, N, way) /\ way[1] = TopStep /\ NULLNODE \notin N
  BY <1>1, NumbersOf DEF FromTop
<1>3. /\ Len(way) \in Nat \ {0} /\ Len(way) \in 1 .. Len(way)
      /\ \A i \in 1 .. Len(way) : way[i].node \in N \cup {Anchor} /\ way[i].side \in Sides
  BY <1>2, StepsOf
<1>4. /\ way \in Seq(Steps) /\ Len(way) >= 1 /\ way[1].node \in N \cup {Anchor}
      /\ \A i \in 2 .. Len(way) : way[i].node \in N /\ Goes(link, way, i - 1) = way[i].node
  BY <1>2 DEF IsWay
<1>5. ASSUME NEW i \in 1 .. Len(way), Goes(link, way, i) \in N PROVE Goes(new, way, i) = Goes(link, way, i)
  <2>1. link[way[i].node][way[i].side] # NULLNODE
    BY <1>2, <1>5 DEF Goes
  <2> QED BY <1>3, <2>1 DEF KeepsLinks, Goes
<1>6. \A i \in 2 .. Len(way) : way[i].node \in M /\ Goes(new, way, i - 1) = way[i].node
  <2> TAKE i \in 2 .. Len(way)
  <2>1. i - 1 \in 1 .. Len(way)
    BY <1>3
  <2>2. way[i].node \in N /\ Goes(link, way, i - 1) = way[i].node
    BY <1>4
  <2>3. Goes(new, way, i - 1) = Goes(link, way, i - 1)
    BY <1>5, <2>1, <2>2
  <2> QED BY <2>2, <2>3
<1>7. FromTop(new, M, way)
  BY <1>2, <1>4, <1>6 DEF IsWay, FromTop
<1>8. Goes(new, way, Len(way)) = x
  BY <1>1, <1>3, <1>5
<1> QED BY <1>1, <1>7, <1>8 DEF StackFits

LEMMA ProbeFits ==
  ASSUME TraverserInv, NEW key \in AvlKeys, avl_probe(key)
  PROVE  /\ TreeInv' /\ av_generation' \in Nat /\ av_nodes' = av_nodes \cup {key}
         /\ \A t \in Traversers : AtNode(tv_node[t], tv_stack[t], tv_generation[t]) =>
              /\ tv_node[t] \in av_nodes' \cup {NULLNODE, Lost} /\ tv_generation[t] \in Int
              /\ tv_node[t] \in av_nodes' =>
                   /\ tv_generation[t] <= av_generation'
                   /\ tv_generation[t] = av_generation' => StackFits(av_link', av_nodes', tv_stack[t], tv_node[t])
<1>1. /\ TreeInv' /\ av_nodes' = av_nodes \cup {key}
      /\ \/ av_generation' = av_generation /\ KeepsLinks(av_link, av_link', av_nodes)
         \/ av_generation' = av_generation + 1
  BY ProbeKeeps DEF TraverserInv
<1>2. av_generation \in Nat /\ av_nodes \subseteq AvlNodes /\ NULLNODE \notin AvlNodes /\ Lost \notin AvlNodes
  <2>1. AvlNodes \subseteq Nat \ {0}
    BY NumbersOf
  <2>2. NULLNODE \notin AvlNodes /\ Lost \notin AvlNodes
    BY <2>1 DEF NULLNODE, Lost
  <2> QED BY <2>2 DEF TraverserInv, TreeInv, Fits
<1>3. av_generation' \in Nat /\ key \in AvlNodes
  BY <1>1, <1>2 DEF AvlNodes
<1>4. ASSUME NEW t \in Traversers, AtNode(tv_node[t], tv_stack[t], tv_generation[t])
      PROVE  /\ tv_node[t] \in av_nodes' \cup {NULLNODE, Lost} /\ tv_generation[t] \in Int
             /\ tv_node[t] \in av_nodes' =>
                  /\ tv_generation[t] <= av_generation'
                  /\ tv_generation[t] = av_generation' => StackFits(av_link', av_nodes', tv_stack[t], tv_node[t])
  <2>1. tv_node[t] \in av_nodes \cup {NULLNODE, Lost} /\ tv_generation[t] \in Int
    BY <1>4 DEF AtNode
  <2>2. ASSUME tv_node[t] \in av_nodes'
        PROVE  /\ tv_generation[t] <= av_generation'
               /\ tv_generation[t] = av_generation' => StackFits(av_link', av_nodes', tv_stack[t], tv_node[t])
    <3>1. tv_node[t] \in av_nodes
      BY <1>1, <1>2, <1>3, <2>1, <2>2
    <3>2. /\ tv_generation[t] <= av_generation
          /\ tv_generation[t] = av_generation => StackFits(av_link, av_nodes, tv_stack[t], tv_node[t])
      BY <1>4, <3>1 DEF AtNode
    <3>3. CASE av_generation' = av_generation + 1
      BY <1>2, <2>1, <3>2, <3>3
    <3>4. CASE av_generation' = av_generation /\ KeepsLinks(av_link, av_link', av_nodes)
      <4>1. ASSUME tv_generation[t] = av_generation PROVE StackFits(av_link', av_nodes', tv_stack[t], tv_node[t])
        BY <1>1, <1>2, <3>1, <3>2, <3>4, <4>1, FitsStill
      <4> QED BY <3>2, <3>4, <4>1
    <3> QED BY <1>1, <3>3, <3>4
  <2> QED BY <1>1, <2>1, <2>2
<1> QED BY <1>1, <1>3, <1>4

(* The traversers whose node goes are lost.                                *)
LEMMA LeaveKeeps ==
  ASSUME TraverserInv, NEW gone, Leave(gone), TreeInv', av_generation' \in Nat,
         av_nodes' = av_nodes \ gone, av_nodes' = {} \/ av_generation' = av_generation + 1
  PROVE  TraverserInv'
<1>1. /\ tv_node' = [t \in Traversers |-> IF tv_node[t] \in gone THEN Lost ELSE tv_node[t]]
      /\ tv_stack' = [t \in Traversers |-> IF tv_node[t] \in gone THEN <<>> ELSE tv_stack[t]]
      /\ tv_generation' = [t \in Traversers |-> IF tv_node[t] \in gone THEN 0 ELSE tv_generation[t]]
  BY DEF Leave
<1>2. TraversersType'
  BY <1>1 DEF TraversersType
<1>3. av_generation \in Nat /\ Lost \notin av_nodes'
  <2>1. AvlNodes \subseteq Nat \ {0}
    BY NumbersOf
  <2>2. av_nodes' \subseteq AvlNodes
    BY DEF TreeInv, Fits
  <2> QED BY <2>1, <2>2 DEF Lost, TraverserInv
<1>4. ASSUME NEW t \in Traversers PROVE AtNode(tv_node[t], tv_stack[t], tv_generation[t])'
  <2>1. /\ tv_node[t] \in av_nodes \cup {NULLNODE, Lost} /\ tv_generation[t] \in Int
        /\ tv_node[t] \in av_nodes => tv_generation[t] <= av_generation
    BY DEF TraverserInv, AtNode
  <2>2. CASE tv_node[t] \in gone
    <3>1. tv_node'[t] = Lost /\ tv_generation'[t] = 0
      BY <1>1, <2>2
    <3> QED BY <1>3, <3>1 DEF AtNode
  <2>3. CASE tv_node[t] \notin gone
    <3>1. tv_node'[t] = tv_node[t] /\ tv_generation'[t] = tv_generation[t]
      BY <1>1, <2>3
    <3>2. tv_node[t] \in av_nodes' => tv_node[t] \in av_nodes
      OBVIOUS
    <3>3. CASE av_nodes' = {}
      BY <2>1, <2>3, <3>1, <3>3 DEF AtNode
    <3>4. CASE av_generation' = av_generation + 1
      <4>1. tv_node'[t] \in av_nodes' \cup {NULLNODE, Lost} /\ tv_generation'[t] \in Int
        BY <2>1, <2>3, <3>1
      <4>2. tv_node'[t] \in av_nodes' => tv_generation'[t] < av_generation'
        BY <1>3, <2>1, <3>1, <3>2, <3>4
      <4> QED BY <1>3, <3>4, <4>1, <4>2 DEF AtNode
    <3> QED BY <3>3, <3>4
  <2> QED BY <2>2, <2>3
<1> QED BY <1>2, <1>4 DEF TraverserInv

-----------------------------------------------------------------------------
(* Where the traversers' operations stand.                                 *)
LEMMA NowhereFits ==
  ASSUME av_generation \in Nat, av_nodes \subseteq AvlNodes, NEW stack
  PROVE  AtNode(NULLNODE, stack, av_generation)
<1>1. NULLNODE \notin av_nodes
  BY NumbersOf
<1> QED BY <1>1 DEF AtNode

LEMMA EndFits ==
  ASSUME TraverserInv, NEW t \in Traversers, NEW d \in Sides, avl_t_end(t, d)
  PROVE  \E n, stack : StandAt(t, n, stack, av_generation) /\ AtNode(n, stack, av_generation)
<1>1. PICK T, P : Shaped(av_link, av_nodes, T, P)
  BY DEF TraverserInv, TreeInv, Fits
<1>2. av_nodes \subseteq AvlNodes /\ av_generation \in Nat
  BY <1>1 DEF Shaped, TraverserInv
<1>3. TopStep \in Steps /\ TopStep.node = Anchor
  <2>1. Anchor \in Parents /\ 0 \in Sides
    BY DEF Parents, Sides
  <2> QED BY <2>1, StepIs DEF TopStep
<1> DEFINE way == Outward(TopStep, d)
<1>4. /\ IsWay(av_link, av_nodes, way) /\ way[1] = TopStep
  BY <1>1, <1>3, OutwardIs
<1>5. IF Len(way) = 1 THEN StandAt(t, NULLNODE, <<>>, av_generation)
      ELSE StandAt(t, Last(way).node, Tail(NodesAbove(way)), av_generation)
  BY DEF avl_t_end
<1> HIDE DEF way
<1>6. Len(way) \in Nat \ {0} /\ Last(way) = way[Len(way)] /\ FromTop(av_link, av_nodes, way)
  BY <1>2, <1>4, StepsOf DEF FromTop
<1>7. CASE Len(way) = 1
  <2>1. StandAt(t, NULLNODE, <<>>, av_generation) /\ AtNode(NULLNODE, <<>>, av_generation)
    BY <1>2, <1>5, <1>7, NowhereFits
  <2> QED BY <2>1
<1>8. CASE Len(way) # 1
  <2>0. \A l \in Nat \ {0} : l # 1 => l >= 2
    OBVIOUS
  <2>1. Len(way) >= 2
    BY <1>6, <1>8, <2>0
  <2>2. StackFits(av_link, av_nodes, Tail(NodesAbove(way)), way[Len(way)].node)
    BY <1>2, <1>6, <2>1, StackEnd
  <2>3. way[Len(way)].node \in av_nodes
    BY <1>4, <1>6, <2>1 DEF IsWay
  <2>4. AtNode(Last(way).node, Tail(NodesAbove(way)), av_generation)
    BY <1>2, <1>6, <2>2, <2>3 DEF AtNode
  <2> QED BY <1>5, <1>8, <2>4
<1> QED BY <1>7, <1>8

LEMMA SearchFits ==
  ASSUME TraverserInv, NEW key \in AvlKeys
  PROVE  /\ avl_find(key) = IF key \in av_nodes THEN key ELSE NULLNODE
         /\ key \in av_nodes => StackFits(av_link, av_nodes, NodesOf(Way(key)), key)
<1>1. PICK T, P : Shaped(av_link, av_nodes, T, P)
  BY DEF TraverserInv, TreeInv, Fits
<1>2. /\ IsWay(av_link, av_nodes, Way(key)) /\ Way(key)[1] = TopStep
      /\ avl_find(key) = Goes(av_link, Way(key), Len(Way(key)))
      /\ avl_find(key) = IF key \in av_nodes THEN key ELSE NULLNODE
  BY <1>1, SearchIs
<1>3. FromTop(av_link, av_nodes, Way(key))
  BY <1>2 DEF FromTop
<1> QED BY <1>2, <1>3 DEF StackFits

LEMMA FindFits ==
  ASSUME TraverserInv, NEW t \in Traversers, NEW key \in AvlKeys, avl_t_find(t, key)
  PROVE  \E n, stack : StandAt(t, n, stack, av_generation) /\ AtNode(n, stack, av_generation)
<1>1. av_nodes \subseteq AvlNodes /\ av_generation \in Nat
  BY DEF TraverserInv, TreeInv, Fits
<1>2. CASE key \notin av_nodes
  <2>1. StandAt(t, NULLNODE, <<>>, av_generation)
    BY <1>2, SearchFits DEF avl_t_find
  <2>2. AtNode(NULLNODE, <<>>, av_generation)
    BY <1>1, NowhereFits
  <2> QED BY <2>1, <2>2
<1>3. CASE key \in av_nodes
  <2>0. key # NULLNODE
    BY NumbersOf DEF AvlNodes
  <2>1. StandAt(t, key, NodesOf(Way(key)), av_generation)
    BY <1>3, <2>0, SearchFits DEF avl_t_find
  <2>2. StackFits(av_link, av_nodes, NodesOf(Way(key)), key)
    BY <1>3, SearchFits
  <2>3. AtNode(key, NodesOf(Way(key)), av_generation)
    BY <1>1, <1>3, <2>2 DEF AtNode
  <2> QED BY <2>1, <2>3
<1> QED BY <1>2, <1>3

(* From a node a traverser goes to the next one.                           *)
LEMMA WalkFits ==
  ASSUME TraverserInv, NEW t \in Traversers, NEW d \in Sides, avl_t_step(t, d), tv_node[t] \in av_nodes
  PROVE  \E s, stack : StandAt(t, s, stack, av_generation) /\ NextIs(tv_node[t], d, s, stack)
<1> DEFINE x == tv_node[t]
           stack == Stack(t)
           down == Outward(Step(x, d), 1 - d)
           up == Climb(x, stack, d)
<1>1. PICK T, P : Shaped(av_link, av_nodes, T, P)
  BY DEF TraverserInv, TreeInv, Fits
<1>2. av_nodes \subseteq AvlNodes /\ x \in AvlKeys /\ x # NULLNODE /\ x \in av_nodes
  <2>1. av_nodes \subseteq AvlNodes /\ NULLNODE \notin AvlNodes
    BY <1>1, NumbersOf DEF Shaped
  <2> QED BY <2>1 DEF AvlNodes
<1>3. StackFits(av_link, av_nodes, stack, x)
  <2>1. CASE tv_generation[t] = av_generation
    BY <2>1 DEF TraverserInv, AtNode, Stack
  <2>2. CASE tv_generation[t] # av_generation
    <3>1. stack = NodesOf(Way(x))
      BY <2>2 DEF Stack
    <3> QED BY <1>2, <3>1, SearchFits
  <2> QED BY <2>1, <2>2
<1>4. IF Len(down) > 1
      THEN StandAt(t, Last(down).node, stack \o NodesAbove(down), av_generation)
      ELSE StandAt(t, up.node, up.stack, av_generation)
  BY <1>2 DEF avl_t_step
<1> HIDE DEF x, stack
<1>5. PICK way : FromTop(av_link, av_nodes, way) /\ Goes(av_link, way, Len(way)) = x /\ stack = NodesOf(way)
  BY <1>3 DEF StackFits
<1>6. CASE av_link[x][d] # NULLNODE
  <2> HIDE DEF down
  <2>1. down = Outward(Step(x, d), 1 - d)
    BY DEF down
  <2>2. /\ Len(down) > 1
        /\ NextIs(x, d, Last(down).node, NodesOf(way) \o NodesAbove(down))
    BY <1>1, <1>2, <1>5, <1>6, <2>1, DownNext
  <2> QED BY <1>4, <1>5, <2>2 DEF x
<1>7. CASE av_link[x][d] = NULLNODE
  <2>1. Len(down) = 1
    <3>1. x \in Parents /\ 1 - d \in Sides
      BY <1>2, NumbersOf DEF Parents, AvlNodes
    <3>2. Step(x, d) \in Steps /\ Step(x, d).node = x /\ Below(Step(x, d)) = NULLNODE
      BY <1>7, <3>1, StepIs DEF Below
    <3> DEFINE from == Step(x, d)
               e == 1 - d
    <3>3. from \in Steps /\ from.node \in av_nodes \cup {Anchor} /\ Below(from) = NULLNODE /\ e \in Sides
      BY <1>2, <3>1, <3>2
    <3>4. down = Outward(from, e)
      OBVIOUS
    <3> HIDE DEF down, from, e
    <3> QED BY <1>1, <3>3, <3>4, OutwardIs
  <2>2. NextIs(x, d, up.node, up.stack)
    BY <1>1, <1>2, <1>5, <1>7, UpNext
  <2> HIDE DEF down, up
  <2>3. StandAt(t, up.node, up.stack, av_generation)
    BY <1>4, <2>1
  <2> QED BY <2>2, <2>3 DEF x
<1> QED BY <1>6, <1>7

LEMMA NextFits ==
  ASSUME TraverserInv, NEW x, NEW d, NEW s, NEW stack, NextIs(x, d, s, stack)
  PROVE  AtNode(s, stack, av_generation)
<1>1. av_nodes \subseteq AvlNodes /\ av_generation \in Nat
  BY DEF TraverserInv, TreeInv, Fits
<1>2. CASE s = NULLNODE
  BY <1>1, <1>2, NowhereFits
<1>3. CASE s \in av_nodes /\ StackFits(av_link, av_nodes, stack, s)
  BY <1>1, <1>3 DEF AtNode
<1> QED BY <1>2, <1>3 DEF NextIs

LEMMA TraverserInit == AvlInit => TraverserInv
<1> SUFFICES ASSUME AvlInit PROVE TraverserInv
  OBVIOUS
<1>1. TreeInv /\ av_generation = 0 /\ av_nodes = {}
  BY TreeInit DEF AvlInit
<1>2. /\ TraversersType
      /\ \A t \in Traversers : tv_node[t] = NULLNODE /\ tv_generation[t] = 0
  BY DEF AvlInit, TraversersType
<1>3. \A t \in Traversers : AtNode(tv_node[t], tv_stack[t], tv_generation[t])
  BY <1>1, <1>2 DEF AtNode
<1> QED BY <1>1, <1>2, <1>3 DEF TraverserInv

LEMMA TraverserStep == TraverserInv /\ [AvlNext]_avlVars => TraverserInv'
<1> SUFFICES ASSUME TraverserInv, [AvlNext]_avlVars PROVE TraverserInv'
  OBVIOUS
<1>0. TreeInv /\ TreeInv' /\ av_generation \in Nat /\ TraversersType
      /\ \A t \in Traversers : AtNode(tv_node[t], tv_stack[t], tv_generation[t])
  BY TreeStep DEF TraverserInv
<1>1. ASSUME UNCHANGED avlVars PROVE TraverserInv'
  BY <1>0, <1>1 DEF avlVars, TraverserInv, TraversersType, AtNode
<1>2. ASSUME NEW key \in AvlKeys, avl_probe(key), UNCHANGED travVars PROVE TraverserInv'
  <2>1. tv_node' = tv_node /\ tv_stack' = tv_stack /\ tv_generation' = tv_generation
    BY <1>2 DEF travVars
  <2>2. av_generation' \in Nat /\ \A t \in Traversers : AtNode(tv_node[t], tv_stack[t], tv_generation[t])'
    BY <1>0, <1>2, <2>1, ProbeFits DEF AtNode
  <2> QED BY <1>0, <2>1, <2>2 DEF TraverserInv, TraversersType
<1>3. ASSUME NEW key \in AvlKeys, avl_delete(key) PROVE TraverserInv'
  <2>1. av_nodes' = av_nodes \ {key} /\ av_generation' = av_generation + 1 /\ avl_find(key) = key
    BY <1>0, <1>3, DeleteKeeps
  <2>2. Leave({key})
    BY <1>3, <2>1 DEF avl_delete
  <2>3. av_generation' \in Nat
    BY <1>0, <2>1
  <2> QED BY <1>0, <2>1, <2>2, <2>3, LeaveKeeps
<1>4. ASSUME avl_clear PROVE TraverserInv'
  <2>1. av_nodes' = {} /\ av_generation' = 0
    BY <1>0, <1>4, ClearKeeps
  <2>2. Leave(AvlNodes)
    BY <1>4 DEF avl_clear
  <2>3. av_nodes' = av_nodes \ AvlNodes
    BY <1>0, <2>1 DEF TreeInv, Fits
  <2> QED BY <1>0, <2>1, <2>2, <2>3, LeaveKeeps
<1>5. ASSUME NEW t \in Traversers, NEW key \in AvlKeys, avl_t_insert(t, key) PROVE TraverserInv'
  <2>1. avl_probe(key) /\ StandAt(t, key, tv_stack[t], av_generation' - 1)
    BY <1>5 DEF avl_t_insert
  <2>2. /\ av_generation' \in Nat /\ av_nodes' = av_nodes \cup {key}
        /\ \A u \in Traversers :
             /\ tv_node[u] \in av_nodes' \cup {NULLNODE, Lost} /\ tv_generation[u] \in Int
             /\ tv_node[u] \in av_nodes' =>
                  /\ tv_generation[u] <= av_generation'
                  /\ tv_generation[u] = av_generation' => StackFits(av_link', av_nodes', tv_stack[u], tv_node[u])
    BY <1>0, <2>1, ProbeFits
  <2>3. /\ TraversersType'
        /\ tv_node'[t] = key /\ tv_generation'[t] = av_generation' - 1
        /\ \A u \in Traversers : u # t =>
             tv_node'[u] = tv_node[u] /\ tv_stack'[u] = tv_stack[u] /\ tv_generation'[u] = tv_generation[u]
    BY <1>0, <2>1, StandAtIs
  <2>4. ASSUME NEW u \in Traversers PROVE AtNode(tv_node[u], tv_stack[u], tv_generation[u])'
    <3>1. CASE u = t
      <4>0. \A g \in Nat : g - 1 \in Int /\ g - 1 <= g /\ g - 1 # g
        OBVIOUS
      <4>1. /\ tv_node'[t] \in av_nodes' /\ tv_generation'[t] \in Int
            /\ tv_generation'[t] <= av_generation' /\ tv_generation'[t] # av_generation'
        BY <2>2, <2>3, <4>0
      <4> QED BY <2>2, <3>1, <4>1 DEF AtNode
    <3>2. CASE u # t
      BY <2>2, <2>3, <3>2 DEF AtNode
    <3> QED BY <3>1, <3>2
  <2> QED BY <1>0, <2>2, <2>3, <2>4 DEF TraverserInv
<1>6. ASSUME NEW t \in Traversers, NEW n, NEW stack, UNCHANGED treeVars,
             StandAt(t, n, stack, av_generation), AtNode(n, stack, av_generation)
      PROVE  TraverserInv'
  BY <1>6, StandKeeps
<1>7. ASSUME NEW t \in Traversers, NEW d \in Sides, avl_t_end(t, d), UNCHANGED treeVars PROVE TraverserInv'
  BY <1>6, <1>7, EndFits
<1>8. ASSUME NEW t \in Traversers, NEW key \in AvlKeys, avl_t_find(t, key), UNCHANGED treeVars PROVE TraverserInv'
  BY <1>6, <1>8, FindFits
<1>9. ASSUME NEW t \in Traversers, NEW d \in Sides, avl_t_step(t, d), UNCHANGED treeVars PROVE TraverserInv'
  <2>1. CASE tv_node[t] = NULLNODE
    <3>1. avl_t_end(t, 1 - d) /\ 1 - d \in Sides
      BY <1>9, <2>1, NumbersOf DEF avl_t_step
    <3> QED BY <1>7, <1>9, <3>1
  <2>2. CASE tv_node[t] # NULLNODE
    <3>1. tv_node[t] \in av_nodes
      BY <1>0, <1>9, <2>2 DEF avl_t_step, AtNode
    <3>2. PICK s, stack : StandAt(t, s, stack, av_generation) /\ NextIs(tv_node[t], d, s, stack)
      BY <1>9, <3>1, WalkFits
    <3>3. AtNode(s, stack, av_generation)
      BY <3>2, NextFits
    <3> QED BY <1>6, <1>9, <3>2, <3>3
  <2> QED BY <2>1, <2>2
<1>10. ASSUME NEW t \in Traversers, avl_t_copy(t), UNCHANGED treeVars PROVE TraverserInv'
  <2> DEFINE stack == IF tv_generation[t] = av_generation THEN tv_stack[t] ELSE <<Anchor>>
  <2>1. StandAt(t, tv_node[t], stack, tv_generation[t])
    BY <1>10 DEF avl_t_copy
  <2>2. AtNode(tv_node[t], stack, tv_generation[t])
    BY <1>0 DEF AtNode
  <2> HIDE DEF stack
  <2> QED BY <1>10, <2>1, <2>2, StandKeeps
<1>11. 0 \in Sides /\ 1 \in Sides
  BY DEF Sides
<1> QED BY <1>1, <1>2, <1>3, <1>4, <1>5, <1>7, <1>8, <1>9, <1>10, <1>11 DEF AvlNext

(* Whatever was put in and taken out since the traverser came to its node, *)
(* it goes from there to the next key that is in the tree now.             *)
THEOREM TheTraversersKeepOrder == AvlSpec => TraversersKeepOrder
<1> DEFINE Ordered ==
             \A t \in Traversers, d \in Sides :
               /\ tv_node[t] \in AvlNodes
               /\ UNCHANGED treeVars /\ avl_t_step(t, d)
               => LET now == tv_node'[t]
                      beyond == Beyond(tv_node[t], d)
                  IN  IF now = NULLNODE THEN beyond = {}
                      ELSE /\ now \in beyond
                           /\ \A k \in beyond : IF d = 1 THEN now <= k ELSE k <= now
<1>1. TraverserInv => Ordered
  <2> SUFFICES ASSUME TraverserInv, NEW t \in Traversers, NEW d \in Sides, tv_node[t] \in AvlNodes,
                      avl_t_step(t, d)
               PROVE  IF tv_node'[t] = NULLNODE THEN Beyond(tv_node[t], d) = {}
                      ELSE /\ tv_node'[t] \in Beyond(tv_node[t], d)
                           /\ \A k \in Beyond(tv_node[t], d) :
                                IF d = 1 THEN tv_node'[t] <= k ELSE k <= tv_node'[t]
    OBVIOUS
  <2>1. AvlNodes \subseteq Nat \ {0} /\ av_nodes \subseteq AvlNodes /\ NULLNODE \notin AvlNodes
    BY NumbersOf DEF TraverserInv, TreeInv, Fits
  <2>2. tv_node[t] \in av_nodes
    <3>1. tv_node[t] # NULLNODE /\ tv_node[t] # Lost
      BY <2>1 DEF Lost
    <3> QED BY <3>1 DEF TraverserInv, AtNode
  <2>3. PICK s, stack : StandAt(t, s, stack, av_generation) /\ NextIs(tv_node[t], d, s, stack)
    BY <2>2, WalkFits
  <2>4. tv_node'[t] = s
    BY <2>3, StandAtIs DEF TraverserInv
  <2>5. CASE s = NULLNODE /\ Beyond(tv_node[t], d) = {}
    BY <2>4, <2>5
  <2>6. CASE s \in av_nodes /\ Follows(s, tv_node[t], d)
    <3>1. s # NULLNODE /\ s \in Nat
      BY <2>1, <2>6
    <3>2. \A k \in Beyond(tv_node[t], d) : k \in Nat
      BY <2>1, BeyondIs
    <3>3. \A k \in Beyond(tv_node[t], d) : IF d = 1 THEN s <= k ELSE k <= s
      BY <2>6, <3>1, <3>2 DEF Follows, On
    <3> QED BY <2>4, <2>6, <3>1, <3>3 DEF Follows
  <2> QED BY <2>3, <2>5, <2>6 DEF NextIs
<1> HIDE DEF Ordered
<1>2. AvlSpec => [][Ordered]_avlVars
  BY <1>1, TraverserInit, TraverserStep, PTL DEF AvlSpec
<1> QED BY <1>2 DEF Ordered, TraversersKeepOrder
-----------------------------------------------------------------------------
(* The copy of a tree: the names of its nodes.                             *)
Names == Seq({0, 1})

NodeAbove(n) == IF n = <<>> THEN Top ELSE Front(n)
SideOf(n) == IF n = <<>> THEN 0 ELSE Last(n)

LEMMA NamesAre ==
  /\ TreeNodes \subseteq Names
  /\ Top \notin Names /\ NoNode \notin Names /\ Unset \notin Names
  /\ Top # NoNode /\ Top # Unset /\ NoNode # Unset
<1>1. TreeNodes \subseteq Names
  BY LenOf, AvlCopyAssumption DEF TreeNodes, BoundedSeq, SeqOf, Names
<1>2. \A a \in Nat \ {0, 1} : <<a>> \notin Names
  <2> SUFFICES ASSUME NEW a \in Nat \ {0, 1}, <<a>> \in Names PROVE FALSE
    OBVIOUS
  <2>1. Len(<<a>>) = 1 /\ <<a>>[1] = a
    OBVIOUS
  <2>2. <<a>>[1] \in {0, 1}
    BY <2>1, ElementOfSeq DEF Names
  <2> QED BY <2>1, <2>2
<1>3. <<2>> # <<3>> /\ <<2>> # <<4>> /\ <<3>> # <<4>>
  OBVIOUS
<1> QED BY <1>1, <1>2, <1>3 DEF Top, NoNode, Unset

(* A child is one step longer, and knows where it hangs.                   *)
LEMMA ChildIs ==
  ASSUME NEW n \in Names, NEW d \in {0, 1}
  PROVE  /\ Child(n, d) \in Names /\ Child(n, d) # <<>> /\ Child(n, d) # n
         /\ NodeAbove(Child(n, d)) = n /\ SideOf(Child(n, d)) = d
         /\ Len(n) \in Nat /\ Len(Child(n, d)) = Len(n) + 1
         /\ Child(n, d)[Len(n) + 1] = d
         /\ \A i \in 1 .. Len(n) : Child(n, d)[i] = n[i]
<1> DEFINE c == Append(n, d)
<1>1. Child(n, d) = c
  BY NamesAre DEF Child
<1>2. /\ Len(n) \in Nat /\ c \in Names /\ Len(c) = Len(n) + 1 /\ c[Len(n) + 1] = d
      /\ \A i \in 1 .. Len(n) : c[i] = n[i]
  BY LenProperties, AppendProperties DEF Names
<1> HIDE DEF c
<1>3. c # <<>> /\ c # n
  BY <1>2
<1>4. Last(c) = d
  BY <1>2 DEF Last
<1>5. Front(c) \in Names /\ Len(Front(c)) = Len(n) /\ \A i \in 1 .. Len(n) : Front(c)[i] = c[i]
  BY <1>2, PrefixIs DEF Front, Names
<1>6. Front(c) = n
  BY <1>2, <1>5, SeqEqual DEF Names
<1> QED BY <1>1, <1>2, <1>3, <1>4, <1>6 DEF NodeAbove, SideOf

LEMMA NameIs ==
  ASSUME NEW n \in Names, n # <<>>
  PROVE  /\ Front(n) \in Names /\ Last(n) \in {0, 1} /\ Child(Front(n), Last(n)) = n
         /\ Len(n) \in Nat \ {0} /\ Len(Front(n)) = Len(n) - 1
         /\ \A i \in 1 .. Len(n) - 1 : Front(n)[i] = n[i]
<1>1. Len(n) \in Nat \ {0}
  BY EmptySeq DEF Names
<1>2. /\ Front(n) \in Names /\ Len(Front(n)) = Len(n) - 1
      /\ \A i \in 1 .. Len(n) - 1 : Front(n)[i] = n[i]
  <2>1. Len(n) - 1 \in 0 .. Len(n)
    BY <1>1
  <2> QED BY <2>1, PrefixIs DEF Front, Names
<1>3. Last(n) \in {0, 1}
  BY <1>1, ElementOfSeq DEF Last, Names
<1> DEFINE c == Child(Front(n), Last(n))
<1>4. /\ c \in Names /\ Len(c) = Len(Front(n)) + 1 /\ c[Len(Front(n)) + 1] = Last(n)
      /\ \A i \in 1 .. Len(Front(n)) : c[i] = Front(n)[i]
  BY <1>2, <1>3, ChildIs
<1> HIDE DEF c
<1>5. Len(c) = Len(n) /\ c[Len(n)] = n[Len(n)] /\ \A i \in 1 .. Len(n) - 1 : c[i] = n[i]
  BY <1>1, <1>2, <1>4 DEF Last
<1>6. c = n
  <2>1. \A i \in 1 .. Len(c) : c[i] = n[i]
    BY <1>1, <1>5
  <2> QED BY <1>4, <1>5, <2>1, SeqEqual DEF Names
<1> QED BY <1>1, <1>2, <1>3, <1>6 DEF c

(* Of two children no two are the same.                                    *)
LEMMA ChildrenDiffer ==
  ASSUME NEW n \in Names, NEW m \in Names, NEW d \in {0, 1}, NEW e \in {0, 1},
         Child(n, d) = Child(m, e)
  PROVE  n = m /\ d = e
BY ChildIs

(* What is closed upwards and not empty has the root.                      *)
ClosedUp(S) == S \subseteq Names /\ \A n \in S : n # <<>> => Front(n) \in S

LEMMA RootIsThere ==
  ASSUME NEW S, ClosedUp(S), S # {}
  PROVE  <<>> \in S
<1> DEFINE L == {Len(n) : n \in S}
<1>1. L \subseteq Nat /\ L # {}
  <2>1. \A n \in S : Len(n) \in Nat
    BY LenProperties DEF ClosedUp, Names
  <2> QED BY <2>1
<1>2. PICK k \in L : \A l \in L : k <= l
  <2> HIDE DEF L
  <2> QED BY <1>1, SmallestOf
<1>3. PICK n \in S : Len(n) = k
  BY <1>2
<1>4. CASE n # <<>>
  <2>1. Front(n) \in S /\ Len(Front(n)) = Len(n) - 1 /\ Len(n) \in Nat
    BY <1>4, NameIs DEF ClosedUp
  <2> QED BY <1>2, <1>3, <2>1
<1> QED BY <1>3, <1>4

-----------------------------------------------------------------------------
(* Two links of each node of the new tree, one of the table.               *)
LinkPlaces == (TreeNodes \X {0, 1}) \cup {<<Top, 0>>}

LinkForm(link) ==
  /\ DOMAIN link = TreeNodes \cup {Top}
  /\ \A n \in TreeNodes : DOMAIN link[n] = {1, 2}
  /\ DOMAIN link[Top] = {1}

WithLink(link, n, d, m) == [link EXCEPT ![n][d + 1] = m]

LinkSet(next, link, n, d, m) ==
  /\ LinkForm(next)
  /\ \A k, e : <<k, e>> \in LinkPlaces =>
       next[k][e + 1] = IF k = n /\ e = d THEN m ELSE link[k][e + 1]
  /\ \A k \in TreeNodes \cup {Top} : k # n => next[k] = link[k]

LEMMA WithLinkIs ==
  ASSUME NEW link, LinkForm(link), NEW n, NEW d, <<n, d>> \in LinkPlaces, NEW m
  PROVE  LinkSet(WithLink(link, n, d, m), link, n, d, m)
<1> DEFINE next == WithLink(link, n, d, m)
<1>1. next = [link EXCEPT ![n] = [link[n] EXCEPT ![d + 1] = m]]
  BY DEF WithLink
<1> HIDE DEF next
<1>2. /\ n \in DOMAIN link /\ d \in {0, 1}
      /\ DOMAIN next = DOMAIN link
      /\ \A k \in DOMAIN link : k # n => next[k] = link[k]
      /\ next[n] = [link[n] EXCEPT ![d + 1] = m]
  BY <1>1, NamesAre DEF LinkForm, LinkPlaces
<1>3. DOMAIN next[n] = DOMAIN link[n]
  BY <1>2
<1>4. LinkForm(next)
  BY <1>2, <1>3 DEF LinkForm
<1>5. ASSUME NEW k, NEW e, <<k, e>> \in LinkPlaces
      PROVE  next[k][e + 1] = IF k = n /\ e = d THEN m ELSE link[k][e + 1]
  <2>1. k \in DOMAIN link /\ e \in {0, 1}
    BY <1>5 DEF LinkForm, LinkPlaces
  <2>2. CASE k # n
    BY <1>2, <2>1, <2>2
  <2>3. CASE k = n
    <3>1. e + 1 \in DOMAIN link[n]
      BY <1>5, <2>1, <2>3, NamesAre DEF LinkForm, LinkPlaces
    <3> QED BY <1>2, <2>1, <2>3, <3>1
  <2> QED BY <2>2, <2>3
<1> QED BY <1>2, <1>4, <1>5 DEF LinkForm, LinkSet, next

(* What the copy has made of a node: one that is finished, one that waits  *)
(* in the stack for its right side, one that is not touched yet.           *)
Linked(n, d) ==
  IF HasChild(n, d) THEN Link(n, d) = Child(n, d) /\ Child(n, d) \in cp_live
  ELSE Link(n, d) = NoNode

Finished(n) == cp_data[n] = "item" /\ Linked(n, 0) /\ Linked(n, 1)
Halfway(n) == cp_data[n] = "unset" /\ Linked(n, 0) /\ Link(n, 1) = Unset
Untouched(n) == cp_data[n] = "unset" /\ Link(n, 0) = Unset /\ Link(n, 1) = Unset

CopyForm ==
  /\ cp_org \subseteq TreeNodes /\ ClosedUp(cp_org)
  /\ LinkForm(cp_link) /\ cp_data \in [TreeNodes -> {"item", "null", "unset"}]
  /\ cp_live \subseteq cp_org /\ IsFiniteSet(cp_live)
  /\ \A n \in TreeNodes \ cp_live : Untouched(n)

(* Each node hangs below one that is allocated.                            *)
Hangs(n) == NodeAbove(n) \in cp_live \cup {Top} /\ Link(NodeAbove(n), SideOf(n)) = n

StackForm ==
  /\ cp_stack \in Seq(cp_live \cup {Top})
  /\ Len(cp_stack) >= 1 => cp_stack[1] = Top
  /\ \A i, j \in 1 .. Len(cp_stack) : cp_stack[i] = cp_stack[j] => i = j
  /\ \A i \in 1 .. Len(cp_stack) : cp_stack[i] # cp_x

(* The copy at its node x, or at the table before there is any node.       *)
AtTop ==
  /\ cp_x = Top /\ cp_live = {} /\ cp_stack = <<>> /\ Link(Top, 0) = NoNode
  /\ cp_pc = "left" => cp_org # {}
  /\ cp_pc = "copied" => cp_org = {}
  /\ cp_pc \in {"left", "copied", "recover"}

AtX ==
  /\ cp_x \in cp_live /\ <<>> \in cp_live /\ Len(cp_stack) >= 1
  /\ cp_pc = "left" => Untouched(cp_x)
  /\ cp_pc = "item" => Halfway(cp_x)
  /\ cp_pc = "right" => cp_data[cp_x] = "item" /\ Linked(cp_x, 0) /\ Link(cp_x, 1) = Unset
  /\ cp_pc = "copied" => Finished(cp_x) /\ Waiting = {}
  /\ cp_pc = "recover" =>
       /\ Link(cp_x, 0) = NoNode \/ (Link(cp_x, 0) = Child(cp_x, 0) /\ Child(cp_x, 0) \in cp_live)
       /\ Link(cp_x, 1) = NoNode /\ cp_data[cp_x] # "unset"

CopyInv ==
  /\ cp_pc \in {"left", "item", "right", "copied", "recover"}
  /\ cp_destroyed = 0 /\ cp_strays = {} /\ ~ cp_wild
  /\ CopyForm /\ StackForm
  /\ \A n \in cp_live : Hangs(n)
  /\ \A n \in cp_live \ {cp_x} : IF n \in Waiting THEN Halfway(n) ELSE Finished(n)
  /\ AtTop \/ AtX

(* The rest of the tree as it is given back: T[n] are the nodes below n.   *)
WithItem == {n \in TreeNodes : cp_data[n] = "item"}

Remains(T, x, live, link) ==
  /\ live \subseteq TreeNodes /\ x \in live \cup {NoNode}
  /\ \A n \in live, d \in {1, 2} : link[n][d] \in live \cup {NoNode}
  /\ \A n, m \in live, d, e \in {1, 2} :
       link[n][d] = link[m][e] /\ link[n][d] # NoNode => n = m /\ d = e
  /\ T \in [TreeNodes \cup {NoNode} -> SUBSET TreeNodes]
  /\ T[NoNode] = {} /\ T[x] = live
  /\ \A n \in live : /\ T[n] = {n} \cup T[link[n][1]] \cup T[link[n][2]]
                    /\ n \notin T[link[n][1]] /\ n \notin T[link[n][2]]
                    /\ T[link[n][1]] \cap T[link[n][2]] = {}

ClearInv ==
  /\ cp_pc \in {"clear", "gone"} /\ ~ cp_wild
  /\ LinkForm(cp_link)
  /\ IsFiniteSet(WithItem)
  /\ cp_destroyed \in Nat
  /\ cp_destroyed + Cardinality(WithItem \cap cp_live) = Cardinality(WithItem)
  /\ cp_pc = "gone" => cp_x = NoNode
  /\ cp_strays \subseteq Waiting /\ \A n \in cp_live : cp_data[n] = "unset" => n \in Waiting
  /\ \E T : Remains(T, cp_x, cp_live, cp_link)

(* A new copy.                                                             *)
LEMMA CopyStart == CopyInit => CopyInv
<1> SUFFICES ASSUME CopyInit PROVE CopyInv
  OBVIOUS
<1>1. cp_org \subseteq TreeNodes /\ ClosedUp(cp_org)
  BY NamesAre DEF CopyInit, Trees, ClosedUp
<1>2. /\ DOMAIN cp_link = TreeNodes \cup {Top} /\ cp_link[Top] = <<NoNode>>
      /\ \A n \in TreeNodes : cp_link[n] = <<Unset, Unset>>
  BY NamesAre DEF CopyInit
<1>3. LinkForm(cp_link)
  <2>1. DOMAIN <<NoNode>> = {1} /\ DOMAIN <<Unset, Unset>> = {1, 2}
    OBVIOUS
  <2> QED BY <1>2, <2>1 DEF LinkForm
<1>4. \A n \in TreeNodes : Untouched(n)
  BY <1>2 DEF CopyInit, Untouched, Link
<1>5. Link(Top, 0) = NoNode
  BY <1>2 DEF Link
<1>6. IsFiniteSet(cp_live)
  BY FS_EmptySet DEF CopyInit
<1>7. CopyForm
  BY <1>1, <1>3, <1>4, <1>6 DEF CopyForm, CopyInit
<1>8. StackForm
  BY DEF StackForm, CopyInit
<1>9. AtTop
  BY <1>5 DEF AtTop, CopyInit
<1> QED BY <1>7, <1>8, <1>9 DEF CopyInv, CopyInit

-----------------------------------------------------------------------------
(* What a step that touches only x leaves of the other nodes.              *)
LEMMA NodeKept ==
  ASSUME cp_live \subseteq cp_live', cp_org' = cp_org, NEW k,
         cp_link'[k] = cp_link[k], cp_data'[k] = cp_data[k]
  PROVE  /\ Finished(k) => Finished(k)'
         /\ Halfway(k) => Halfway(k)'
         /\ Untouched(k) => Untouched(k)'
<1>1. \A d : Link(k, d)' = Link(k, d)
  BY DEF Link
<1>2. \A d : HasChild(k, d)' <=> HasChild(k, d)
  BY DEF HasChild
<1>3. \A d : Linked(k, d) => Linked(k, d)'
  BY <1>1, <1>2 DEF Linked
<1> QED BY <1>1, <1>3 DEF Finished, Halfway, Untouched

LEMMA LiveIs ==
  ASSUME CopyInv, NEW n \in cp_live
  PROVE  /\ n \in TreeNodes /\ n \in Names /\ n # Top
         /\ <<NodeAbove(n), SideOf(n)>> \in LinkPlaces
         /\ Child(NodeAbove(n), SideOf(n)) = n
         /\ <<n, 0>> \in LinkPlaces /\ <<n, 1>> \in LinkPlaces
<1>1. n \in TreeNodes /\ n \in Names /\ n # Top /\ cp_live \subseteq TreeNodes
  BY NamesAre DEF CopyInv, CopyForm
<1>2. NodeAbove(n) \in cp_live \cup {Top}
  BY DEF CopyInv, Hangs
<1>3. CASE n = <<>>
  BY <1>1, <1>3, NamesAre DEF NodeAbove, SideOf, LinkPlaces, Child
<1>4. CASE n # <<>>
  <2>1. Front(n) \in Names /\ Last(n) \in {0, 1} /\ Child(Front(n), Last(n)) = n
    BY <1>1, <1>4, NameIs
  <2>2. NodeAbove(n) = Front(n) /\ SideOf(n) = Last(n) /\ Front(n) # Top
    BY <1>4, <2>1, NamesAre DEF NodeAbove, SideOf
  <2> QED BY <1>1, <1>2, <2>1, <2>2 DEF LinkPlaces
<1> QED BY <1>1, <1>3, <1>4

(* The nodes that wait are allocated, and x is none of them.               *)
LEMMA WaitingIs ==
  ASSUME CopyInv
  PROVE  /\ Waiting \subseteq cp_live /\ cp_x \notin Waiting
         /\ Len(cp_stack) \in Nat
         /\ \A i \in 1 .. Len(cp_stack) : cp_stack[i] \in cp_live \cup {Top}
<1>1. Len(cp_stack) \in Nat /\ \A i \in 1 .. Len(cp_stack) : cp_stack[i] \in cp_live \cup {Top}
  BY LenProperties, ElementOfSeq DEF CopyInv, StackForm
<1>2. ASSUME NEW i \in 2 .. Len(cp_stack) PROVE cp_stack[i] \in cp_live /\ cp_stack[i] # cp_x
  <2>1. 1 \in 1 .. Len(cp_stack) /\ i \in 1 .. Len(cp_stack) /\ i # 1
    BY <1>1
  <2>2. cp_stack[1] = Top /\ cp_stack[i] # cp_stack[1] /\ cp_stack[i] # cp_x
    BY <1>1, <2>1 DEF CopyInv, StackForm
  <2> QED BY <1>1, <2>1, <2>2
<1> QED BY <1>1, <1>2 DEF Waiting

(* What is the same wherever one link or the item of x is set.             *)
FormKept(x, d, m) ==
  /\ CopyForm'
  /\ \A k \in TreeNodes : k # x => cp_link'[k] = cp_link[k]
  /\ \A k, e : <<k, e>> \in LinkPlaces =>
       Link(k, e)' = IF k = x /\ e = d THEN m ELSE Link(k, e)

LEMMA FormStill ==
  ASSUME CopyInv, NEW x, x = cp_x, NEW d, <<x, d>> \in LinkPlaces, NEW m, SetLink(x, d, m),
         cp_data' \in [TreeNodes -> {"item", "null", "unset"}],
         \A k \in TreeNodes : k # x => cp_data'[k] = cp_data[k],
         x \in cp_live \cup {Top},
         cp_live' \subseteq cp_org, cp_live \subseteq cp_live', IsFiniteSet(cp_live'),
         cp_org' = cp_org
  PROVE  FormKept(x, d, m)
<1>1. LinkForm(cp_link) /\ cp_org \subseteq TreeNodes /\ ClosedUp(cp_org)
  BY DEF CopyInv, CopyForm
<1>2. /\ LinkForm(cp_link')
      /\ \A k \in TreeNodes : k # x => cp_link'[k] = cp_link[k]
      /\ \A k, e : <<k, e>> \in LinkPlaces =>
           Link(k, e)' = IF k = x /\ e = d THEN m ELSE Link(k, e)
  <2>2. PICK now : now = cp_link
    OBVIOUS
  <2> DEFINE next == WithLink(now, x, d, m)
  <2>3. cp_link' = next /\ <<x, d>> \in LinkPlaces /\ LinkForm(now)
    BY <1>1, <2>2 DEF SetLink, WithLink
  <2>4. LinkSet(next, now, x, d, m)
    BY <2>3, WithLinkIs
  <2> HIDE DEF next
  <2> QED BY <2>2, <2>3, <2>4 DEF Link, LinkSet
<1>3. ASSUME NEW n \in TreeNodes \ cp_live' PROVE Untouched(n)'
  <2>1. n \notin cp_live /\ n # x /\ Untouched(n)
    BY NamesAre DEF CopyInv, CopyForm
  <2>2. cp_link'[n] = cp_link[n] /\ cp_data'[n] = cp_data[n]
    BY <1>2, <2>1
  <2> QED BY <2>1, <2>2, NodeKept
<1> QED BY <1>1, <1>2, <1>3 DEF CopyForm, FormKept

LEMMA HangsStill ==
  ASSUME CopyInv, NEW d, NEW m,
         \A k, e : <<k, e>> \in LinkPlaces =>
           Link(k, e)' = IF k = cp_x /\ e = d THEN m ELSE Link(k, e),
         Child(cp_x, d) \notin cp_live, cp_live \subseteq cp_live'
  PROVE  \A n \in cp_live : Hangs(n)'
<1> SUFFICES ASSUME NEW n \in cp_live PROVE Hangs(n)'
  OBVIOUS
<1> DEFINE a == NodeAbove(n)
           e == SideOf(n)
<1>1. <<a, e>> \in LinkPlaces /\ Child(a, e) = n
  BY LiveIs
<1>2. a \in cp_live \cup {Top} /\ Link(a, e) = n
  BY DEF CopyInv, Hangs
<1>3. ~ (a = cp_x /\ e = d)
  BY <1>1
<1>4. Link(a, e)' = Link(a, e)
  BY <1>1, <1>3
<1> QED BY <1>2, <1>4 DEF Hangs

LEMMA OthersStill ==
  ASSUME CopyInv, cp_live \subseteq cp_live', cp_org' = cp_org,
         \A k \in TreeNodes : k # cp_x => cp_link'[k] = cp_link[k],
         \A k \in TreeNodes : k # cp_x => cp_data'[k] = cp_data[k]
  PROVE  \A n \in cp_live \ {cp_x} : IF n \in Waiting THEN Halfway(n)' ELSE Finished(n)'
<1> SUFFICES ASSUME NEW n \in cp_live \ {cp_x}
             PROVE  IF n \in Waiting THEN Halfway(n)' ELSE Finished(n)'
  OBVIOUS
<1>1. n \in TreeNodes /\ IF n \in Waiting THEN Halfway(n) ELSE Finished(n)
  BY LiveIs DEF CopyInv
<1>2. cp_link'[n] = cp_link[n] /\ cp_data'[n] = cp_data[n]
  BY <1>1
<1>3. (Halfway(n) => Halfway(n)') /\ (Finished(n) => Finished(n)')
  BY <1>2, NodeKept
<1> QED BY <1>1, <1>3

-----------------------------------------------------------------------------
(* A node that is made on side d of x, where the copy goes on.             *)
ChildMade(x, d, c) ==
  /\ x = cp_x /\ c = Child(x, d) /\ <<x, d>> \in LinkPlaces /\ HasChild(x, d)
  /\ SetLink(x, d, c) /\ cp_live' = cp_live \cup {c} /\ cp_x' = c
  /\ cp_org' = cp_org /\ cp_data' = cp_data

MadeWell(x, d, c) ==
  /\ CopyForm' /\ \A n \in cp_live' : Hangs(n)'
  /\ <<>> \in cp_live' /\ c \in cp_live' /\ c # x /\ c # Top
  /\ Untouched(c)'
  /\ \A n \in cp_live \ {x} : IF n \in Waiting THEN Halfway(n)' ELSE Finished(n)'
  /\ \A k, e : <<k, e>> \in LinkPlaces => Link(k, e)' = IF k = x /\ e = d THEN c ELSE Link(k, e)

LEMMA NewChild ==
  ASSUME CopyInv, NEW x, NEW d, NEW c, ChildMade(x, d, c), c \notin cp_live,
         x \in cp_live \cup {Top}, x = Top \/ <<>> \in cp_live
  PROVE  MadeWell(x, d, c)
<1>1. /\ x = cp_x /\ c = Child(x, d) /\ <<x, d>> \in LinkPlaces /\ HasChild(x, d)
      /\ SetLink(x, d, c) /\ cp_live' = cp_live \cup {c} /\ cp_x' = c
      /\ cp_org' = cp_org /\ cp_data' = cp_data
  BY DEF ChildMade
<1>2. /\ cp_org \subseteq TreeNodes /\ cp_live \subseteq cp_org /\ IsFiniteSet(cp_live)
      /\ cp_data \in [TreeNodes -> {"item", "null", "unset"}]
      /\ \A n \in TreeNodes \ cp_live : Untouched(n)
  BY DEF CopyInv, CopyForm
<1>3. c \in cp_org /\ c \in TreeNodes /\ c \in Names /\ c # Top
  BY <1>1, <1>2, NamesAre DEF HasChild
<1>4. NodeAbove(c) = x /\ SideOf(c) = d /\ c # x /\ (x = Top => c = <<>>)
  <2>1. CASE x = Top
    <3>1. d = 0 /\ c = <<>>
      BY <1>1, <2>1, NamesAre DEF LinkPlaces, Child
    <3> QED BY <2>1, <3>1, <1>3 DEF NodeAbove, SideOf
  <2>2. CASE x # Top
    <3>1. x \in Names /\ d \in {0, 1}
      BY <1>1, <1>2, <2>2, NamesAre DEF LinkPlaces
    <3> QED BY <1>1, <2>2, <3>1, ChildIs
  <2> QED BY <2>1, <2>2
<1>5. IsFiniteSet(cp_live')
  BY <1>1, <1>2, FS_AddElement
<1>6. /\ SetLink(cp_x, d, c) /\ <<cp_x, d>> \in LinkPlaces
      /\ cp_live \subseteq cp_live' /\ cp_live' \subseteq cp_org /\ cp_x \in cp_live \cup {Top}
  <2>1. SetLink(cp_x, d, c)
    BY <1>1 DEF SetLink
  <2> QED BY <1>1, <1>2, <1>3, <2>1
<1>7. /\ CopyForm'
      /\ \A k \in TreeNodes : k # cp_x => cp_link'[k] = cp_link[k]
      /\ \A k, e : <<k, e>> \in LinkPlaces =>
           Link(k, e)' = IF k = cp_x /\ e = d THEN c ELSE Link(k, e)
  <2>1. /\ cp_data' \in [TreeNodes -> {"item", "null", "unset"}]
        /\ \A k \in TreeNodes : k # cp_x => cp_data'[k] = cp_data[k]
    BY <1>1, <1>2
  <2>2. FormKept(x, d, c)
    BY <1>1, <1>5, <1>6, <2>1, FormStill
  <2> QED BY <1>1, <2>2 DEF FormKept
<1>8. \A n \in cp_live : Hangs(n)'
  BY <1>1, <1>6, <1>7, HangsStill
<1>9. Hangs(c)'
  <2>1. Link(x, d)' = c
    BY <1>1, <1>7
  <2> QED BY <1>1, <1>4, <1>6, <2>1 DEF Hangs
<1>10. Untouched(c)'
  <2>1. cp_link'[c] = cp_link[c] /\ cp_data'[c] = cp_data[c] /\ Untouched(c)
    BY <1>1, <1>2, <1>3, <1>4, <1>7
  <2> QED BY <1>1, <1>6, <2>1, NodeKept
<1>11. \A n \in cp_live \ {x} : IF n \in Waiting THEN Halfway(n)' ELSE Finished(n)'
  BY <1>1, <1>6, <1>7, OthersStill
<1>12. <<>> \in cp_live'
  BY <1>1, <1>4
<1> QED BY <1>1, <1>3, <1>4, <1>7, <1>8, <1>9, <1>10, <1>11, <1>12 DEF MadeWell

(* Where x is, and whether the child is there.                             *)
LEMMA XIs ==
  ASSUME CopyInv
  PROVE  /\ cp_x \in cp_live \cup {Top}
         /\ cp_x = Top \/ <<>> \in cp_live
         /\ cp_x # Top => AtX
         /\ cp_x = Top => AtTop
         /\ <<cp_x, 0>> \in LinkPlaces
         /\ cp_x # Top => <<cp_x, 1>> \in LinkPlaces
         /\ cp_live \subseteq TreeNodes /\ Top \notin cp_live
<1>1. cp_live \subseteq TreeNodes /\ Top \notin cp_live
  BY NamesAre DEF CopyInv, CopyForm
<1>2. AtTop \/ AtX
  BY DEF CopyInv
<1>3. AtTop => cp_x = Top
  BY DEF AtTop
<1>4. AtX => cp_x \in cp_live /\ <<>> \in cp_live
  BY DEF AtX
<1> QED BY <1>1, <1>2, <1>3, <1>4 DEF LinkPlaces

LEMMA NoSuchChild ==
  ASSUME CopyInv, NEW d \in {0, 1}, cp_x # Top, Link(cp_x, d) \in {Unset, NoNode}
  PROVE  Child(cp_x, d) \notin cp_live
<1> SUFFICES ASSUME Child(cp_x, d) \in cp_live PROVE FALSE
  OBVIOUS
<1>1. cp_x \in Names
  BY XIs, NamesAre
<1>2. PICK c : c = Child(cp_x, d)
  OBVIOUS
<1>3. NodeAbove(c) = cp_x /\ SideOf(c) = d /\ c \in cp_live
  BY <1>1, <1>2, ChildIs
<1>4. Link(cp_x, d) = c
  <2>1. Link(NodeAbove(c), SideOf(c)) = c
    BY <1>3 DEF CopyInv, Hangs
  <2> QED BY <1>3, <2>1
<1> QED BY <1>3, <1>4, XIs, NamesAre

LEMMA CopyNewLeft == CopyInv /\ NewLeft => CopyInv'
<1> SUFFICES ASSUME CopyInv, NewLeft PROVE CopyInv'
  OBVIOUS
<1>1. PICK x, c : x = cp_x /\ c = Child(x, 0)
  OBVIOUS
<1>2. /\ ChildMade(x, 0, c) /\ cp_pc = "left" /\ cp_pc' = cp_pc
      /\ cp_destroyed' = cp_destroyed /\ cp_wild' = cp_wild
      /\ cp_strays' = cp_strays
      /\ cp_stack' = Append(cp_stack, x)
  BY <1>1, XIs DEF NewLeft, ChildMade, SetLink
<1>3. x \in cp_live \cup {Top} /\ (x = Top \/ <<>> \in cp_live) /\ Top \notin cp_live
  BY <1>1, XIs
<1>4. c \notin cp_live
  <2>1. CASE x = Top
    BY <1>1, <2>1, XIs DEF AtTop
  <2>2. CASE x # Top
    <3>1. Link(cp_x, 0) = Unset
      BY <1>1, <1>2, <2>2, XIs DEF AtX, Untouched
    <3> QED BY <1>1, <2>2, <3>1, NoSuchChild
  <2> QED BY <2>1, <2>2
<1>5. MadeWell(x, 0, c)
  BY <1>2, <1>3, <1>4, NewChild
<1>6. cp_x' = c /\ cp_live' = cp_live \cup {c} /\ cp_org' = cp_org /\ HasChild(x, 0) /\ cp_data' = cp_data
  BY <1>2 DEF ChildMade
<1>7. /\ cp_stack \in Seq(cp_live \cup {Top}) /\ Len(cp_stack) \in Nat
      /\ Len(cp_stack) >= 1 => cp_stack[1] = Top
      /\ \A i, j \in 1 .. Len(cp_stack) : cp_stack[i] = cp_stack[j] => i = j
      /\ \A i \in 1 .. Len(cp_stack) : cp_stack[i] # x /\ cp_stack[i] \in cp_live \cup {Top}
  BY <1>1, WaitingIs DEF CopyInv, StackForm
<1>8. /\ cp_stack' \in Seq(cp_live \cup {Top}) /\ Len(cp_stack') = Len(cp_stack) + 1
      /\ \A i \in 1 .. Len(cp_stack) : cp_stack'[i] = cp_stack[i]
      /\ cp_stack'[Len(cp_stack) + 1] = x
  BY <1>2, <1>3, <1>7, AppendProperties
<1>9. x # Top => Len(cp_stack) >= 1
  BY <1>1, XIs DEF AtX
<1>10. x = Top => Len(cp_stack) = 0
  BY <1>1, XIs DEF AtTop
<1>11. StackForm'
  <2>1. cp_stack' \in Seq(cp_live' \cup {Top})
    BY <1>6, <1>8, SeqMonotonic
  <2>2. cp_stack'[1] = Top
    <3>1. CASE x = Top
      BY <1>8, <1>10, <3>1
    <3>2. CASE x # Top
      <4>1. Len(cp_stack) >= 1 /\ 1 \in 1 .. Len(cp_stack)
        BY <1>7, <1>9, <3>2
      <4> QED BY <1>7, <1>8, <4>1
    <3> QED BY <3>1, <3>2
  <2>3. ASSUME NEW i \in 1 .. Len(cp_stack'), NEW j \in 1 .. Len(cp_stack'),
               cp_stack'[i] = cp_stack'[j]
        PROVE  i = j
    <3>1. i \in 1 .. Len(cp_stack) \/ i = Len(cp_stack) + 1
      BY <1>7, <1>8
    <3>2. j \in 1 .. Len(cp_stack) \/ j = Len(cp_stack) + 1
      BY <1>7, <1>8
    <3> QED BY <1>7, <1>8, <2>3, <3>1, <3>2
  <2>4. ASSUME NEW i \in 1 .. Len(cp_stack') PROVE cp_stack'[i] # cp_x'
    <3>1. i \in 1 .. Len(cp_stack) \/ i = Len(cp_stack) + 1
      BY <1>7, <1>8
    <3>2. c # x /\ c # Top /\ c \notin cp_live
      BY <1>4, <1>5 DEF MadeWell
    <3> QED BY <1>6, <1>7, <1>8, <3>1, <3>2
  <2> QED BY <2>1, <2>2, <2>3, <2>4 DEF StackForm
<1>12. Waiting' = IF x = Top THEN Waiting ELSE Waiting \cup {x}
  <2>1. Waiting' = {cp_stack'[i] : i \in 2 .. Len(cp_stack) + 1}
    BY <1>8 DEF Waiting
  <2>2. CASE x = Top
    <3>1. \A i : i \notin 2 .. Len(cp_stack) + 1 /\ i \notin 2 .. Len(cp_stack)
      BY <1>10, <2>2
    <3> QED BY <2>1, <2>2, <3>1 DEF Waiting
  <2>3. CASE x # Top
    <3>1. \A i : i \in 2 .. Len(cp_stack) + 1 <=> (i \in 2 .. Len(cp_stack) \/ i = Len(cp_stack) + 1)
      BY <1>7, <1>9, <2>3
    <3>2. \A i \in 2 .. Len(cp_stack) : cp_stack'[i] = cp_stack[i]
      BY <1>7, <1>8
    <3> QED BY <1>8, <2>1, <2>3, <3>1, <3>2 DEF Waiting
  <2> QED BY <2>2, <2>3
<1>13. x # Top => Halfway(x)'
  <2> SUFFICES ASSUME x # Top PROVE Halfway(x)'
    OBVIOUS
  <2>1. Untouched(x) /\ <<x, 0>> \in LinkPlaces /\ <<x, 1>> \in LinkPlaces
    BY <1>1, <1>2, XIs DEF AtX
  <2>2. Link(x, 0)' = c /\ Link(x, 1)' = Link(x, 1)
    BY <1>5, <2>1 DEF MadeWell
  <2>3. Linked(x, 0)'
    <3>1. HasChild(x, 0)'
      BY <1>6 DEF HasChild
    <3> QED BY <1>1, <1>6, <2>2, <3>1 DEF Linked
  <2> QED BY <1>6, <2>1, <2>2, <2>3 DEF Halfway, Untouched
<1>14. \A n \in cp_live' \ {cp_x'} : IF n \in Waiting' THEN Halfway(n)' ELSE Finished(n)'
  <2> SUFFICES ASSUME NEW n \in cp_live, n # c
               PROVE  IF n \in Waiting' THEN Halfway(n)' ELSE Finished(n)'
    BY <1>6
  <2>1. CASE n = x
    BY <1>3, <1>12, <1>13, <2>1
  <2>2. CASE n # x
    <3>1. IF n \in Waiting THEN Halfway(n)' ELSE Finished(n)'
      BY <1>5, <2>2 DEF MadeWell
    <3>2. n \in Waiting' <=> n \in Waiting
      BY <1>12, <2>2
    <3> QED BY <3>1, <3>2
  <2> QED BY <2>1, <2>2
<1>15. AtX'
  <2>1. <<>> \in cp_live' /\ c \in cp_live' /\ Untouched(c)'
    BY <1>5 DEF MadeWell
  <2>2. Len(cp_stack') >= 1
    BY <1>7, <1>8
  <2>3. Untouched(cp_x)'
    BY <1>6, <2>1 DEF Untouched, Link
  <2> QED BY <1>2, <1>6, <2>1, <2>2, <2>3 DEF AtX
<1>16. CopyForm' /\ \A n \in cp_live' : Hangs(n)'
  BY <1>5 DEF MadeWell
<1>17. /\ cp_pc' \in {"left", "item", "right", "copied", "recover"}
       /\ cp_destroyed' = 0 /\ cp_strays' = {} /\ ~ cp_wild'
  BY <1>2 DEF CopyInv
<1> QED BY <1>11, <1>14, <1>15, <1>16, <1>17 DEF CopyInv

(* A step that sets a link of x, or only its item, and stays there.        *)
LEMMA StaysAtX ==
  ASSUME CopyInv, NEW x, x = cp_x, x # Top, NEW d \in {0, 1}, NEW m, SetLink(x, d, m),
         Link(x, d) \in {Unset, NoNode},
         cp_live' = cp_live, cp_org' = cp_org,
         cp_data' \in [TreeNodes -> {"item", "null", "unset"}],
         \A k \in TreeNodes : k # x => cp_data'[k] = cp_data[k]
  PROVE  /\ CopyForm' /\ \A n \in cp_live' : Hangs(n)'
         /\ \A n \in cp_live \ {x} : IF n \in Waiting THEN Halfway(n)' ELSE Finished(n)'
         /\ Link(x, d)' = m
         /\ \A e \in {0, 1} : e # d => Link(x, e)' = Link(x, e)
<1>1. x \in cp_live /\ x \in TreeNodes /\ <<x, 0>> \in LinkPlaces /\ <<x, 1>> \in LinkPlaces
  BY XIs
<1>2. Child(x, d) \notin cp_live
  BY NoSuchChild
<1>3. <<x, d>> \in LinkPlaces
  BY <1>1
<1>4. cp_live \subseteq cp_org /\ IsFiniteSet(cp_live')
  BY DEF CopyInv, CopyForm
<1>5. FormKept(x, d, m)
  BY <1>1, <1>3, <1>4, FormStill
<1>6. /\ CopyForm'
      /\ \A k \in TreeNodes : k # x => cp_link'[k] = cp_link[k]
      /\ \A k, e : <<k, e>> \in LinkPlaces =>
           Link(k, e)' = IF k = x /\ e = d THEN m ELSE Link(k, e)
  BY <1>5 DEF FormKept
<1>7. \A n \in cp_live : Hangs(n)'
  BY <1>2, <1>6, HangsStill
<1>8. \A n \in cp_live \ {x} : IF n \in Waiting THEN Halfway(n)' ELSE Finished(n)'
  BY <1>6, OthersStill
<1>9. Link(x, d)' = m /\ \A e \in {0, 1} : e # d => Link(x, e)' = Link(x, e)
  <2>1. \A e \in {0, 1} : <<x, e>> \in LinkPlaces
    BY <1>1
  <2> QED BY <1>6, <2>1
<1> QED BY <1>6, <1>7, <1>8, <1>9

LEMMA LinkedStill ==
  ASSUME cp_org' = cp_org, cp_live \subseteq cp_live', NEW n, NEW d,
         Link(n, d)' = Link(n, d), Linked(n, d)
  PROVE  Linked(n, d)'
<1>1. HasChild(n, d)' <=> HasChild(n, d)
  BY DEF HasChild
<1> QED BY <1>1 DEF Linked

(* The stack, and who waits in it, while both it and x stay.               *)
LEMMA StackStays ==
  ASSUME CopyInv, cp_stack' = cp_stack, cp_x' = cp_x, cp_live' = cp_live
  PROVE  StackForm' /\ Waiting' = Waiting
<1>1. Waiting' = Waiting
  BY DEF Waiting
<1>2. StackForm
  BY DEF CopyInv
<1> QED BY <1>1, <1>2 DEF StackForm

LEMMA CopyLeftEnds == CopyInv /\ LeftEnds => CopyInv'
<1> SUFFICES ASSUME CopyInv, LeftEnds PROVE CopyInv'
  OBVIOUS
<1>1. PICK x : x = cp_x
  OBVIOUS
<1>2. /\ SetLink(x, 0, NoNode) /\ cp_pc = "left" /\ cp_pc' = "item" /\ ~ HasChild(x, 0)
      /\ cp_org' = cp_org /\ cp_data' = cp_data /\ cp_live' = cp_live /\ cp_x' = cp_x
      /\ cp_stack' = cp_stack /\ cp_destroyed' = cp_destroyed /\ cp_wild' = cp_wild
      /\ cp_strays' = cp_strays
  BY <1>1 DEF LeftEnds, SetLink
<1>3. x # Top
  <2> SUFFICES ASSUME x = Top PROVE FALSE
    OBVIOUS
  <2>1. cp_org # {} /\ ClosedUp(cp_org)
    BY <1>1, <1>2, XIs DEF AtTop, CopyInv, CopyForm
  <2>2. <<>> \in cp_org
    BY <2>1, RootIsThere
  <2> QED BY <1>2, <2>2 DEF HasChild, Child
<1>4. AtX /\ Untouched(x)
  BY <1>1, <1>2, <1>3, XIs DEF AtX
<1>5. cp_data' \in [TreeNodes -> {"item", "null", "unset"}]
  BY <1>2 DEF CopyInv, CopyForm
<1>6. Link(x, 0) \in {Unset, NoNode}
  BY <1>4 DEF Untouched
<1>7. /\ CopyForm' /\ \A n \in cp_live' : Hangs(n)'
      /\ \A n \in cp_live \ {x} : IF n \in Waiting THEN Halfway(n)' ELSE Finished(n)'
      /\ Link(x, 0)' = NoNode /\ Link(x, 1)' = Link(x, 1)
  BY <1>1, <1>2, <1>3, <1>5, <1>6, StaysAtX
<1>8. Halfway(x)'
  <2>1. ~ HasChild(x, 0)'
    BY <1>2 DEF HasChild
  <2>2. Linked(x, 0)'
    BY <1>7, <2>1 DEF Linked
  <2> QED BY <1>2, <1>4, <1>7, <2>2 DEF Halfway, Untouched
<1>9. StackForm' /\ Waiting' = Waiting
  BY <1>2, StackStays
<1>10. Halfway(cp_x)'
  BY <1>1, <1>2, <1>8 DEF Halfway, Linked, HasChild, Child, Link
<1>11. AtX'
  BY <1>1, <1>2, <1>4, <1>10 DEF AtX
<1> QED BY <1>1, <1>2, <1>7, <1>9, <1>11 DEF CopyInv

LEMMA CopyCopyItem == CopyInv /\ CopyItem => CopyInv'
<1> SUFFICES ASSUME CopyInv, CopyItem PROVE CopyInv'
  OBVIOUS
<1>1. PICK x : x = cp_x
  OBVIOUS
<1>2. /\ cp_data' = [cp_data EXCEPT ![x] = "item"] /\ cp_pc = "item" /\ cp_pc' = "right"
      /\ cp_org' = cp_org /\ cp_link' = cp_link /\ cp_live' = cp_live /\ cp_x' = cp_x
      /\ cp_stack' = cp_stack /\ cp_destroyed' = cp_destroyed /\ cp_wild' = cp_wild
      /\ cp_strays' = cp_strays
  BY <1>1 DEF CopyItem
<1>3. x # Top
  BY <1>1, <1>2, XIs DEF AtTop
<1>4. AtX /\ Halfway(x) /\ x \in cp_live /\ x \in TreeNodes
  BY <1>1, <1>2, <1>3, XIs DEF AtX
<1>5. /\ cp_data' \in [TreeNodes -> {"item", "null", "unset"}] /\ cp_data'[x] = "item"
      /\ \A k \in TreeNodes : k # x => cp_data'[k] = cp_data[k]
  BY <1>2, <1>4 DEF CopyInv, CopyForm
<1>6. CopyForm'
  <2>1. \A n \in TreeNodes \ cp_live : Untouched(n)'
    BY <1>2, <1>4, <1>5, NodeKept DEF CopyInv, CopyForm
  <2> QED BY <1>2, <1>5, <2>1 DEF CopyInv, CopyForm
<1>7. \A n \in cp_live' : Hangs(n)'
  BY <1>2 DEF CopyInv, Hangs, Link
<1>8. \A n \in cp_live \ {x} : IF n \in Waiting THEN Halfway(n)' ELSE Finished(n)'
  BY <1>1, <1>2, <1>5, OthersStill
<1>9. StackForm' /\ Waiting' = Waiting
  BY <1>2, StackStays
<1>10. AtX'
  <2>1. \A d : Link(x, d)' = Link(x, d)
    BY <1>2 DEF Link
  <2>2. Linked(x, 0)'
    BY <1>2, <1>4, <2>1, LinkedStill DEF Halfway
  <2>3. Linked(cp_x, 0)' /\ Link(cp_x, 1)' = Unset
    BY <1>1, <1>2, <1>4, <2>1, <2>2 DEF Halfway, Linked, HasChild, Child, Link
  <2> QED BY <1>1, <1>2, <1>4, <1>5, <2>3 DEF AtX
<1> QED BY <1>1, <1>2, <1>6, <1>7, <1>8, <1>9, <1>10 DEF CopyInv

LEMMA CopyItemRefused == CopyInv /\ ItemRefused => CopyInv'
<1> SUFFICES ASSUME CopyInv, ItemRefused PROVE CopyInv'
  OBVIOUS
<1>1. PICK x : x = cp_x
  OBVIOUS
<1>2. /\ cp_data' = [cp_data EXCEPT ![x] = "null"] /\ SetLink(x, 1, NoNode)
      /\ cp_pc = "item" /\ cp_pc' = "recover"
      /\ cp_org' = cp_org /\ cp_live' = cp_live /\ cp_x' = cp_x
      /\ cp_stack' = cp_stack /\ cp_destroyed' = cp_destroyed /\ cp_wild' = cp_wild
      /\ cp_strays' = cp_strays
  BY <1>1 DEF ItemRefused, SetLink
<1>3. x # Top
  BY <1>1, <1>2, XIs DEF AtTop
<1>4. AtX /\ Halfway(x) /\ x \in cp_live /\ x \in TreeNodes
  BY <1>1, <1>2, <1>3, XIs DEF AtX
<1>5. /\ cp_data' \in [TreeNodes -> {"item", "null", "unset"}]
      /\ \A k \in TreeNodes : k # x => cp_data'[k] = cp_data[k]
  BY <1>2, <1>4 DEF CopyInv, CopyForm
<1>6. Link(x, 1) \in {Unset, NoNode}
  BY <1>4 DEF Halfway
<1>7. /\ CopyForm' /\ \A n \in cp_live' : Hangs(n)'
      /\ \A n \in cp_live \ {x} : IF n \in Waiting THEN Halfway(n)' ELSE Finished(n)'
      /\ Link(x, 1)' = NoNode /\ Link(x, 0)' = Link(x, 0)
  BY <1>1, <1>2, <1>3, <1>5, <1>6, StaysAtX
<1>8. Link(x, 0) = NoNode \/ (Link(x, 0) = Child(x, 0) /\ Child(x, 0) \in cp_live)
  BY <1>4 DEF Halfway, Linked
<1>9. StackForm' /\ Waiting' = Waiting
  BY <1>2, StackStays
<1>10. AtX'
  <2>1. /\ \/ Link(cp_x, 0)' = NoNode
           \/ Link(cp_x, 0)' = Child(cp_x, 0)' /\ Child(cp_x, 0)' \in cp_live'
        /\ Link(cp_x, 1)' = NoNode
    BY <1>1, <1>2, <1>7, <1>8 DEF Link, Child
  <2>2. cp_data'[cp_x'] # "unset"
    BY <1>1, <1>2, <1>4 DEF CopyInv, CopyForm
  <2> QED BY <1>1, <1>2, <1>4, <2>1, <2>2 DEF AtX
<1> QED BY <1>1, <1>2, <1>7, <1>9, <1>10 DEF CopyInv

LEMMA CopyNewRight == CopyInv /\ NewRight => CopyInv'
<1> SUFFICES ASSUME CopyInv, NewRight PROVE CopyInv'
  OBVIOUS
<1>1. PICK x, c : x = cp_x /\ c = Child(x, 1)
  OBVIOUS
<1>2. cp_pc = "right" /\ x # Top
  BY <1>1, XIs DEF NewRight, AtTop
<1>3. /\ AtX /\ x \in cp_live /\ <<x, 0>> \in LinkPlaces /\ <<x, 1>> \in LinkPlaces
      /\ cp_data[x] = "item" /\ Linked(x, 0) /\ Link(x, 1) = Unset
  BY <1>1, <1>2, XIs DEF AtX
<1>4. /\ ChildMade(x, 1, c) /\ cp_pc' = "left" /\ cp_stack' = cp_stack
      /\ cp_destroyed' = cp_destroyed /\ cp_wild' = cp_wild
      /\ cp_strays' = cp_strays
  BY <1>1, <1>3 DEF NewRight, ChildMade, SetLink
<1>5. c \notin cp_live
  <2>1. Link(cp_x, 1) \in {Unset, NoNode}
    BY <1>1, <1>3
  <2> QED BY <1>1, <1>2, <2>1, NoSuchChild
<1>6. MadeWell(x, 1, c)
  <2>1. x \in cp_live \cup {Top} /\ (x = Top \/ <<>> \in cp_live)
    BY <1>3 DEF AtX
  <2> QED BY <1>4, <1>5, <2>1, NewChild
<1>7. cp_x' = c /\ cp_live' = cp_live \cup {c} /\ cp_org' = cp_org /\ HasChild(x, 1) /\ cp_data' = cp_data
  BY <1>4 DEF ChildMade
<1>8. Waiting' = Waiting /\ x \notin Waiting /\ c \notin Waiting
  <2>1. Waiting' = Waiting
    BY <1>4 DEF Waiting
  <2> QED BY <1>1, <1>5, <2>1, WaitingIs
<1>9. StackForm'
  <2>1. /\ cp_stack \in Seq(cp_live \cup {Top})
        /\ Len(cp_stack) >= 1 => cp_stack[1] = Top
        /\ \A i, j \in 1 .. Len(cp_stack) : cp_stack[i] = cp_stack[j] => i = j
    BY DEF CopyInv, StackForm
  <2>2. cp_stack \in Seq(cp_live' \cup {Top})
    BY <1>7, <2>1, SeqMonotonic
  <2>3. \A i \in 1 .. Len(cp_stack) : cp_stack[i] # c
    BY <1>5, <1>6, WaitingIs DEF MadeWell
  <2> QED BY <1>4, <1>7, <2>1, <2>2, <2>3 DEF StackForm
<1>10. Finished(x)'
  <2>1. Link(x, 0)' = Link(x, 0) /\ Link(x, 1)' = c
    BY <1>3, <1>6 DEF MadeWell
  <2>2. Linked(x, 0)'
    BY <1>3, <1>7, <2>1, LinkedStill
  <2>3. Linked(x, 1)'
    <3>1. HasChild(x, 1)'
      BY <1>7 DEF HasChild
    <3> QED BY <1>1, <1>7, <2>1, <3>1 DEF Linked
  <2> QED BY <1>3, <1>7, <2>2, <2>3 DEF Finished
<1>11. \A n \in cp_live' \ {cp_x'} : IF n \in Waiting' THEN Halfway(n)' ELSE Finished(n)'
  BY <1>6, <1>7, <1>8, <1>10 DEF MadeWell
<1>12. AtX'
  <2>1. <<>> \in cp_live' /\ c \in cp_live' /\ Untouched(c)'
    BY <1>6 DEF MadeWell
  <2>2. Len(cp_stack') >= 1
    BY <1>3, <1>4 DEF AtX
  <2>3. Untouched(cp_x)'
    BY <1>7, <2>1 DEF Untouched, Link
  <2> QED BY <1>4, <1>7, <2>1, <2>2, <2>3 DEF AtX
<1>13. CopyForm' /\ \A n \in cp_live' : Hangs(n)'
  BY <1>6 DEF MadeWell
<1>14. /\ cp_pc' \in {"left", "item", "right", "copied", "recover"}
       /\ cp_destroyed' = 0 /\ cp_strays' = {} /\ ~ cp_wild'
  BY <1>4 DEF CopyInv
<1> QED BY <1>9, <1>11, <1>12, <1>13, <1>14 DEF CopyInv

LEMMA CopyNoMemoryRight == CopyInv /\ NoMemoryRight => CopyInv'
<1> SUFFICES ASSUME CopyInv, NoMemoryRight PROVE CopyInv'
  OBVIOUS
<1>1. PICK x : x = cp_x
  OBVIOUS
<1>2. /\ SetLink(x, 1, NoNode) /\ cp_pc = "right" /\ cp_pc' = "recover"
      /\ cp_org' = cp_org /\ cp_data' = cp_data /\ cp_live' = cp_live /\ cp_x' = cp_x
      /\ cp_stack' = cp_stack /\ cp_destroyed' = cp_destroyed /\ cp_wild' = cp_wild
      /\ cp_strays' = cp_strays
  BY <1>1 DEF NoMemoryRight, SetLink
<1>3. x # Top
  BY <1>1, <1>2, XIs DEF AtTop
<1>4. AtX /\ x \in cp_live /\ Linked(x, 0) /\ Link(x, 1) = Unset /\ cp_data[x] = "item"
  BY <1>1, <1>2, <1>3, XIs DEF AtX
<1>5. cp_data' \in [TreeNodes -> {"item", "null", "unset"}]
  BY <1>2 DEF CopyInv, CopyForm
<1>7. /\ CopyForm' /\ \A n \in cp_live' : Hangs(n)'
      /\ \A n \in cp_live \ {x} : IF n \in Waiting THEN Halfway(n)' ELSE Finished(n)'
      /\ Link(x, 1)' = NoNode /\ Link(x, 0)' = Link(x, 0)
  BY <1>1, <1>2, <1>3, <1>4, <1>5, StaysAtX
<1>8. Link(x, 0) = NoNode \/ (Link(x, 0) = Child(x, 0) /\ Child(x, 0) \in cp_live)
  BY <1>4 DEF Linked
<1>9. StackForm' /\ Waiting' = Waiting
  BY <1>2, StackStays
<1>10. AtX'
  <2>1. /\ \/ Link(cp_x, 0)' = NoNode
           \/ Link(cp_x, 0)' = Child(cp_x, 0)' /\ Child(cp_x, 0)' \in cp_live'
        /\ Link(cp_x, 1)' = NoNode
    BY <1>1, <1>2, <1>7, <1>8 DEF Link, Child
  <2> QED BY <1>1, <1>2, <1>4, <2>1 DEF AtX
<1> QED BY <1>1, <1>2, <1>7, <1>9, <1>10 DEF CopyInv

(* The last link of x is set, and the copy goes on at the node above that  *)
(* waits, or is at its end.                                                *)
LEMMA CopyPop == CopyInv /\ Pop => CopyInv'
<1> SUFFICES ASSUME CopyInv, Pop PROVE CopyInv'
  OBVIOUS
<1>1. PICK x : x = cp_x
  OBVIOUS
<1>2. /\ SetLink(x, 1, NoNode) /\ cp_pc = "right" /\ ~ HasChild(x, 1)
      /\ cp_org' = cp_org /\ cp_data' = cp_data /\ cp_live' = cp_live
      /\ cp_destroyed' = cp_destroyed /\ cp_wild' = cp_wild
      /\ cp_strays' = cp_strays
  BY <1>1 DEF Pop, SetLink
<1>3. x # Top
  BY <1>1, <1>2, XIs DEF AtTop
<1>4. /\ AtX /\ x \in cp_live /\ <<>> \in cp_live /\ Len(cp_stack) >= 1
      /\ cp_data[x] = "item" /\ Linked(x, 0) /\ Link(x, 1) = Unset
  BY <1>1, <1>2, <1>3, XIs DEF AtX
<1>5. cp_data' \in [TreeNodes -> {"item", "null", "unset"}]
  BY <1>2 DEF CopyInv, CopyForm
<1>6. /\ CopyForm' /\ \A n \in cp_live' : Hangs(n)'
      /\ \A n \in cp_live \ {x} : IF n \in Waiting THEN Halfway(n)' ELSE Finished(n)'
      /\ Link(x, 1)' = NoNode /\ Link(x, 0)' = Link(x, 0)
  BY <1>1, <1>2, <1>3, <1>4, <1>5, StaysAtX
<1>7. Finished(x)'
  <2>1. Linked(x, 0)'
    BY <1>2, <1>4, <1>6, LinkedStill
  <2>2. Linked(x, 1)'
    <3>1. ~ HasChild(x, 1)'
      BY <1>2 DEF HasChild
    <3> QED BY <1>6, <3>1 DEF Linked
  <2> QED BY <1>2, <1>4, <2>1, <2>2 DEF Finished
<1>8. Len(cp_stack) \in Nat /\ Waiting \subseteq cp_live /\ x \notin Waiting
  BY <1>1, WaitingIs
<1>9. cp_destroyed' = 0 /\ cp_strays' = {} /\ ~ cp_wild'
  BY <1>2 DEF CopyInv
<1>10. CASE Len(cp_stack) <= 1
  <2>1. cp_pc' = "copied" /\ cp_x' = cp_x /\ cp_stack' = cp_stack
    BY <1>10 DEF Pop
  <2>2. StackForm' /\ Waiting' = Waiting
    BY <1>2, <2>1, StackStays
  <2>3. Waiting = {}
    BY <1>8, <1>10 DEF Waiting
  <2>4. Finished(cp_x)'
    BY <1>1, <1>7, <2>1 DEF Finished, Linked, HasChild, Child, Link
  <2>5. AtX'
    BY <1>1, <1>2, <1>4, <2>1, <2>2, <2>3, <2>4 DEF AtX
  <2> QED BY <1>1, <1>2, <1>6, <1>9, <2>1, <2>2, <2>5 DEF CopyInv
<1>11. CASE ~ (Len(cp_stack) <= 1)
  <2> DEFINE y == Last(cp_stack)
             l == Len(cp_stack)
  <2>1. cp_pc' = "item" /\ cp_x' = y /\ cp_stack' = Front(cp_stack)
    BY <1>11 DEF Pop
  <2>2. /\ cp_stack \in Seq(cp_live \cup {Top})
        /\ cp_stack[1] = Top
        /\ \A i, j \in 1 .. l : cp_stack[i] = cp_stack[j] => i = j
        /\ \A i \in 1 .. l : cp_stack[i] # x
    BY <1>1, <1>4 DEF CopyInv, StackForm
  <2>3. l \in Nat /\ l >= 2 /\ y = cp_stack[l] /\ y \in Waiting
    BY <1>8, <1>11 DEF Last, Waiting
  <2>4. y \in cp_live /\ y # x /\ y # Top
    BY <1>8, <2>3, XIs
  <2>5. /\ cp_stack' \in Seq(cp_live \cup {Top}) /\ Len(cp_stack') = l - 1
        /\ \A i \in 1 .. l - 1 : cp_stack'[i] = cp_stack[i]
    <3>1. l - 1 \in 0 .. l
      BY <2>3
    <3>2. cp_stack' = SubSeq(cp_stack, 1, l - 1)
      BY <2>1 DEF Front
    <3> DEFINE s == cp_stack
               S == cp_live \cup {Top}
    <3>3. s \in Seq(S) /\ l = Len(s)
      BY <2>2
    <3> HIDE DEF s, S, l
    <3>4. /\ SubSeq(s, 1, l - 1) \in Seq(S) /\ Len(SubSeq(s, 1, l - 1)) = l - 1
          /\ \A i \in 1 .. l - 1 : SubSeq(s, 1, l - 1)[i] = s[i]
      BY <3>1, <3>3, PrefixIs
    <3> QED BY <3>2, <3>4 DEF s, S
  <2> HIDE DEF l
  <2>6. 1 .. l - 1 \subseteq 1 .. l /\ 1 \in 1 .. l - 1 /\ l \in 1 .. l /\ l \notin 1 .. l - 1
    BY <2>3
  <2>7. StackForm'
    <3>1. \A i \in 1 .. l - 1 : cp_stack[i] # y
      BY <2>2, <2>3, <2>6
    <3>2. cp_stack'[1] = Top
      BY <2>2, <2>5, <2>6
    <3>3. ASSUME NEW i \in 1 .. l - 1, NEW j \in 1 .. l - 1, cp_stack'[i] = cp_stack'[j]
          PROVE  i = j
      BY <2>2, <2>5, <2>6, <3>3
    <3>4. \A i \in 1 .. l - 1 : cp_stack'[i] # cp_x'
      BY <2>1, <2>5, <3>1
    <3> QED BY <1>2, <2>5, <3>2, <3>3, <3>4 DEF StackForm
  <2>8. Waiting' = Waiting \ {y}
    <3>1. Waiting' = {cp_stack[i] : i \in 2 .. l - 1}
      <4>1. \A i \in 2 .. l - 1 : cp_stack'[i] = cp_stack[i]
        BY <2>3, <2>5
      <4> QED BY <2>5, <4>1 DEF Waiting
    <3>2. Waiting = {cp_stack[i] : i \in 2 .. l}
      BY DEF Waiting, l
    <3>3. \A i \in 2 .. l : i \in 1 .. l /\ (i \in 2 .. l - 1 \/ i = l)
      BY <2>3
    <3>4. \A i \in 2 .. l - 1 : i \in 2 .. l /\ i \in 1 .. l /\ i # l
      BY <2>3
    <3>5. \A i \in 2 .. l - 1 : cp_stack[i] # y
      BY <2>2, <2>3, <2>6, <3>4
    <3> QED BY <2>3, <3>1, <3>2, <3>3, <3>4, <3>5
  <2>9. \A n \in cp_live' \ {cp_x'} : IF n \in Waiting' THEN Halfway(n)' ELSE Finished(n)'
    <3> SUFFICES ASSUME NEW n \in cp_live, n # y
                 PROVE  IF n \in Waiting' THEN Halfway(n)' ELSE Finished(n)'
      BY <1>2, <2>1
    <3>1. CASE n = x
      BY <1>7, <1>8, <2>8, <3>1
    <3>2. CASE n # x
      BY <1>6, <2>8, <3>2
    <3> QED BY <3>1, <3>2
  <2>10. AtX'
    <3>1. Len(cp_stack') >= 1
      BY <2>3, <2>5
    <3>2. Halfway(cp_x)'
      <4>1. PICK z : z = y
        OBVIOUS
      <4>2. Halfway(z)' /\ cp_x' = z
        BY <2>1, <2>3, <2>4, <4>1, <1>6
      <4> QED BY <4>2 DEF Halfway, Linked, HasChild, Child, Link
    <3> QED BY <1>2, <1>4, <2>1, <2>4, <3>1, <3>2 DEF AtX
  <2> QED BY <1>6, <1>9, <2>1, <2>7, <2>9, <2>10 DEF CopyInv
<1> QED BY <1>10, <1>11

(* There is no memory for a node to the left: x is left without links.     *)
LEMMA CopyNoMemoryLeft == CopyInv /\ NoMemoryLeft => CopyInv'
<1> SUFFICES ASSUME CopyInv, NoMemoryLeft PROVE CopyInv'
  OBVIOUS
<1>1. PICK x : x = cp_x
  OBVIOUS
<1> DEFINE none == IF x = Top THEN <<NoNode>> ELSE <<NoNode, NoNode>>
<1>2. /\ cp_pc = "left" /\ cp_pc' = "recover" /\ cp_link' = [cp_link EXCEPT ![x] = none]
      /\ cp_data' = IF x = Top THEN cp_data ELSE [cp_data EXCEPT ![x] = "null"]
      /\ cp_org' = cp_org /\ cp_live' = cp_live /\ cp_x' = cp_x
      /\ cp_stack' = cp_stack /\ cp_destroyed' = cp_destroyed /\ cp_wild' = cp_wild
      /\ cp_strays' = cp_strays
  BY <1>1 DEF NoMemoryLeft
<1>3. x \in cp_live \cup {Top} /\ cp_live \subseteq TreeNodes /\ Top \notin TreeNodes
  BY <1>1, XIs, NamesAre
<1>4. LinkForm(cp_link) /\ cp_live \subseteq cp_org /\ cp_data \in [TreeNodes -> {"item", "null", "unset"}]
  BY DEF CopyInv, CopyForm
<1>5. /\ DOMAIN cp_link' = DOMAIN cp_link /\ cp_link'[x] = none
      /\ \A k \in TreeNodes \cup {Top} : k # x => cp_link'[k] = cp_link[k]
  BY <1>2, <1>3, <1>4 DEF LinkForm
<1>6. LinkForm(cp_link')
  <2>1. DOMAIN <<NoNode>> = {1} /\ DOMAIN <<NoNode, NoNode>> = {1, 2}
    OBVIOUS
  <2>2. DOMAIN none = IF x = Top THEN {1} ELSE {1, 2}
    BY <2>1
  <2> HIDE DEF none
  <2> QED BY <1>3, <1>4, <1>5, <2>2 DEF LinkForm
<1>7. /\ cp_data' \in [TreeNodes -> {"item", "null", "unset"}]
      /\ \A k \in TreeNodes : k # x => cp_data'[k] = cp_data[k]
  BY <1>2, <1>4
<1>8. CopyForm'
  <2>1. ASSUME NEW n \in TreeNodes \ cp_live PROVE Untouched(n)'
    <3>1. Untouched(n) /\ n # x
      BY <1>3 DEF CopyInv, CopyForm
    <3>2. cp_link'[n] = cp_link[n] /\ cp_data'[n] = cp_data[n]
      BY <1>5, <1>7, <3>1
    <3> QED BY <1>2, <3>1, <3>2, NodeKept
  <2> QED BY <1>2, <1>4, <1>6, <1>7, <2>1 DEF CopyInv, CopyForm
<1>9. ASSUME NEW n \in cp_live PROVE Hangs(n)'
  <2> DEFINE a == NodeAbove(n)
             e == SideOf(n)
  <2>1. <<a, e>> \in LinkPlaces /\ Child(a, e) = n /\ a \in cp_live \cup {Top} /\ Link(a, e) = n
    BY LiveIs DEF CopyInv, Hangs
  <2>2. a # x
    <3>1. CASE x = Top
      BY <1>1, <2>1, <3>1, XIs DEF AtTop
    <3>2. CASE x # Top
      <4>1. Untouched(x)
        BY <1>1, <1>2, <3>2, XIs DEF AtX
      <4>2. n # Unset
        BY <1>3, NamesAre
      <4> QED BY <2>1, <3>2, <4>1, <4>2 DEF Untouched, LinkPlaces
    <3> QED BY <3>1, <3>2
  <2>3. cp_link'[a] = cp_link[a]
    BY <1>3, <1>5, <2>1, <2>2
  <2> QED BY <1>2, <2>1, <2>3 DEF Hangs, Link
<1>10. \A n \in cp_live \ {x} : IF n \in Waiting THEN Halfway(n)' ELSE Finished(n)'
  BY <1>1, <1>2, <1>5, <1>7, OthersStill
<1>11. StackForm' /\ Waiting' = Waiting
  BY <1>2, StackStays
<1>12. AtTop' \/ AtX'
  <2>1. CASE x = Top
    <3>1. AtTop
      BY <1>1, <2>1, XIs
    <3>2. Link(Top, 0)' = NoNode
      BY <1>5, <2>1 DEF Link
    <3> QED BY <1>2, <3>1, <3>2 DEF AtTop
  <2>2. CASE x # Top
    <3>1. AtX
      BY <1>1, <2>2, XIs
    <3>2. Link(x, 0)' = NoNode /\ Link(x, 1)' = NoNode
      BY <1>5, <2>2 DEF Link
    <3>3. Link(cp_x, 0)' = NoNode /\ Link(cp_x, 1)' = NoNode
      BY <1>1, <1>2, <3>2 DEF Link
    <3>4. cp_data'[cp_x'] # "unset"
      BY <1>1, <1>2, <1>3, <1>4, <2>2
    <3> QED BY <1>1, <1>2, <3>1, <3>3, <3>4 DEF AtX
  <2> QED BY <2>1, <2>2
<1> QED BY <1>1, <1>2, <1>8, <1>9, <1>10, <1>11, <1>12 DEF CopyInv

-----------------------------------------------------------------------------
(* What the copy has made when it is done; nothing waits.                  *)
LEMMA NothingWaits == CopyInv /\ cp_pc = "copied" => Waiting = {}
<1> SUFFICES ASSUME CopyInv, cp_pc = "copied" PROVE Waiting = {}
  OBVIOUS
<1>1. CASE AtTop
  <2>1. Len(cp_stack) = 0
    BY <1>1, EmptySeq DEF AtTop
  <2> QED BY <2>1 DEF Waiting
<1>2. CASE AtX
  BY <1>2 DEF AtX
<1> QED BY <1>1, <1>2 DEF CopyInv

LEMMA CopyEnds ==
  ASSUME CopyInv, cp_pc = "copied"
  PROVE  \A n \in cp_live : Finished(n)
<1>1. CASE AtTop
  BY <1>1 DEF AtTop
<1>2. CASE AtX
  <2>1. Finished(cp_x) /\ Waiting = {}
    BY <1>2 DEF AtX
  <2>2. \A n \in cp_live \ {cp_x} : Finished(n)
    BY <2>1 DEF CopyInv
  <2>3. PICK x : x = cp_x
    OBVIOUS
  <2>4. Finished(x)
    BY <2>1, <2>3 DEF Finished, Linked, HasChild, Child, Link
  <2> QED BY <2>2, <2>3, <2>4
<1> QED BY <1>1, <1>2 DEF CopyInv

LEMMA CopyHasAll ==
  ASSUME CopyInv, cp_pc = "copied"
  PROVE  cp_live = cp_org
<1>1. ClosedUp(cp_org) /\ cp_org \subseteq Names /\ cp_live \subseteq cp_org /\ cp_org \subseteq TreeNodes
  BY DEF CopyInv, CopyForm, ClosedUp
<1>2. CASE AtTop
  BY <1>2 DEF AtTop
<1>3. CASE AtX
  <2>1. <<>> \in cp_live
    BY <1>3 DEF AtX
  <2> DEFINE A == {k \in Nat : \A n \in cp_org : Len(n) = k => n \in cp_live}
  <2>2. 0 \in A
    BY <1>1, <2>1, EmptySeq DEF Names
  <2>3. ASSUME NEW k \in Nat \ {0}, k - 1 \in A PROVE k \in A
    <3> SUFFICES ASSUME NEW n \in cp_org, Len(n) = k PROVE n \in cp_live
      BY <2>3
    <3>1. n \in Names /\ n # <<>>
      BY <1>1, EmptySeq DEF Names
    <3>2. /\ Front(n) \in cp_org /\ Len(Front(n)) = k - 1 /\ Last(n) \in {0, 1}
          /\ Child(Front(n), Last(n)) = n /\ Front(n) \in Names
      BY <1>1, <3>1, NameIs DEF ClosedUp
    <3>3. Front(n) \in cp_live /\ Front(n) # Top
      BY <2>3, <3>2, NamesAre
    <3>4. Linked(Front(n), Last(n))
      BY <3>2, <3>3, CopyEnds DEF Finished
    <3>5. HasChild(Front(n), Last(n))
      BY <3>2, <3>3 DEF HasChild
    <3> QED BY <3>2, <3>4, <3>5 DEF Linked
  <2>4. \A m \in Nat : 0 .. m \subseteq A
    <3> HIDE DEF A
    <3> SUFFICES ASSUME NEW m \in Nat PROVE 0 .. m \subseteq A
      OBVIOUS
    <3>1. \A n \in 1 .. m : n - 1 \in A => n \in A
      BY <2>3
    <3> QED BY <2>2, <3>1, UpTo
  <2>5. ASSUME NEW n \in cp_org PROVE n \in cp_live
    <3>1. Len(n) \in Nat
      BY <1>1, LenProperties DEF Names
    <3>2. Len(n) \in A
      BY <2>4, <3>1
    <3> QED BY <3>2
  <2> QED BY <1>1, <2>5
<1> QED BY <1>2, <1>3 DEF CopyInv

LEMMA CopyInvWhole == CopyInv => CopyIsWhole
<1> SUFFICES ASSUME CopyInv, cp_pc = "copied"
             PROVE  /\ cp_live = cp_org
                    /\ \A n \in cp_org :
                         /\ cp_data[n] = "item"
                         /\ \A d \in {0, 1} :
                              Link(n, d) = IF HasChild(n, d) THEN Child(n, d) ELSE NoNode
  BY DEF CopyIsWhole
<1> QED BY CopyEnds, CopyHasAll DEF Finished, Linked

-----------------------------------------------------------------------------
(* The new tree when it is given back: below a node are those whose names  *)
(* go on from its own.                                                     *)
IsAt(n, m) == Len(n) <= Len(m) /\ \A i \in 1 .. Len(n) : m[i] = n[i]

LEMMA AboveIsThere ==
  ASSUME NEW live, ClosedUp(live), NEW m \in live, NEW n \in Names, IsAt(n, m)
  PROVE  n \in live
<1> DEFINE A == {k \in Nat : \A p \in live : Len(p) = k /\ IsAt(n, p) => n \in live}
<1>0. live \subseteq Names /\ Len(n) \in Nat /\ \A p \in live : Len(p) \in Nat
  BY LenProperties DEF ClosedUp, Names
<1>1. ASSUME NEW p \in live, IsAt(n, p), Len(p) = Len(n) PROVE n \in live
  <2>1. p = n
    BY <1>0, <1>1, SeqEqual DEF IsAt, Names
  <2> QED BY <2>1
<1>2. 0 \in A
  <2> SUFFICES ASSUME NEW p \in live, Len(p) = 0, IsAt(n, p) PROVE n \in live
    OBVIOUS
  <2>1. Len(n) = 0
    BY <1>0 DEF IsAt
  <2> QED BY <1>1, <2>1
<1>3. ASSUME NEW k \in Nat \ {0}, k - 1 \in A PROVE k \in A
  <2> SUFFICES ASSUME NEW p \in live, Len(p) = k, IsAt(n, p), Len(p) # Len(n) PROVE n \in live
    BY <1>1, <1>3
  <2>1. p \in Names /\ p # <<>>
    BY <1>0, <1>3, EmptySeq DEF Names
  <2>2. /\ Front(p) \in live /\ Len(Front(p)) = k - 1
        /\ \A i \in 1 .. k - 1 : Front(p)[i] = p[i]
    BY <2>1, NameIs DEF ClosedUp
  <2>3. IsAt(n, Front(p))
    <3>1. Len(n) <= k - 1
      BY <1>0 DEF IsAt
    <3>2. \A i \in 1 .. Len(n) : i \in 1 .. k - 1
      BY <1>0, <3>1
    <3> QED BY <2>2, <3>1, <3>2 DEF IsAt
  <2> QED BY <1>3, <2>2, <2>3
<1>4. \A k \in Nat : 0 .. k \subseteq A
  <2> HIDE DEF A
  <2> SUFFICES ASSUME NEW k \in Nat PROVE 0 .. k \subseteq A
    OBVIOUS
  <2>1. \A i \in 1 .. k : i - 1 \in A => i \in A
    BY <1>3
  <2> QED BY <1>2, <2>1, UpTo
<1>5. Len(m) \in A
  BY <1>0, <1>4
<1> QED BY <1>5

LEMMA IsAtChild ==
  ASSUME NEW n \in Names, NEW m \in Names, NEW d \in {0, 1}
  PROVE  IsAt(Child(n, d), m) <=> IsAt(n, m) /\ Len(n) < Len(m) /\ m[Len(n) + 1] = d
<1> DEFINE c == Child(n, d)
<1>1. /\ Len(n) \in Nat /\ Len(c) = Len(n) + 1 /\ c[Len(n) + 1] = d
      /\ \A i \in 1 .. Len(n) : c[i] = n[i]
  BY ChildIs
<1>2. Len(m) \in Nat
  BY LenProperties DEF Names
<1> HIDE DEF c
<1>3. \A i : i \in 1 .. Len(n) + 1 <=> i \in 1 .. Len(n) \/ i = Len(n) + 1
  BY <1>1
<1>4. (\A i \in 1 .. Len(c) : m[i] = c[i]) <=> (\A i \in 1 .. Len(n) : m[i] = n[i]) /\ m[Len(n) + 1] = d
  BY <1>1, <1>3
<1>5. Len(c) <= Len(m) <=> Len(n) < Len(m)
  BY <1>1, <1>2
<1>6. IsAt(c, m) <=> IsAt(n, m) /\ Len(n) < Len(m) /\ m[Len(n) + 1] = d
  BY <1>1, <1>2, <1>4, <1>5 DEF IsAt
<1> QED BY <1>6 DEF c

(* The links of a tree that is whole, and the nodes below each.            *)
Whole(live, link) ==
  \A n \in live, d \in {0, 1} :
    link[n][d + 1] = IF Child(n, d) \in live THEN Child(n, d) ELSE NoNode

LEMMA WholeRemains ==
  ASSUME NEW live, live \subseteq TreeNodes, ClosedUp(live), NEW link, Whole(live, link),
         NEW x, x = IF live = {} THEN NoNode ELSE <<>>
  PROVE  \E T : Remains(T, x, live, link)
<1> DEFINE Under(n) == {m \in live : IsAt(n, m)}
           T == [n \in TreeNodes \cup {NoNode} |-> IF n = NoNode THEN {} ELSE Under(n)]
<1>1. live \subseteq Names /\ NoNode \notin TreeNodes /\ \A n \in live : Len(n) \in Nat
  BY NamesAre, LenProperties DEF ClosedUp, Names
<1>2. /\ T \in [TreeNodes \cup {NoNode} -> SUBSET TreeNodes] /\ T[NoNode] = {}
      /\ \A n \in TreeNodes : T[n] = Under(n)
  BY <1>1
<1>3. ASSUME NEW n \in live, NEW d \in {0, 1}
      PROVE  /\ link[n][d + 1] \in live \cup {NoNode}
             /\ \A m : m \in T[link[n][d + 1]] <=>
                         m \in live /\ IsAt(n, m) /\ Len(n) < Len(m) /\ m[Len(n) + 1] = d
  <2> DEFINE c == Child(n, d)
  <2>1. link[n][d + 1] = IF c \in live THEN c ELSE NoNode
    BY DEF Whole
  <2>2. c \in Names
    BY <1>1, ChildIs
  <2>3. \A m \in live : IsAt(c, m) <=> IsAt(n, m) /\ Len(n) < Len(m) /\ m[Len(n) + 1] = d
    BY <1>1, IsAtChild
  <2> HIDE DEF c, T
  <2>4. CASE c \in live
    BY <1>2, <2>1, <2>3, <2>4
  <2>5. CASE c \notin live
    <3>1. \A m \in live : ~ IsAt(c, m)
      BY <2>2, <2>5, AboveIsThere
    <3> QED BY <1>2, <2>1, <2>3, <2>5, <3>1
  <2> QED BY <2>4, <2>5
<1> HIDE DEF T
<1>4. \A n \in live, d \in {1, 2} : link[n][d] \in live \cup {NoNode}
  <2> SUFFICES ASSUME NEW n \in live, NEW d \in {1, 2} PROVE link[n][d] \in live \cup {NoNode}
    OBVIOUS
  <2>1. d - 1 \in {0, 1} /\ (d - 1) + 1 = d
    OBVIOUS
  <2> QED BY <1>3, <2>1
<1>5. ASSUME NEW n \in live, NEW m \in live, NEW d \in {1, 2}, NEW e \in {1, 2},
             link[n][d] = link[m][e], link[n][d] # NoNode
      PROVE  n = m /\ d = e
  <2>1. d - 1 \in {0, 1} /\ (d - 1) + 1 = d /\ e - 1 \in {0, 1} /\ (e - 1) + 1 = e
    OBVIOUS
  <2>2. link[n][d] = Child(n, d - 1)
    BY <1>5, <2>1 DEF Whole
  <2>3. link[m][e] = Child(m, e - 1)
    BY <1>5, <2>1 DEF Whole
  <2>4. n = m /\ d - 1 = e - 1
    BY <1>1, <1>5, <2>1, <2>2, <2>3, ChildrenDiffer
  <2> QED BY <2>4
<1>6. T[x] = live
  <2>1. CASE live = {}
    BY <1>2, <2>1
  <2>2. CASE live # {}
    <3>1. <<>> \in live /\ x = <<>>
      BY <2>2, RootIsThere
    <3>2. \A m \in live : IsAt(<<>>, m)
      BY <1>1 DEF IsAt
    <3> QED BY <1>2, <3>1, <3>2
  <2> QED BY <2>1, <2>2
<1>7. ASSUME NEW n \in live
      PROVE  /\ T[n] = {n} \cup T[link[n][1]] \cup T[link[n][2]]
             /\ n \notin T[link[n][1]] /\ n \notin T[link[n][2]]
             /\ T[link[n][1]] \cap T[link[n][2]] = {}
  <2> DEFINE A == T[link[n][1]]
             B == T[link[n][2]]
  <2>1. \A m : m \in A <=> m \in live /\ IsAt(n, m) /\ Len(n) < Len(m) /\ m[Len(n) + 1] = 0
    <3>1. 0 + 1 = 1
      OBVIOUS
    <3> QED BY <1>3, <3>1
  <2>2. \A m : m \in B <=> m \in live /\ IsAt(n, m) /\ Len(n) < Len(m) /\ m[Len(n) + 1] = 1
    <3>1. 1 + 1 = 2
      OBVIOUS
    <3> QED BY <1>3, <3>1
  <2>3. T[n] = Under(n)
    BY <1>2
  <2> HIDE DEF A, B
  <2>4. ASSUME NEW m \in Under(n), m # n PROVE m \in A \/ m \in B
    <3>1. m \in live /\ IsAt(n, m) /\ m \in Names /\ n \in Names /\ Len(m) \in Nat /\ Len(n) \in Nat
      BY <1>1
    <3>2. Len(n) # Len(m)
      BY <2>4, <3>1, SeqEqual DEF IsAt, Names
    <3>3. Len(n) < Len(m) /\ Len(n) + 1 \in 1 .. Len(m)
      BY <3>1, <3>2 DEF IsAt
    <3>4. m[Len(n) + 1] \in {0, 1}
      BY <3>1, <3>3, ElementOfSeq DEF Names
    <3> QED BY <2>1, <2>2, <3>1, <3>3, <3>4
  <2>5. n \in Under(n) /\ n \notin A /\ n \notin B
    BY <1>1, <2>1, <2>2 DEF IsAt
  <2>6. A \cap B = {}
    BY <2>1, <2>2
  <2>7. A \subseteq Under(n) /\ B \subseteq Under(n)
    BY <2>1, <2>2
  <2>8. T[n] = {n} \cup A \cup B
    BY <2>3, <2>4, <2>5, <2>7
  <2> QED BY <2>5, <2>6, <2>8 DEF A, B
<1>8. x \in live \cup {NoNode}
  BY RootIsThere
<1>9. Remains(T, x, live, link)
  BY <1>2, <1>4, <1>5, <1>6, <1>7, <1>8 DEF Remains
<1> QED BY <1>9

LEMMA LiveClosedUp == CopyInv => ClosedUp(cp_live)
<1> SUFFICES ASSUME CopyInv, NEW n \in cp_live, n # <<>> PROVE Front(n) \in cp_live
  BY NamesAre DEF ClosedUp, CopyInv, CopyForm
<1>1. n \in Names
  BY LiveIs
<1>2. Front(n) \in Names /\ NodeAbove(n) = Front(n)
  BY <1>1, NameIs DEF NodeAbove
<1> QED BY <1>2, NamesAre DEF CopyInv, Hangs

LEMMA LinkOfChild ==
  ASSUME CopyInv, NEW n \in cp_live, NEW d \in {0, 1}, Child(n, d) \in cp_live
  PROVE  Link(n, d) = Child(n, d) /\ Link(n, d) # NoNode /\ Link(n, d) # Unset
<1> DEFINE c == Child(n, d)
<1>1. n \in Names
  BY LiveIs
<1>2. NodeAbove(c) = n /\ SideOf(c) = d
  BY <1>1, ChildIs
<1> HIDE DEF c
<1>3. c \in cp_live
  BY DEF c
<1>4. Link(NodeAbove(c), SideOf(c)) = c /\ c \in Names
  BY <1>3, LiveIs DEF CopyInv, Hangs
<1> QED BY <1>2, <1>4, NamesAre DEF c

LEMMA RootLink ==
  ASSUME CopyInv
  PROVE  Link(Top, 0) = IF cp_live = {} THEN NoNode ELSE <<>>
<1>1. CASE AtTop
  BY <1>1 DEF AtTop
<1>2. CASE AtX
  <2>1. <<>> \in cp_live
    BY <1>2 DEF AtX
  <2>2. Hangs(<<>>)
    BY <2>1 DEF CopyInv
  <2> QED BY <2>1, <2>2 DEF Hangs, NodeAbove, SideOf
<1> QED BY <1>1, <1>2 DEF CopyInv

(* The links before the tree is given back.                                *)
LEMMA WholeOf ==
  ASSUME CopyInv, NEW link,
         \A n \in cp_live, d \in {0, 1} :
           \/ link[n][d + 1] = Link(n, d) /\ (Linked(n, d) \/ Link(n, d) = NoNode
                                               \/ (Link(n, d) = Child(n, d) /\ Child(n, d) \in cp_live))
           \/ link[n][d + 1] = NoNode /\ Link(n, d) = Unset
  PROVE  Whole(cp_live, link)
<1> SUFFICES ASSUME NEW n \in cp_live, NEW d \in {0, 1}
             PROVE  link[n][d + 1] = IF Child(n, d) \in cp_live THEN Child(n, d) ELSE NoNode
  BY DEF Whole
<1>1. CASE Child(n, d) \in cp_live
  BY <1>1, LinkOfChild
<1>2. CASE Child(n, d) \notin cp_live
  BY <1>2 DEF Linked
<1> QED BY <1>1, <1>2

LEMMA ClearBegins ==
  ASSUME CopyInv, cp_pc' = "clear", cp_x' = Link(Top, 0), cp_live' = cp_live,
         cp_data' = cp_data, cp_destroyed' = cp_destroyed, cp_wild' = cp_wild,
         cp_strays' = cp_strays, cp_stack' = cp_stack,
         \A n \in cp_live : cp_data[n] = "unset" => n \in Waiting,
         LinkForm(cp_link'), Whole(cp_live, cp_link')
  PROVE  ClearInv'
<1>1. /\ cp_live \subseteq TreeNodes /\ IsFiniteSet(cp_live)
      /\ \A n \in TreeNodes \ cp_live : Untouched(n)
  BY DEF CopyInv, CopyForm
<1>2. WithItem \subseteq cp_live /\ WithItem' = WithItem
  BY <1>1 DEF WithItem, Untouched
<1>3. IsFiniteSet(WithItem) /\ WithItem \cap cp_live = WithItem
  BY <1>1, <1>2, FS_Subset
<1>4. Cardinality(WithItem) \in Nat
  BY <1>3, FS_CardinalityType
<1>5. PICK x, link : x = cp_x' /\ link = cp_link'
  OBVIOUS
<1>6. x = IF cp_live = {} THEN NoNode ELSE <<>>
  BY <1>5, RootLink
<1>7. \E T : Remains(T, x, cp_live, link)
  BY <1>1, <1>5, <1>6, LiveClosedUp, WholeRemains
<1>8. \E T : Remains(T, cp_x, cp_live, cp_link)'
  BY <1>5, <1>7 DEF Remains
<1>9. cp_destroyed = 0 /\ cp_strays = {} /\ ~ cp_wild /\ Waiting' = Waiting
  BY DEF CopyInv, Waiting
<1>10. cp_strays' \subseteq Waiting' /\ \A n \in cp_live' : cp_data'[n] = "unset" => n \in Waiting'
  BY <1>9
<1>11. /\ IsFiniteSet(WithItem') /\ cp_destroyed' \in Nat
       /\ cp_destroyed' + Cardinality(WithItem' \cap cp_live') = Cardinality(WithItem')
  BY <1>2, <1>3, <1>4, <1>9
<1> QED BY <1>8, <1>9, <1>10, <1>11 DEF ClearInv

LEMMA CopyRecovers == CopyInv /\ copy_error_recovery => ClearInv'
<1> SUFFICES ASSUME CopyInv, copy_error_recovery PROVE ClearInv'
  OBVIOUS
<1>1. /\ cp_pc = "recover" /\ cp_pc' = "clear" /\ cp_x' = Link(Top, 0)
      /\ cp_live' = cp_live /\ cp_data' = cp_data /\ cp_stack' = cp_stack
      /\ cp_destroyed' = cp_destroyed /\ cp_wild' = cp_wild
      /\ cp_strays' = cp_strays
      /\ cp_link' = [n \in DOMAIN cp_link |->
                       IF n \in Waiting THEN <<cp_link[n][1], NoNode>> ELSE cp_link[n]]
  BY DEF copy_error_recovery
<1>2. LinkForm(cp_link) /\ Waiting \subseteq cp_live /\ cp_live \subseteq TreeNodes /\ Top \notin TreeNodes
      /\ cp_x \notin Waiting
  BY WaitingIs, NamesAre DEF CopyInv, CopyForm
<1>3. /\ \A n \in Waiting : cp_link'[n] = <<cp_link[n][1], NoNode>>
      /\ \A n \in TreeNodes \cup {Top} : n \notin Waiting => cp_link'[n] = cp_link[n]
      /\ DOMAIN cp_link' = DOMAIN cp_link
  BY <1>1, <1>2 DEF LinkForm
<1>4. LinkForm(cp_link')
  <2>1. \A a : DOMAIN <<a, NoNode>> = {1, 2}
    OBVIOUS
  <2>2. \A n \in Waiting : DOMAIN cp_link'[n] = {1, 2}
    BY <1>3, <2>1
  <2> QED BY <1>2, <1>3, <2>2 DEF LinkForm
<1>5. ASSUME NEW n \in cp_live, NEW d \in {0, 1}
      PROVE  \/ cp_link'[n][d + 1] = Link(n, d)
                /\ (Linked(n, d) \/ Link(n, d) = NoNode
                      \/ (Link(n, d) = Child(n, d) /\ Child(n, d) \in cp_live))
             \/ cp_link'[n][d + 1] = NoNode /\ Link(n, d) = Unset
  <2>1. CASE n \in Waiting
    <3>1. Halfway(n) /\ cp_link'[n][1] = cp_link[n][1] /\ cp_link'[n][2] = NoNode
      BY <1>2, <1>3, <2>1 DEF CopyInv
    <3> QED BY <3>1 DEF Halfway, Link
  <2>2. CASE n \notin Waiting /\ n # cp_x
    <3>1. Finished(n) /\ cp_link'[n] = cp_link[n]
      BY <1>2, <1>3, <2>2 DEF CopyInv
    <3> QED BY <3>1 DEF Finished, Link
  <2>3. CASE n = cp_x
    <3>1. AtX
      BY <1>2, <2>3, XIs
    <3>2. cp_link'[n] = cp_link[n]
      BY <1>2, <1>3, <2>3
    <3>3. \/ Link(n, 0) = NoNode
          \/ Link(n, 0) = Child(n, 0) /\ Child(n, 0) \in cp_live
      BY <1>1, <2>3, <3>1 DEF AtX, Link, Child
    <3>4. Link(n, 1) = NoNode
      BY <1>1, <2>3, <3>1 DEF AtX, Link
    <3>5. cp_link'[n][d + 1] = Link(n, d)
      BY <3>2 DEF Link
    <3>6. CASE d = 0
      BY <3>3, <3>5, <3>6
    <3>7. CASE d = 1
      BY <3>4, <3>5, <3>7
    <3> QED BY <3>6, <3>7
  <2> QED BY <2>1, <2>2, <2>3
<1>6. Whole(cp_live, cp_link')
  <2>1. PICK link : link = cp_link'
    OBVIOUS
  <2>2. \A n \in cp_live, d \in {0, 1} :
           \/ link[n][d + 1] = Link(n, d) /\ (Linked(n, d) \/ Link(n, d) = NoNode
                                               \/ (Link(n, d) = Child(n, d) /\ Child(n, d) \in cp_live))
           \/ link[n][d + 1] = NoNode /\ Link(n, d) = Unset
    BY <1>5, <2>1
  <2>3. Whole(cp_live, link)
    BY <2>2, WholeOf
  <2> QED BY <2>1, <2>3
<1>7. ASSUME NEW n \in cp_live, cp_data[n] = "unset" PROVE n \in Waiting
  <2>1. CASE n # cp_x
    BY <1>7, <2>1 DEF CopyInv, Finished
  <2>2. CASE n = cp_x
    <3>1. AtX
      BY <1>2, <2>2, XIs
    <3> QED BY <1>1, <1>7, <2>2, <3>1 DEF AtX
  <2> QED BY <2>1, <2>2
<1> QED BY <1>1, <1>4, <1>6, <1>7, ClearBegins

LEMMA CopyIsDestroyed == CopyInv /\ avl_destroy => ClearInv'
<1> SUFFICES ASSUME CopyInv, avl_destroy PROVE ClearInv'
  OBVIOUS
<1>1. /\ cp_pc = "copied" /\ cp_pc' = "clear" /\ cp_x' = Link(Top, 0)
      /\ cp_live' = cp_live /\ cp_data' = cp_data /\ cp_link' = cp_link /\ cp_stack' = cp_stack
      /\ cp_destroyed' = cp_destroyed /\ cp_wild' = cp_wild
      /\ cp_strays' = cp_strays
  BY DEF avl_destroy
<1>2. LinkForm(cp_link')
  BY <1>1 DEF CopyInv, CopyForm
<1>3. PICK link : link = cp_link'
  OBVIOUS
<1>4. \A n \in cp_live, d \in {0, 1} : link[n][d + 1] = Link(n, d) /\ Linked(n, d)
  BY <1>1, <1>3, CopyEnds DEF Finished, Link
<1>5. Whole(cp_live, link)
  BY <1>4, WholeOf
<1>8. \A n \in cp_live : cp_data[n] # "unset"
  BY <1>1, CopyEnds DEF Finished
<1> QED BY <1>1, <1>2, <1>3, <1>5, <1>8, ClearBegins

-----------------------------------------------------------------------------
(* The first node goes: it has nothing to the left.                        *)
LEMMA FirstGoes ==
  ASSUME NEW T, NEW x, NEW live, NEW link, Remains(T, x, live, link), x \in live,
         link[x][1] = NoNode
  PROVE  /\ link[x][2] \in live \cup {NoNode}
         /\ Remains(T, link[x][2], live \ {x}, link)
<1>1. /\ live \subseteq TreeNodes /\ x \in live \cup {NoNode}
      /\ \A n \in live, d \in {1, 2} : link[n][d] \in live \cup {NoNode}
      /\ \A n, m \in live, d, e \in {1, 2} :
           link[n][d] = link[m][e] /\ link[n][d] # NoNode => n = m /\ d = e
      /\ T \in [TreeNodes \cup {NoNode} -> SUBSET TreeNodes]
      /\ T[NoNode] = {} /\ T[x] = live
      /\ \A n \in live : /\ T[n] = {n} \cup T[link[n][1]] \cup T[link[n][2]]
                        /\ n \notin T[link[n][1]] /\ n \notin T[link[n][2]]
                        /\ T[link[n][1]] \cap T[link[n][2]] = {}
  BY DEF Remains
<1>2. link[x][2] \in live \cup {NoNode}
  BY <1>1
<1>3. T[link[x][2]] = live \ {x}
  BY <1>1
<1>4. \A n \in live, d \in {1, 2} : link[n][d] # x
  BY <1>1
<1>5. NoNode \notin live
  BY <1>1, NamesAre
<1>6. link[x][2] # x
  BY <1>4
<1>7. link[x][2] \in (live \ {x}) \cup {NoNode}
  BY <1>2, <1>6
<1>8. \A n \in live \ {x}, d \in {1, 2} : link[n][d] \in (live \ {x}) \cup {NoNode}
  BY <1>1, <1>4
<1> QED BY <1>1, <1>2, <1>3, <1>7, <1>8 DEF Remains

(* The links of a rotation to the right at x, below which q is.            *)
RightTurned(next, link, x, q, live) ==
  /\ next[x][1] = link[q][2] /\ next[x][2] = link[x][2]
  /\ next[q][1] = link[q][1] /\ next[q][2] = x
  /\ \A n \in live \ {x, q} : next[n] = link[n]

LEMMA FirstTurns ==
  ASSUME NEW T, NEW x, NEW live, NEW link, Remains(T, x, live, link), x \in live,
         NEW q, q = link[x][1], q \in live, NEW next, RightTurned(next, link, x, q, live)
  PROVE  \E U : Remains(U, q, live, next)
<1> DEFINE r == link[x][2]
           a == link[q][1]
           b == link[q][2]
           U == [T EXCEPT ![x] = T[x] \ ({q} \cup T[a]), ![q] = T[x]]
<1>1. /\ live \subseteq TreeNodes
      /\ \A n \in live, d \in {1, 2} : link[n][d] \in live \cup {NoNode}
      /\ \A n, m \in live, d, e \in {1, 2} :
           link[n][d] = link[m][e] /\ link[n][d] # NoNode => n = m /\ d = e
      /\ T \in [TreeNodes \cup {NoNode} -> SUBSET TreeNodes]
      /\ T[NoNode] = {} /\ T[x] = live
      /\ \A n \in live : /\ T[n] = {n} \cup T[link[n][1]] \cup T[link[n][2]]
                        /\ n \notin T[link[n][1]] /\ n \notin T[link[n][2]]
                        /\ T[link[n][1]] \cap T[link[n][2]] = {}
  BY DEF Remains
<1>2. NoNode \notin live /\ NoNode \notin TreeNodes
  BY <1>1, NamesAre
<1>3. /\ T[x] = {x} \cup T[q] \cup T[r] /\ x \notin T[q] /\ x \notin T[r] /\ T[q] \cap T[r] = {}
      /\ T[q] = {q} \cup T[a] \cup T[b] /\ q \notin T[a] /\ q \notin T[b] /\ T[a] \cap T[b] = {}
  BY <1>1
<1>4. \A n \in live, d \in {1, 2} : link[n][d] # x
  BY <1>1
<1>5. \A n \in live, d \in {1, 2} : link[n][d] = q => n = x /\ d = 1
  BY <1>1, <1>2
<1>6. r \in live \cup {NoNode} /\ a \in live \cup {NoNode} /\ b \in live \cup {NoNode}
  BY <1>1
<1>7. q # x /\ r # x /\ a # x /\ b # x /\ r # q
  BY <1>3, <1>4, <1>5
<1>8. a # q /\ b # q
  BY <1>3
<1>9. /\ next[x][1] = b /\ next[x][2] = r /\ next[q][1] = a /\ next[q][2] = x
      /\ \A n \in live \ {x, q} : next[n] = link[n]
  BY DEF RightTurned
<1>10. x # NoNode /\ q # NoNode
  BY <1>2
<1> HIDE DEF r, a, b
<1>11. /\ U \in [TreeNodes \cup {NoNode} -> SUBSET TreeNodes]
       /\ U[x] = T[x] \ ({q} \cup T[a]) /\ U[q] = T[x]
       /\ \A n \in TreeNodes \cup {NoNode} : n # x /\ n # q => U[n] = T[n]
  BY <1>1, <1>7
<1> HIDE DEF U
<1>12. U[NoNode] = {} /\ U[q] = live
  BY <1>1, <1>10, <1>11
<1>13. U[r] = T[r] /\ U[a] = T[a] /\ U[b] = T[b]
  BY <1>1, <1>6, <1>7, <1>8, <1>11
<1>14. U[x] = {x} \cup T[b] \cup T[r] /\ x \notin T[b] /\ T[b] \cap T[r] = {}
  BY <1>3, <1>7, <1>11
<1>15. U[q] = {q} \cup T[a] \cup U[x] /\ q \notin U[x] /\ T[a] \cap U[x] = {}
  BY <1>3, <1>11
<1>16. ASSUME NEW n \in live
       PROVE  /\ U[n] = {n} \cup U[next[n][1]] \cup U[next[n][2]]
              /\ n \notin U[next[n][1]] /\ n \notin U[next[n][2]]
              /\ U[next[n][1]] \cap U[next[n][2]] = {}
  <2>1. CASE n = x
    BY <1>3, <1>9, <1>13, <1>14, <2>1
  <2>2. CASE n = q
    BY <1>3, <1>9, <1>13, <1>15, <2>2
  <2>3. CASE n # x /\ n # q
    <3> DEFINE l1 == link[n][1]
               l2 == link[n][2]
    <3>1. next[n][1] = l1 /\ next[n][2] = l2
      BY <1>9, <2>3
    <3>2. l1 \in live \cup {NoNode} /\ l2 \in live \cup {NoNode}
      BY <1>1
    <3>3. l1 # x /\ l2 # x /\ l1 # q /\ l2 # q
      BY <1>4, <1>5, <2>3
    <3>4. T[n] = {n} \cup T[l1] \cup T[l2] /\ n \notin T[l1] /\ n \notin T[l2] /\ T[l1] \cap T[l2] = {}
      BY <1>1
    <3> HIDE DEF l1, l2
    <3>5. U[l1] = T[l1] /\ U[l2] = T[l2] /\ U[n] = T[n]
      BY <1>1, <1>11, <2>3, <3>2, <3>3
    <3> QED BY <3>1, <3>4, <3>5
  <2> QED BY <2>1, <2>2, <2>3
<1>17. ASSUME NEW n \in live, NEW d \in {1, 2} PROVE next[n][d] \in live \cup {NoNode}
  <2>1. CASE n \in {x, q}
    BY <1>6, <1>9, <2>1
  <2>2. CASE n \notin {x, q}
    BY <1>1, <1>9, <2>2
  <2> QED BY <2>1, <2>2
<1>18. ASSUME NEW n \in live, NEW d \in {1, 2}
       PROVE  \/ n = q /\ d = 2 /\ next[n][d] = x
              \/ n = x /\ d = 1 /\ next[n][d] = link[q][2]
              \/ next[n][d] = link[n][d] /\ ~ (n = q /\ d = 2) /\ ~ (n = x /\ d = 1)
  BY <1>7, <1>9 DEF r, a, b
<1>19. ASSUME NEW n \in live, NEW m \in live, NEW d \in {1, 2}, NEW e \in {1, 2},
              next[n][d] = next[m][e], next[n][d] # NoNode
       PROVE  n = m /\ d = e
  <2>1. CASE n = q /\ d = 2 /\ next[n][d] = x
    BY <1>4, <1>18, <1>19, <2>1
  <2>2. CASE n = x /\ d = 1 /\ next[n][d] = link[q][2]
    <3>1. ~ (m = q /\ e = 2 /\ next[m][e] = x)
      BY <1>4, <1>19, <2>2
    <3>2. CASE m = x /\ e = 1
      BY <2>2, <3>2
    <3>3. CASE next[m][e] = link[m][e] /\ ~ (m = q /\ e = 2)
      BY <1>1, <1>19, <2>2, <3>3
    <3> QED BY <1>18, <3>1, <3>2, <3>3
  <2>3. CASE next[n][d] = link[n][d] /\ ~ (n = q /\ d = 2) /\ ~ (n = x /\ d = 1)
    <3>1. ~ (m = q /\ e = 2 /\ next[m][e] = x)
      BY <1>4, <1>19, <2>3
    <3>2. ~ (m = x /\ e = 1 /\ next[m][e] = link[q][2])
      BY <1>1, <1>19, <2>3
    <3>3. next[m][e] = link[m][e]
      BY <1>18, <3>1, <3>2
    <3>4. link[n][d] = link[m][e] /\ link[n][d] # NoNode
      BY <1>19, <2>3, <3>3
    <3>5. \A k, l \in live, f, g \in {1, 2} : link[k][f] = link[l][g] /\ link[k][f] # NoNode => k = l /\ f = g
      BY <1>1
    <3> QED BY <3>4, <3>5
  <2> QED BY <1>18, <2>1, <2>2, <2>3
<1>20. Remains(U, q, live, next)
  BY <1>1, <1>11, <1>12, <1>16, <1>17, <1>19 DEF Remains
<1> QED BY <1>20

LEMMA ClearFreesNode == ClearInv /\ ClearNode => ClearInv'
<1> SUFFICES ASSUME ClearInv, ClearNode PROVE ClearInv'
  OBVIOUS
<1>1. PICK x, live, link : x = cp_x /\ live = cp_live /\ link = cp_link
  OBVIOUS
<1>2. /\ cp_pc = "clear" /\ x \in live /\ link[x][1] = NoNode
      /\ cp_live' = live \ {x} /\ cp_x' = link[x][2]
      /\ cp_destroyed' = cp_destroyed + (IF cp_data[x] = "item" THEN 1 ELSE 0)
      /\ cp_strays' = cp_strays \/ (cp_data[x] = "unset" /\ cp_strays' = cp_strays \cup {x})
      /\ cp_wild' = (cp_wild \/ link[x][2] = Unset)
      /\ cp_link' = link /\ cp_data' = cp_data /\ cp_pc' = cp_pc /\ cp_stack' = cp_stack
  BY <1>1 DEF ClearNode, Link
<1>3. PICK T : Remains(T, x, live, link)
  BY <1>1 DEF ClearInv
<1>4. link[x][2] \in live \cup {NoNode} /\ Remains(T, link[x][2], live \ {x}, link)
  BY <1>2, <1>3, FirstGoes
<1>5. live \subseteq TreeNodes
  BY <1>3 DEF Remains
<1>6. ~ cp_wild'
  BY <1>2, <1>4, <1>5, NamesAre DEF ClearInv
<1> DEFINE W == WithItem
           n == Cardinality(W \cap live)
<1>7. /\ IsFiniteSet(W) /\ W' = W /\ cp_destroyed \in Nat /\ cp_destroyed + n = Cardinality(W)
      /\ (x \in W <=> cp_data[x] = "item")
  BY <1>1, <1>2, <1>5 DEF ClearInv, WithItem
<1>8. IsFiniteSet(W \cap live)
  BY <1>7, FS_Subset
<1>9. W \cap cp_live' = (W \cap live) \ {x}
  BY <1>2
<1>10. Cardinality(W \cap cp_live') = IF x \in W THEN n - 1 ELSE n
  BY <1>2, <1>8, <1>9, FS_RemoveElement
<1>11. n \in Nat /\ Cardinality(W) \in Nat /\ Cardinality(W \cap cp_live') \in Nat
  <2>1. IsFiniteSet((W \cap live) \ {x})
    BY <1>8, FS_RemoveElement
  <2> QED BY <1>7, <1>8, <1>9, <2>1, FS_CardinalityType
<1>12. cp_destroyed' \in Nat /\ cp_destroyed' + Cardinality(W \cap cp_live') = Cardinality(W)
  <2> HIDE DEF n, W
  <2>1. CASE x \in W
    <3>1. cp_destroyed' = cp_destroyed + 1
      BY <1>2, <1>7, <2>1
    <3> QED BY <1>7, <1>10, <1>11, <2>1, <3>1
  <2>2. CASE x \notin W
    <3>1. cp_destroyed' = cp_destroyed
      BY <1>2, <1>7, <2>2
    <3> QED BY <1>7, <1>10, <1>11, <2>2, <3>1
  <2> QED BY <2>1, <2>2
<1>13. \E U : Remains(U, cp_x, cp_live, cp_link)'
  BY <1>2, <1>4 DEF Remains
<1>14. LinkForm(cp_link')
  BY <1>1, <1>2 DEF ClearInv
<1>15. cp_strays' \subseteq Waiting' /\ \A m \in cp_live' : cp_data'[m] = "unset" => m \in Waiting'
  <2>1. Waiting' = Waiting
    BY <1>2 DEF Waiting
  <2> QED BY <1>1, <1>2, <2>1 DEF ClearInv
<1> QED BY <1>2, <1>6, <1>7, <1>12, <1>13, <1>14, <1>15 DEF ClearInv

LEMMA ClearRotates == ClearInv /\ RotateRight => ClearInv'
<1> SUFFICES ASSUME ClearInv, RotateRight PROVE ClearInv'
  OBVIOUS
<1>1. PICK x, live, link, q : x = cp_x /\ live = cp_live /\ link = cp_link /\ q = link[x][1]
  OBVIOUS
<1>2. /\ cp_pc = "clear" /\ x \in live /\ q \in live
      /\ cp_link' = [link EXCEPT ![x][1] = link[q][2], ![q][2] = x]
      /\ cp_wild' = (cp_wild \/ link[q][2] = Unset) /\ cp_x' = q
      /\ cp_data' = cp_data /\ cp_live' = live /\ cp_pc' = cp_pc /\ cp_destroyed' = cp_destroyed
      /\ cp_strays' = cp_strays /\ cp_stack' = cp_stack
  BY <1>1 DEF RotateRight, Link
<1>3. PICK T : Remains(T, x, live, link)
  BY <1>1 DEF ClearInv
<1>4. /\ live \subseteq TreeNodes /\ link[q][2] \in live \cup {NoNode}
      /\ x \notin T[q] /\ q \in T[q]
  BY <1>1, <1>2, <1>3 DEF Remains
<1>5. q # x
  BY <1>4
<1>6. LinkForm(link)
  BY <1>1 DEF ClearInv
<1> DEFINE once == [link EXCEPT ![x][1] = link[q][2]]
           next == [once EXCEPT ![q][2] = x]
<1>7. cp_link' = next
  BY <1>2
<1>8. /\ x \in DOMAIN link /\ q \in DOMAIN link
      /\ DOMAIN link[x] = {1, 2} /\ DOMAIN link[q] = {1, 2}
  BY <1>2, <1>4, <1>6 DEF LinkForm
<1>9. /\ DOMAIN once = DOMAIN link /\ DOMAIN once[x] = {1, 2}
      /\ once[x][1] = link[q][2] /\ once[x][2] = link[x][2]
      /\ \A n \in DOMAIN link : n # x => once[n] = link[n]
  BY <1>8
<1> HIDE DEF once
<1>10. /\ DOMAIN next = DOMAIN once /\ DOMAIN next[q] = DOMAIN once[q]
       /\ next[q][2] = x /\ next[q][1] = once[q][1]
       /\ \A n \in DOMAIN once : n # q => next[n] = once[n]
  BY <1>5, <1>8, <1>9
<1> HIDE DEF next
<1>11. RightTurned(next, link, x, q, live)
  <2>1. live \subseteq DOMAIN link
    BY <1>4, <1>6 DEF LinkForm
  <2> QED BY <1>5, <1>8, <1>9, <1>10, <2>1 DEF RightTurned
<1>12. LinkForm(next)
  <2>1. \A n \in DOMAIN link : DOMAIN next[n] = DOMAIN link[n]
    BY <1>5, <1>8, <1>9, <1>10
  <2> QED BY <1>6, <1>9, <1>10, <2>1 DEF LinkForm
<1>13. \E U : Remains(U, q, live, next)
  BY <1>1, <1>2, <1>3, <1>11, FirstTurns
<1>14. \E U : Remains(U, cp_x, cp_live, cp_link)'
  <2>1. PICK U : Remains(U, q, live, next)
    BY <1>13
  <2>2. cp_x' = q /\ cp_live' = live /\ cp_link' = next
    BY <1>2, <1>7
  <2>3. Remains(U, cp_x, cp_live, cp_link)'
    BY <2>1, <2>2 DEF Remains
  <2> QED BY <2>3
<1>15. ~ cp_wild'
  BY <1>2, <1>4, NamesAre DEF ClearInv
<1>16. WithItem' = WithItem /\ Waiting' = Waiting
  BY <1>2 DEF WithItem, Waiting
<1> QED BY <1>1, <1>2, <1>7, <1>12, <1>14, <1>15, <1>16 DEF ClearInv

LEMMA ClearIsDone == ClearInv /\ ClearEnds => ClearInv'
<1> SUFFICES ASSUME ClearInv, ClearEnds PROVE ClearInv'
  OBVIOUS
<1>1. /\ cp_pc = "clear" /\ cp_x = NoNode /\ cp_pc' = "gone"
      /\ UNCHANGED <<cp_link, cp_data, cp_live, cp_x, cp_stack, cp_destroyed, cp_strays, cp_wild>>
  BY DEF ClearEnds
<1>2. \E T : Remains(T, cp_x, cp_live, cp_link)'
  BY <1>1 DEF ClearInv, Remains
<1>3. WithItem' = WithItem /\ Waiting' = Waiting
  BY <1>1 DEF WithItem, Waiting
<1> QED BY <1>1, <1>2, <1>3 DEF ClearInv

(* A copy is whole, or one of its failures is taken back, until all of the *)
(* new tree is given back.                                                 *)
CopySafe == CopyInv \/ ClearInv

LEMMA CopyStutters == CopySafe /\ UNCHANGED copyVars => CopySafe'
<1> SUFFICES ASSUME CopySafe, UNCHANGED copyVars PROVE CopySafe'
  OBVIOUS
<1> USE DEF copyVars
<1>1. \A n, d : (Link(n, d)' = Link(n, d)) /\ (HasChild(n, d)' <=> HasChild(n, d)) /\ (Child(n, d)' = Child(n, d))
  BY DEF Link, HasChild, Child
<1>2. Waiting' = Waiting
  BY DEF Waiting
<1>3. CASE ClearInv
  <2>1. \E T : Remains(T, cp_x, cp_live, cp_link)'
    BY <1>3 DEF ClearInv, Remains
  <2>2. WithItem' = WithItem
    BY DEF WithItem
  <2>3. ClearInv'
    BY <1>2, <1>3, <2>1, <2>2 DEF ClearInv
  <2> QED BY <2>3 DEF CopySafe
<1>4. CASE CopyInv
  <2>1. \A n, d : Linked(n, d)' <=> Linked(n, d)
    BY <1>1 DEF Linked
  <2>2. \A n : (Finished(n)' <=> Finished(n)) /\ (Halfway(n)' <=> Halfway(n)) /\ (Untouched(n)' <=> Untouched(n))
    BY <1>1, <2>1 DEF Finished, Halfway, Untouched
  <2>3. CopyForm'
    BY <1>4, <2>2 DEF CopyInv, CopyForm
  <2>4. StackForm'
    BY <1>4 DEF CopyInv, StackForm
  <2>5. \A n \in cp_live' : Hangs(n)'
    BY <1>1, <1>4 DEF CopyInv, Hangs
  <2>6. \A n \in cp_live' \ {cp_x'} : IF n \in Waiting' THEN Halfway(n)' ELSE Finished(n)'
    BY <1>2, <1>4, <2>2 DEF CopyInv
  <2>7. AtTop' \/ AtX'
    <3>1. CASE AtTop
      BY <1>1, <3>1 DEF AtTop
    <3>2. CASE AtX
      BY <1>1, <1>2, <2>1, <2>2, <3>2 DEF AtX
    <3> QED BY <1>4, <3>1, <3>2 DEF CopyInv
  <2>8. CopyInv'
    BY <1>4, <2>3, <2>4, <2>5, <2>6, <2>7 DEF CopyInv
  <2> QED BY <2>8 DEF CopySafe
<1> QED BY <1>3, <1>4 DEF CopySafe

LEMMA CopyStep == CopySafe /\ [CopyNext]_copyVars => CopySafe'
<1> SUFFICES ASSUME CopySafe, [CopyNext]_copyVars PROVE CopySafe'
  OBVIOUS
<1>1. CASE UNCHANGED copyVars
  BY <1>1, CopyStutters
<1>2. CASE CopyNext /\ CopyInv
  <2>1. ~ ClearNode /\ ~ RotateRight /\ ~ ClearEnds
    BY <1>2 DEF CopyInv, ClearNode, RotateRight, ClearEnds
  <2>2. CopyInv' \/ ClearInv'
    BY <1>2, <2>1, CopyNewLeft, CopyNoMemoryLeft, CopyLeftEnds, CopyCopyItem, CopyItemRefused,
       CopyNewRight, CopyNoMemoryRight, CopyPop, CopyRecovers, CopyIsDestroyed DEF CopyNext
  <2> QED BY <2>2 DEF CopySafe
<1>3. CASE CopyNext /\ ClearInv
  <2>1. ClearNode \/ RotateRight \/ ClearEnds
    BY <1>3 DEF ClearInv, CopyNext, NewLeft, NoMemoryLeft, LeftEnds, CopyItem, ItemRefused,
                NewRight, NoMemoryRight, Pop, copy_error_recovery, avl_destroy
  <2>2. ClearInv'
    BY <1>3, <2>1, ClearFreesNode, ClearRotates, ClearIsDone
  <2> QED BY <2>2 DEF CopySafe
<1> QED BY <1>1, <1>2, <1>3 DEF CopySafe

LEMMA ClearInvFinds == ClearInv => DestroyFindsAll
<1> SUFFICES ASSUME ClearInv PROVE DestroyFindsAll
  OBVIOUS
<1>1. PICK T : Remains(T, cp_x, cp_live, cp_link)
  BY DEF ClearInv
<1>2. cp_x \in cp_live \cup {NoNode} /\ NoNode \notin cp_live
  BY <1>1, NamesAre DEF Remains
<1>3. ASSUME cp_x # NoNode PROVE cp_x \in cp_live /\ Link(cp_x, 0) \in cp_live \cup {NoNode}
  BY <1>1, <1>2, <1>3 DEF Remains, Link
<1>4. ASSUME cp_pc = "gone"
      PROVE  cp_live = {} /\ cp_destroyed = Cardinality({n \in TreeNodes : cp_data[n] = "item"})
  <2>1. cp_live = {}
    BY <1>1, <1>4 DEF ClearInv, Remains
  <2>2. WithItem \cap cp_live = {}
    BY <2>1
  <2>3. Cardinality(WithItem \cap cp_live) = 0
    BY <2>2, FS_EmptySet
  <2>4. cp_destroyed \in Nat /\ cp_destroyed + 0 = Cardinality(WithItem)
    BY <2>3 DEF ClearInv
  <2> QED BY <2>1, <2>4 DEF WithItem
<1> QED BY <1>3, <1>4 DEF ClearInv, DestroyFindsAll

(* avl_copy makes the same tree, and wherever it stops, avl_destroy finds  *)
(* all of what there is, once, and an item to each copied one.             *)
THEOREM CopiesAreWhole == CopySpec => [](CopyIsWhole /\ DestroyFindsAll)
<1>1. CopyInit => CopySafe
  BY CopyStart DEF CopySafe
<1>2. CopySafe => CopyIsWhole /\ DestroyFindsAll
  <2>1. CopyInv => CopyIsWhole /\ DestroyFindsAll
    BY CopyInvWhole, NothingWaits DEF CopyInv, DestroyFindsAll
  <2>2. ClearInv => CopyIsWhole /\ DestroyFindsAll
    BY ClearInvFinds DEF ClearInv, CopyIsWhole
  <2> QED BY <2>1, <2>2 DEF CopySafe
<1> QED BY <1>1, <1>2, CopyStep, PTL DEF CopySpec

(* Both at once.                                                           *)
THEOREM TreesAlwaysWhole == AvlSpec /\ CopySpec => []TreesAreWhole
<1>1. TreeIsBalanced /\ (CopyIsWhole /\ DestroyFindsAll) => TreesAreWhole
  BY DEF TreesAreWhole
<1> QED BY <1>1, TheTreeIsBalanced, CopiesAreWhole, PTL
=============================================================================

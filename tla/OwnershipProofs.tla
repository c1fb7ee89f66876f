---------------------------- MODULE OwnershipProofs ----------------------------
(***************************************************************************)
(* Theorems about Ownership: for any number of threads, nodes and objects, *)
(* and a failure at any statement, every live object has one owner who is  *)
(* going to free it, no call is passed a freed object but for the two      *)
(* cases that LifetimesRespected names, and the allocator's byte count is  *)
(* what is in use less what was at its last reset.                         *)
(***************************************************************************)
EXTENDS Ownership, SumProofs

-----------------------------------------------------------------------------
(***************************************************************************)
(* Types, and what a thread holds at each position.                        *)
(***************************************************************************)

Makers == {"scores", "gradient", "forward"}
Position == {"idle", "create", "decode", "decoded", "backward", "derived",
             "read", "keep", "release", "view", "catch"}
Node == [h : Nat \ {0}, r : Nat \ {0}, open : BOOLEAN, reachable : BOOLEAN]

TypeInv ==
  /\ made \in Nat /\ live \subseteq 1 .. made
  /\ kind \in [Thread -> Makers \cup {"none", "backward"}]
  /\ pc \in [Thread -> Position] /\ raised \in [Thread -> Position \cup {""}]
  /\ h \in [Thread -> Nat] /\ r \in [Thread -> Nat] /\ b \in [Thread -> Nat]
  /\ at \in [Thread -> Nat]
  /\ node \in Seq(Node)

\* No number is given to an object twice.
NumberInv ==
  /\ \A p \in Thread : h[p] <= made /\ r[p] <= made /\ b[p] <= made
  /\ \A n \in DOMAIN node : node[n].h <= made /\ node[n].r <= made

Shape(p) ==
  /\ pc[p] \in {"idle", "create"} => h[p] = 0 /\ r[p] = 0 /\ b[p] = 0
  /\ pc[p] \in {"create", "decode", "decoded"} => kind[p] \in Makers
  /\ pc[p] \in {"decode", "decoded"} => h[p] # 0 /\ r[p] = 0 /\ b[p] = 0
  /\ pc[p] \in {"backward", "derived"} =>
       kind[p] \in {"gradient", "backward"} /\ h[p] # 0 /\ r[p] # 0 /\ b[p] = 0
  /\ pc[p] \in {"read", "release"} =>
       h[p] # 0 /\ r[p] # 0 /\ (b[p] = 0 <=> kind[p] \in {"scores", "forward"})
  /\ pc[p] = "keep" => kind[p] = "forward" /\ h[p] # 0 /\ r[p] # 0 /\ b[p] = 0
  /\ pc[p] = "view" => kind[p] = "gradient"
  /\ kind[p] = "backward" =>
       at[p] \in DOMAIN node /\ h[p] = node[at[p]].h /\ r[p] = node[at[p]].r

\* The function has freed everything, and only builds its return value.
Gone(p) == pc[p] = "view" \/ (pc[p] = "catch" /\ raised[p] = "view")

ShapeInv ==
  \A p \in Thread :
    /\ Shape(p)
    /\ Gone(p) => kind[p] = "gradient" /\ Owned(p) \cap live = {}

-----------------------------------------------------------------------------
(***************************************************************************)
(* Who owns what.                                                          *)
(***************************************************************************)

\* The objects a thread, or a node, is going to free.
Owns(p) ==
  IF kind[p] = "backward" THEN {b[p]} \ {0}
  ELSE IF Gone(p) THEN {} ELSE Owned(p)

OwnInv ==
  /\ \A p \in Thread : Owns(p) \subseteq live
  /\ \A n \in DOMAIN node : Finalized(n) \subseteq live
  /\ \A o \in live : \/ \E p \in Thread : o \in Owns(p)
                     \/ \E n \in DOMAIN node : o \in Finalized(n)
  /\ \A p, q \in Thread : \A o \in Owns(p) \cap Owns(q) : p = q
  /\ \A n, m \in DOMAIN node : \A o \in Finalized(n) \cap Finalized(m) : n = m
  /\ \A p \in Thread, n \in DOMAIN node : Owns(p) \cap Finalized(n) = {}

IInv == TypeInv /\ NumberInv /\ ShapeInv /\ OwnInv /\ LifetimesRespected

\* A thread makes an object of its own.
LEMMA OwnMade ==
  ASSUME OwnInv, live \subseteq 1 .. made, made \in Nat,
         NEW p \in Thread, live' = live \cup {made + 1},
         Owns(p)' = Owns(p) \cup {made + 1},
         \A q \in Thread \ {p} : Owns(q)' = Owns(q),
         DOMAIN node' = DOMAIN node, \A n \in DOMAIN node : Finalized(n)' = Finalized(n)
  PROVE  OwnInv'
<1>1. made + 1 \notin live
  OBVIOUS
<1> QED  BY <1>1 DEF OwnInv

\* Nobody makes or frees anything.
LEMMA OwnKept ==
  ASSUME OwnInv, live' = live, \A q \in Thread : Owns(q)' = Owns(q),
         DOMAIN node' = DOMAIN node, \A n \in DOMAIN node : Finalized(n)' = Finalized(n)
  PROVE  OwnInv'
BY DEF OwnInv

\* A thread frees what it owns.
LEMMA OwnFreed ==
  ASSUME OwnInv, NEW p \in Thread, live' = live \ Owns(p), Owns(p)' = {},
         \A q \in Thread \ {p} : Owns(q)' = Owns(q),
         DOMAIN node' = DOMAIN node, \A n \in DOMAIN node : Finalized(n)' = Finalized(n)
  PROVE  OwnInv'
BY DEF OwnInv

\* A node's state is closed, by a thread that also frees what it owns.
LEMMA OwnClosed ==
  ASSUME OwnInv, NEW p \in Thread, NEW m \in DOMAIN node,
         live' = live \ (Owns(p) \cup Finalized(m)), Owns(p)' = {}, Finalized(m)' = {},
         \A q \in Thread \ {p} : Owns(q)' = Owns(q),
         DOMAIN node' = DOMAIN node,
         \A n \in DOMAIN node \ {m} : Finalized(n)' = Finalized(n)
  PROVE  OwnInv'
BY DEF OwnInv

\* ... or by the collector.
LEMMA OwnCollected ==
  ASSUME OwnInv, NEW m \in DOMAIN node,
         live' = live \ Finalized(m), Finalized(m)' = {},
         \A q \in Thread : Owns(q)' = Owns(q),
         DOMAIN node' = DOMAIN node,
         \A n \in DOMAIN node \ {m} : Finalized(n)' = Finalized(n)
  PROVE  OwnInv'
BY DEF OwnInv

\* A new node takes over what a thread owns.
LEMMA OwnTaken ==
  ASSUME OwnInv, NEW p \in Thread, NEW m, m \notin DOMAIN node,
         live' = live, Owns(p)' = {}, Finalized(m)' = Owns(p),
         \A q \in Thread \ {p} : Owns(q)' = Owns(q),
         DOMAIN node' = DOMAIN node \cup {m},
         \A n \in DOMAIN node : Finalized(n)' = Finalized(n)
  PROVE  OwnInv'
BY DEF OwnInv

-----------------------------------------------------------------------------
(***************************************************************************)
(* What a step leaves alone.                                               *)
(***************************************************************************)

\* Nothing happens to the local variables of these threads.
Idle(threads) ==
  \A q \in threads :
    /\ kind'[q] = kind[q] /\ pc'[q] = pc[q] /\ raised'[q] = raised[q] /\ at'[q] = at[q]
    /\ h'[q] = h[q] /\ r'[q] = r[q] /\ b'[q] = b[q]

\* Nodes are added and closed, but keep their handle and result.
NodesStay ==
  /\ DOMAIN node \subseteq DOMAIN node'
  /\ \A n \in DOMAIN node : node'[n].h = node[n].h /\ node'[n].r = node[n].r

LEMMA OthersKept ==
  ASSUME TypeInv, NumberInv, ShapeInv, NEW threads \in SUBSET Thread, Idle(threads),
         NodesStay, live' \subseteq live \cup {made + 1}
  PROVE  \A q \in threads : /\ Shape(q)'
                            /\ Gone(q)' => kind'[q] = "gradient" /\ Owned(q)' \cap live' = {}
                            /\ Owns(q)' = Owns(q)
<1> SUFFICES ASSUME NEW q \in threads
             PROVE  /\ Shape(q)'
                    /\ Gone(q)' => kind'[q] = "gradient" /\ Owned(q)' \cap live' = {}
                    /\ Owns(q)' = Owns(q)
  OBVIOUS
<1>1. Shape(q)'
  BY DEF ShapeInv, Shape, Idle, NodesStay
<1>2. Gone(q)' = Gone(q) /\ Owned(q)' = Owned(q) /\ Owns(q)' = Owns(q)
  BY DEF Gone, Owned, Owns, Idle
<1>3. made + 1 \notin Owned(q)
  <2>1. made \in Nat /\ h[q] \in Nat /\ r[q] \in Nat /\ b[q] \in Nat
    BY DEF TypeInv
  <2>2. h[q] <= made /\ r[q] <= made /\ b[q] <= made
    BY DEF NumberInv
  <2> QED  BY <2>1, <2>2 DEF Owned
<1> QED  BY <1>1, <1>2, <1>3 DEF ShapeInv, Idle

\* A call that is passed live objects only is no misuse.
LEMMA UsesSafe ==
  ASSUME LifetimesRespected, NEW who, NEW objects, Uses(who, objects),
         \/ objects \ {0} \subseteq live
         \/ who.kind = "backward" /\ who.at = "backward" /\ who.closed
         \/ who.kind = "gradient" /\ who.at = "catch" /\ who.raised = "view"
  PROVE  LifetimesRespected'
BY DEF LifetimesRespected, Uses

LEMMA PassesSafe ==
  ASSUME LifetimesRespected, NEW p \in Thread, NEW objects, Passes(p, objects),
         \/ objects \ {0} \subseteq live
         \/ kind[p] = "backward" /\ pc[p] = "backward" /\ at[p] # 0 /\ ~node[at[p]].open
         \/ kind[p] = "gradient" /\ pc[p] = "catch" /\ raised[p] = "view"
  PROVE  LifetimesRespected'
BY UsesSafe DEF Passes

\* A thread that leaves holds nothing.
LEMMA LeaveEffect ==
  ASSUME TypeInv, NEW p \in Thread, Leave(p)
  PROVE  /\ Idle(Thread \ {p}) /\ Shape(p)' /\ ~Gone(p)' /\ Owns(p)' = {}
         /\ kind' \in [Thread -> Makers \cup {"none", "backward"}]
         /\ pc' \in [Thread -> Position] /\ raised' \in [Thread -> Position \cup {""}]
         /\ h' \in [Thread -> Nat] /\ r' \in [Thread -> Nat] /\ b' \in [Thread -> Nat]
         /\ at' \in [Thread -> Nat]
         /\ h'[p] = 0 /\ r'[p] = 0 /\ b'[p] = 0
<1>1. kind'[p] = "none" /\ pc'[p] = "idle" /\ h'[p] = 0 /\ r'[p] = 0 /\ b'[p] = 0
  BY DEF TypeInv, Leave, Go
<1>2. Shape(p)' /\ ~Gone(p)' /\ Owns(p)' = {}
  BY <1>1 DEF Shape, Gone, Owns, Owned, Makers
<1>3. Idle(Thread \ {p})
  BY DEF TypeInv, Leave, Go, Idle
<1>4. /\ kind' \in [Thread -> Makers \cup {"none", "backward"}]
      /\ pc' \in [Thread -> Position] /\ raised' \in [Thread -> Position \cup {""}]
      /\ h' \in [Thread -> Nat] /\ r' \in [Thread -> Nat] /\ b' \in [Thread -> Nat]
      /\ at' \in [Thread -> Nat]
  BY DEF TypeInv, Leave, Go, Position
<1> QED  BY <1>1, <1>2, <1>3, <1>4

\* Without a change of the nodes, their finalizers stay what they are.
LEMMA NodesUnchanged ==
  ASSUME node' = node
  PROVE  NodesStay /\ DOMAIN node' = DOMAIN node
         /\ \A n \in DOMAIN node : Finalized(n)' = Finalized(n)
BY DEF NodesStay, Finalized

LEMMA MakeEffect ==
  ASSUME TypeInv, NEW n, Make(n)
  PROVE  /\ made' = made + 1 /\ made' \in Nat
         /\ live' = live \cup {made + 1} /\ live' \subseteq 1 .. made'
<1>1. made \in Nat /\ live \subseteq 1 .. made /\ made' = made + 1
  BY DEF TypeInv, Make
<1>2. live' = live \cup {made + 1}
  BY DEF Make, live
<1> QED  BY <1>1, <1>2

LEMMA DeleteEffect ==
  ASSUME TypeInv, NEW objects, Delete(objects)
  PROVE  live' = live \ objects /\ live' \subseteq 1 .. made
<1>1. live \subseteq 1 .. made
  BY DEF TypeInv
<1>2. live' = live \ objects
  BY DEF Delete, live
<1> QED  BY <1>1, <1>2

-----------------------------------------------------------------------------
(***************************************************************************)
(* The invariant, one lemma per action.                                    *)
(***************************************************************************)

\* The types that arithmetic needs.
LEMMA Numbers ==
  ASSUME TypeInv
  PROVE  /\ made \in Nat /\ 0 <= made
         /\ \A q \in Thread : h[q] \in Nat /\ r[q] \in Nat /\ b[q] \in Nat
         /\ \A n \in DOMAIN node : /\ n \in Nat \ {0} /\ node[n] \in Node
                                  /\ node[n].h \in Nat \ {0} /\ node[n].r \in Nat \ {0}
<1>1. made \in Nat
  BY DEF TypeInv
<1>2. \A q \in Thread : h[q] \in Nat /\ r[q] \in Nat /\ b[q] \in Nat
  BY DEF TypeInv
<1>3. node \in Seq(Node)
  BY DEF TypeInv
<1>4. \A n \in DOMAIN node : n \in Nat \ {0} /\ node[n] \in Node
  BY <1>3
<1>5. \A n \in DOMAIN node : node[n].h \in Nat \ {0} /\ node[n].r \in Nat \ {0}
  BY <1>4 DEF Node
<1>6. 0 <= made
  BY <1>1
<1> QED  BY <1>1, <1>2, <1>4, <1>5, <1>6

LEMMA InitInv == Init => IInv
<1> SUFFICES ASSUME Init PROVE IInv
  OBVIOUS
<1>1. live = {} /\ DOMAIN node = {}
  <2>1. size = <<>> /\ node = <<>>
    BY DEF Init
  <2>2. <<>> \in Seq(Nat) /\ Len(<<>>) = 0 /\ 1 .. 0 = {}
    OBVIOUS
  <2>3. DOMAIN <<>> = {}
    BY <2>2
  <2> QED  BY <2>1, <2>3 DEF live
<1>2. TypeInv
  <2>1. node \in Seq(Node)
    <3>1. node = <<>>
      BY DEF Init
    <3>2. <<>> \in Seq(Node)
      OBVIOUS
    <3> QED  BY <3>1, <3>2
  <2>2. made \in Nat /\ live \subseteq 1 .. made
    BY <1>1 DEF Init
  <2>3. /\ kind \in [Thread -> Makers \cup {"none", "backward"}]
        /\ pc \in [Thread -> Position] /\ raised \in [Thread -> Position \cup {""}]
    BY DEF Init, Position
  <2>4. /\ h \in [Thread -> Nat] /\ r \in [Thread -> Nat] /\ b \in [Thread -> Nat]
        /\ at \in [Thread -> Nat]
    BY DEF Init
  <2> QED  BY <2>1, <2>2, <2>3, <2>4 DEF TypeInv
<1>3. \A p \in Thread : /\ kind[p] = "none" /\ pc[p] = "idle" /\ raised[p] = ""
                        /\ h[p] = 0 /\ r[p] = 0 /\ b[p] = 0 /\ made = 0
  BY DEF Init
<1>4. NumberInv
  <2>1. made = 0
    BY DEF Init
  <2>2. \A p \in Thread : h[p] <= made /\ r[p] <= made /\ b[p] <= made
    <3>1. 0 <= 0
      OBVIOUS
    <3> QED  BY <1>3, <2>1, <3>1
  <2> QED  BY <1>1, <2>2 DEF NumberInv
<1>5. ShapeInv
  BY <1>3 DEF ShapeInv, Shape, Gone, Makers
<1>6. \A p \in Thread : Owns(p) = {}
  BY <1>3 DEF Owns, Owned
<1>7. OwnInv
  BY <1>1, <1>6 DEF OwnInv
<1>8. LifetimesRespected
  BY DEF Init, LifetimesRespected
<1> QED  BY <1>2, <1>4, <1>5, <1>7, <1>8 DEF IInv

\* The shapes after a step of one thread.
LEMMA ShapeStep ==
  ASSUME IInv, NEW p \in Thread, Idle(Thread \ {p}), NodesStay,
         live' \subseteq live \cup {made + 1}, Shape(p)',
         Gone(p)' => kind'[p] = "gradient" /\ Owned(p)' \cap live' = {}
  PROVE  ShapeInv' /\ \A q \in Thread \ {p} : Owns(q)' = Owns(q)
<1>1. \A q \in Thread \ {p} : /\ Shape(q)'
                              /\ Gone(q)' => kind'[q] = "gradient" /\ Owned(q)' \cap live' = {}
                              /\ Owns(q)' = Owns(q)
  BY OthersKept DEF IInv
<1>2. \A q \in Thread : /\ Shape(q)'
                        /\ Gone(q)' => kind'[q] = "gradient" /\ Owned(q)' \cap live' = {}
  BY <1>1
<1> QED  BY <1>1, <1>2 DEF ShapeInv

\* Numbers after a step that gives a thread at most the number just used.
LEMMA NumberStep ==
  ASSUME IInv, NEW p \in Thread, Idle(Thread \ {p}), node' = node,
         made' \in Nat, made <= made',
         h'[p] <= made', r'[p] <= made', b'[p] <= made'
  PROVE  NumberInv'
<1>1. made \in Nat /\ \A q \in Thread : h[q] \in Nat /\ r[q] \in Nat /\ b[q] \in Nat
  BY DEF IInv, TypeInv
<1>2. \A q \in Thread : h'[q] <= made' /\ r'[q] <= made' /\ b'[q] <= made'
  BY <1>1 DEF IInv, NumberInv, Idle
<1>3. \A n \in DOMAIN node : node[n].h \in Nat /\ node[n].r \in Nat
  BY Numbers DEF IInv
<1>4. \A n \in DOMAIN node : node[n].h <= made' /\ node[n].r <= made'
  BY <1>1, <1>3 DEF IInv, NumberInv
<1> QED  BY <1>2, <1>4 DEF NumberInv

\* A step that makes and frees nothing and leaves the nodes alone.
LEMMA QuietStep ==
  ASSUME IInv, NEW p \in Thread, Idle(Thread \ {p}), node' = node,
         made' = made, size' = size, TypeInv', LifetimesRespected',
         h'[p] <= made, r'[p] <= made, b'[p] <= made,
         Shape(p)', Owns(p)' = Owns(p),
         Gone(p)' => kind'[p] = "gradient" /\ Owned(p)' \cap live = {}
  PROVE  IInv'
<1>1. live' = live
  BY DEF live
<1>2. /\ NodesStay /\ DOMAIN node' = DOMAIN node
      /\ \A n \in DOMAIN node : Finalized(n)' = Finalized(n)
  BY NodesUnchanged
<1>3. ShapeInv' /\ \A q \in Thread \ {p} : Owns(q)' = Owns(q)
  BY <1>1, <1>2, ShapeStep
<1>4. OwnInv'
  BY <1>1, <1>2, <1>3, OwnKept DEF IInv
<1>5. NumberInv'
  <2>1. made \in Nat
    BY DEF IInv, TypeInv
  <2> QED  BY <2>1, NumberStep
<1> QED  BY <1>3, <1>4, <1>5 DEF IInv

LEMMA EnterInv ==
  ASSUME IInv, NEW p \in Thread, NEW k \in Makers, Enter(p, k)
  PROVE  IInv'
<1>1. /\ kind'[p] = k /\ pc'[p] = "create" /\ raised'[p] = raised[p]
      /\ h'[p] = h[p] /\ r'[p] = r[p] /\ b'[p] = b[p] /\ pc[p] = "idle"
  BY DEF Enter, Go, IInv, TypeInv
<1>2. Idle(Thread \ {p})
  BY DEF Enter, Go, IInv, TypeInv, Idle
<1>3. /\ node' = node /\ made' = made /\ size' = size /\ misuse' = misuse
  BY DEF Enter, heap
<1>4. TypeInv'
  BY DEF Enter, Go, heap, IInv, TypeInv, Position, live
<1>5. h[p] = 0 /\ r[p] = 0 /\ b[p] = 0
  BY <1>1 DEF IInv, ShapeInv, Shape
<1>6. Shape(p)' /\ ~Gone(p)' /\ Owns(p)' = {} /\ Owns(p) = {}
  BY <1>1, <1>5 DEF Shape, Gone, Owns, Owned, Makers
<1>7. LifetimesRespected'
  BY <1>3 DEF IInv, LifetimesRespected
<1>8. 0 <= made
  BY Numbers DEF IInv
<1> QED  BY <1>1, <1>2, <1>3, <1>4, <1>5, <1>6, <1>7, <1>8, QuietStep

LEMMA EnterBackwardInv ==
  ASSUME IInv, NEW p \in Thread, NEW n \in DOMAIN node, EnterBackward(p, n)
  PROVE  IInv'
<1> DEFINE N == node[n]
<1>0. N \in Node /\ n \in Nat /\ N.h \in Nat \ {0} /\ N.r \in Nat \ {0}
  <2>1. node \in Seq(Node)
    BY DEF IInv, TypeInv
  <2>2. N \in Node /\ n \in Nat
    BY <2>1
  <2> QED  BY <2>2 DEF Node
<1>1. /\ kind'[p] = "backward" /\ pc'[p] = "backward" /\ at'[p] = n /\ raised'[p] = raised[p]
      /\ h'[p] = N.h /\ r'[p] = N.r /\ b'[p] = b[p] /\ pc[p] = "idle"
  BY DEF EnterBackward, Go, IInv, TypeInv
<1>2. Idle(Thread \ {p})
  BY DEF EnterBackward, Go, IInv, TypeInv, Idle
<1>3. /\ node' = node /\ made' = made /\ size' = size /\ misuse' = misuse
  BY DEF EnterBackward, heap
<1>4. TypeInv'
  BY <1>0 DEF EnterBackward, Go, heap, IInv, TypeInv, Position, live
<1>5. h[p] = 0 /\ r[p] = 0 /\ b[p] = 0
  BY <1>1 DEF IInv, ShapeInv, Shape
<1>6. Shape(p)' /\ ~Gone(p)' /\ Owns(p)' = {} /\ Owns(p) = {}
  <2>1. Shape(p)'
    BY <1>0, <1>1, <1>3, <1>5 DEF Shape, Makers
  <2> QED  BY <2>1, <1>1, <1>5 DEF Gone, Owns, Owned
<1>7. LifetimesRespected'
  BY <1>3 DEF IInv, LifetimesRespected
<1>8. 0 <= made /\ N.h <= made /\ N.r <= made
  BY Numbers DEF IInv, NumberInv
<1> QED  BY <1>1, <1>2, <1>3, <1>4, <1>5, <1>6, <1>7, <1>8, QuietStep

\* A thread that leaves without anything to free.
LEMMA LeaveInv ==
  ASSUME IInv, NEW p \in Thread, Leave(p), Owns(p) = {},
         node' = node, made' = made, size' = size, misuse' = misuse
  PROVE  IInv'
<1>1. /\ Idle(Thread \ {p}) /\ Shape(p)' /\ ~Gone(p)' /\ Owns(p)' = {}
      /\ h'[p] = 0 /\ r'[p] = 0 /\ b'[p] = 0
  BY LeaveEffect DEF IInv
<1>2. TypeInv'
  BY LeaveEffect DEF IInv, TypeInv, live
<1>3. LifetimesRespected'
  BY DEF IInv, LifetimesRespected
<1>4. 0 <= made
  BY Numbers DEF IInv
<1> QED  BY <1>1, <1>2, <1>3, <1>4, QuietStep

\* A statement other than the last one of final_scores_backward throws.
LEMMA ThrowInv ==
  ASSUME IInv, NEW p \in Thread, Throw(p), pc[p] \in {"decode", "backward", "read"},
         UNCHANGED <<kind, h, r, b, at>>,
         node' = node, made' = made, size' = size, LifetimesRespected'
  PROVE  IInv'
<1>1. /\ kind'[p] = kind[p] /\ pc'[p] = "catch" /\ raised'[p] = pc[p] /\ at'[p] = at[p]
      /\ h'[p] = h[p] /\ r'[p] = r[p] /\ b'[p] = b[p]
  BY DEF Throw, Go, IInv, TypeInv
<1>2. Idle(Thread \ {p})
  BY DEF Throw, Go, IInv, TypeInv, Idle
<1>3. TypeInv'
  BY DEF Throw, Go, IInv, TypeInv, Position, live
<1>4. Shape(p)'
  BY <1>1 DEF IInv, ShapeInv, Shape
<1>5. ~Gone(p)' /\ ~Gone(p) /\ Owns(p)' = Owns(p)
  BY <1>1 DEF Gone, Owns, Owned
<1>6. h[p] <= made /\ r[p] <= made /\ b[p] <= made
  BY DEF IInv, NumberInv
<1> QED  BY <1>1, <1>2, <1>3, <1>4, <1>5, <1>6, QuietStep

LEMMA CreateInv ==
  ASSUME IInv, NEW p \in Thread, Create(p)
  PROVE  IInv'
<1>0. pc[p] = "create" /\ node' = node /\ misuse' = misuse
  BY DEF Create
<1>1. /\ h[p] = 0 /\ r[p] = 0 /\ b[p] = 0 /\ kind[p] \in Makers
      /\ Owns(p) = {} /\ ~Gone(p)
  BY <1>0 DEF IInv, ShapeInv, Shape, Owns, Owned, Gone
<1>2. CASE Leave(p) /\ UNCHANGED heap
  BY <1>0, <1>1, <1>2, LeaveInv DEF heap
<1>3. CASE /\ Make(0) /\ h' = [h EXCEPT ![p] = made + 1] /\ Go(p, "decode")
           /\ UNCHANGED <<kind, r, b, raised, at, bytes, scratch>>
  <2>1. /\ made' = made + 1 /\ made' \in Nat
        /\ live' = live \cup {made + 1} /\ live' \subseteq 1 .. made'
    BY <1>3, MakeEffect DEF IInv
  <2>2. /\ kind'[p] = kind[p] /\ pc'[p] = "decode" /\ raised'[p] = raised[p]
        /\ h'[p] = made + 1 /\ r'[p] = r[p] /\ b'[p] = b[p] /\ made \in Nat
    BY <1>3 DEF Go, IInv, TypeInv
  <2>3. Idle(Thread \ {p})
    BY <1>3 DEF Go, IInv, TypeInv, Idle
  <2>4. TypeInv'
    BY <1>0, <1>3, <2>1 DEF Go, IInv, TypeInv, Position
  <2>5. /\ NodesStay /\ DOMAIN node' = DOMAIN node
        /\ \A n \in DOMAIN node : Finalized(n)' = Finalized(n)
    BY <1>0, NodesUnchanged
  <2>6. Shape(p)' /\ ~Gone(p)' /\ Owns(p)' = Owns(p) \cup {made + 1}
    BY <1>1, <2>2 DEF Shape, Gone, Owns, Owned, Makers
  <2>7. ShapeInv' /\ \A q \in Thread \ {p} : Owns(q)' = Owns(q)
    BY <2>1, <2>3, <2>5, <2>6, ShapeStep
  <2>8. OwnInv'
    BY <2>1, <2>2, <2>5, <2>6, <2>7, OwnMade DEF IInv, TypeInv
  <2>9. NumberInv'
    BY <1>0, <1>1, <2>1, <2>2, <2>3, NumberStep
  <2> QED  BY <1>0, <2>4, <2>7, <2>8, <2>9 DEF IInv, LifetimesRespected
<1> QED  BY <1>2, <1>3 DEF Create

\* A call into the library either fails or has its vectors.
LEMMA BeginCallInv ==
  ASSUME IInv, NEW p \in Thread, NEW call \in {"decode", "backward"}, NEW n,
         BeginCall(p, call, n)
  PROVE  IInv'
<1>1. /\ pc[p] = call /\ node' = node /\ made' = made /\ size' = size
      /\ Passes(p, {h[p], r[p]}) /\ UNCHANGED <<kind, h, r, b, at>>
  BY DEF BeginCall
<1>2. LifetimesRespected'
  <2>1. CASE kind[p] = "backward"
    <3>1. at[p] \in DOMAIN node /\ h[p] = node[at[p]].h /\ r[p] = node[at[p]].r
          /\ pc[p] = "backward"
      BY <1>1, <2>1 DEF IInv, ShapeInv, Shape, Makers
    <3>2. node[at[p]].open => {h[p], r[p]} \subseteq live
      BY <3>1 DEF IInv, OwnInv, Finalized
    <3>3. at[p] # 0
      BY <3>1, Numbers DEF IInv
    <3> QED  BY <1>1, <2>1, <3>1, <3>2, <3>3, PassesSafe DEF IInv
  <2>2. CASE kind[p] # "backward"
    <3>1. {h[p], r[p]} \ {0} \subseteq Owns(p)
      BY <1>1, <2>2 DEF Owns, Gone, Owned
    <3> QED  BY <1>1, <3>1, PassesSafe DEF IInv, OwnInv
  <2> QED  BY <2>1, <2>2
<1>3. CASE Throw(p)
  BY <1>1, <1>2, <1>3, ThrowInv
<1>4. CASE Go(p, IF call = "decode" THEN "decoded" ELSE "derived") /\ UNCHANGED raised
  <2>1. /\ kind'[p] = kind[p] /\ at'[p] = at[p] /\ raised'[p] = raised[p]
        /\ pc'[p] = (IF call = "decode" THEN "decoded" ELSE "derived")
        /\ h'[p] = h[p] /\ r'[p] = r[p] /\ b'[p] = b[p]
    BY <1>1, <1>4 DEF Go, IInv, TypeInv
  <2>2. Idle(Thread \ {p})
    BY <1>1, <1>4 DEF Go, IInv, TypeInv, Idle
  <2>3. TypeInv'
    BY <1>1, <1>4 DEF Go, IInv, TypeInv, Position, live
  <2>4. Shape(p)'
    BY <1>1, <2>1 DEF IInv, ShapeInv, Shape
  <2>5. ~Gone(p)' /\ ~Gone(p) /\ Owns(p)' = Owns(p)
    BY <1>1, <2>1 DEF Gone, Owns, Owned
  <2>6. h[p] <= made /\ r[p] <= made /\ b[p] <= made
    BY DEF IInv, NumberInv
  <2> QED  BY <1>1, <1>2, <2>1, <2>2, <2>3, <2>4, <2>5, <2>6, QuietStep
<1> QED  BY <1>3, <1>4 DEF BeginCall

\* A call hands out what it made, to the thread that called.
LEMMA EndCallInv ==
  ASSUME IInv, NEW p \in Thread, NEW call \in {"decoded", "derived"}, NEW n,
         EndCall(p, call, n)
  PROVE  IInv'
<1>0. /\ pc[p] = call /\ Make(n) /\ node' = node /\ misuse' = misuse
      /\ UNCHANGED <<kind, h, raised, at>>
  BY DEF EndCall
<1>1. /\ made' = made + 1 /\ made' \in Nat
      /\ live' = live \cup {made + 1} /\ live' \subseteq 1 .. made'
  BY <1>0, MakeEffect DEF IInv
<1>2. made \in Nat
  BY Numbers DEF IInv
<1>3. /\ kind'[p] = kind[p] /\ raised'[p] = raised[p] /\ at'[p] = at[p] /\ h'[p] = h[p]
      /\ r'[p] = (IF call = "decoded" THEN made + 1 ELSE r[p])
      /\ b'[p] = (IF call = "decoded" THEN b[p] ELSE made + 1)
      /\ pc'[p] = (IF call = "decoded" /\ kind[p] = "gradient" THEN "backward" ELSE "read")
  BY <1>0 DEF EndCall, Go, IInv, TypeInv
<1>4. Idle(Thread \ {p})
  BY DEF EndCall, Go, IInv, TypeInv, Idle
<1>5. TypeInv'
  <2>1. /\ h' \in [Thread -> Nat] /\ at' \in [Thread -> Nat] /\ node' \in Seq(Node)
        /\ kind' \in [Thread -> Makers \cup {"none", "backward"}]
        /\ raised' \in [Thread -> Position \cup {""}]
    BY <1>0 DEF IInv, TypeInv
  <2>2. r' \in [Thread -> Nat] /\ b' \in [Thread -> Nat]
    BY <1>1, <1>2 DEF EndCall, IInv, TypeInv
  <2>3. pc' \in [Thread -> Position]
    BY DEF EndCall, Go, IInv, TypeInv, Position
  <2> QED  BY <1>1, <2>1, <2>2, <2>3 DEF TypeInv
<1>6. /\ NodesStay /\ DOMAIN node' = DOMAIN node
      /\ \A m \in DOMAIN node : Finalized(m)' = Finalized(m)
  BY <1>0, NodesUnchanged
<1>7. made + 1 # 0
  BY <1>2
<1>8. Shape(p)
  BY DEF IInv, ShapeInv
<1>9. Shape(p)' /\ ~Gone(p)' /\ Owns(p)' = Owns(p) \cup {made + 1}
  <2>1. CASE call = "decoded"
    <3>1. kind[p] \in Makers /\ h[p] # 0 /\ r[p] = 0 /\ b[p] = 0
      BY <1>0, <1>8, <2>1 DEF Shape
    <3>2. Shape(p)' /\ ~Gone(p)'
      BY <1>3, <1>7, <2>1, <3>1 DEF Shape, Gone, Makers
    <3>3. Owns(p)' = Owns(p) \cup {made + 1}
      BY <1>0, <1>3, <1>7, <2>1, <3>1 DEF Owns, Owned, Gone, Makers
    <3> QED  BY <3>2, <3>3
  <2>2. CASE call = "derived"
    <3>1. kind[p] \in {"gradient", "backward"} /\ h[p] # 0 /\ r[p] # 0 /\ b[p] = 0
      BY <1>0, <1>8, <2>2 DEF Shape
    <3>2. Shape(p)' /\ ~Gone(p)'
      BY <1>0, <1>3, <1>7, <1>8, <2>2, <3>1 DEF Shape, Gone, Makers
    <3>3. Owns(p)' = Owns(p) \cup {made + 1}
      BY <1>0, <1>3, <1>7, <2>2, <3>1 DEF Owns, Owned, Gone
    <3> QED  BY <3>2, <3>3
  <2> QED  BY <2>1, <2>2
<1>10. ShapeInv' /\ \A q \in Thread \ {p} : Owns(q)' = Owns(q)
  BY <1>1, <1>4, <1>6, <1>9, ShapeStep
<1>11. OwnInv'
  BY <1>1, <1>2, <1>6, <1>9, <1>10, OwnMade DEF IInv, TypeInv
<1>12. NumberInv'
  <2>1. h[p] <= made /\ r[p] <= made /\ b[p] <= made
    BY DEF IInv, NumberInv
  <2>2. h[p] \in Nat /\ r[p] \in Nat /\ b[p] \in Nat
    BY Numbers DEF IInv
  <2>3. h'[p] <= made' /\ r'[p] <= made' /\ b'[p] <= made' /\ made <= made'
    BY <1>1, <1>2, <1>3, <2>1, <2>2
  <2> QED  BY <1>0, <1>1, <1>4, <2>3, NumberStep
<1> QED  BY <1>0, <1>5, <1>10, <1>11, <1>12 DEF IInv, LifetimesRespected

LEMMA ReadInv ==
  ASSUME IInv, NEW p \in Thread, Read(p)
  PROVE  IInv'
<1>1. /\ pc[p] = "read" /\ node' = node /\ made' = made /\ size' = size
      /\ Passes(p, {IF b[p] # 0 THEN b[p] ELSE r[p]}) /\ UNCHANGED <<kind, h, r, b, at>>
  BY DEF Read, heap
<1>2. Shape(p)
  BY DEF IInv, ShapeInv
<1>3. LifetimesRespected'
  <2>1. {IF b[p] # 0 THEN b[p] ELSE r[p]} \subseteq Owns(p)
    BY <1>1, <1>2 DEF Shape, Owns, Gone, Owned
  <2> QED  BY <1>1, <2>1, PassesSafe DEF IInv, OwnInv
<1>4. CASE Throw(p)
  BY <1>1, <1>3, <1>4, ThrowInv
<1>5. CASE Go(p, IF kind[p] = "forward" THEN "keep" ELSE "release") /\ UNCHANGED raised
  <2>1. /\ kind'[p] = kind[p] /\ at'[p] = at[p] /\ raised'[p] = raised[p]
        /\ pc'[p] = (IF kind[p] = "forward" THEN "keep" ELSE "release")
        /\ h'[p] = h[p] /\ r'[p] = r[p] /\ b'[p] = b[p]
    BY <1>1, <1>5 DEF Go, IInv, TypeInv
  <2>2. Idle(Thread \ {p})
    BY <1>1, <1>5 DEF Go, IInv, TypeInv, Idle
  <2>3. TypeInv'
    BY <1>1, <1>5 DEF Go, IInv, TypeInv, Position, live
  <2>4. Shape(p)'
    BY <1>1, <1>2, <2>1 DEF Shape
  <2>5. ~Gone(p)' /\ ~Gone(p) /\ Owns(p)' = Owns(p)
    BY <1>1, <2>1 DEF Gone, Owns, Owned
  <2>6. h[p] <= made /\ r[p] <= made /\ b[p] <= made
    BY DEF IInv, NumberInv
  <2> QED  BY <1>1, <1>3, <2>1, <2>2, <2>3, <2>4, <2>5, <2>6, QuietStep
<1> QED  BY <1>4, <1>5 DEF Read

LEMMA ViewInv ==
  ASSUME IInv, NEW p \in Thread, View(p)
  PROVE  IInv'
<1>1. /\ pc[p] = "view" /\ node' = node /\ made' = made /\ size' = size /\ misuse' = misuse
  BY DEF View, heap
<1>2. Gone(p) /\ kind[p] = "gradient" /\ Owned(p) \cap live = {} /\ Owns(p) = {}
  BY <1>1 DEF IInv, ShapeInv, Gone, Owns
<1>3. CASE Leave(p)
  BY <1>1, <1>2, <1>3, LeaveInv
<1>4. CASE Throw(p) /\ UNCHANGED <<kind, h, r, b, at>>
  <2>1. /\ kind'[p] = kind[p] /\ pc'[p] = "catch" /\ raised'[p] = "view" /\ at'[p] = at[p]
        /\ h'[p] = h[p] /\ r'[p] = r[p] /\ b'[p] = b[p]
    BY <1>1, <1>4 DEF Throw, Go, IInv, TypeInv
  <2>2. Idle(Thread \ {p})
    BY <1>4 DEF Throw, Go, IInv, TypeInv, Idle
  <2>3. TypeInv'
    BY <1>1, <1>4 DEF Throw, Go, IInv, TypeInv, Position, live
  <2>4. Shape(p)'
    BY <1>2, <2>1 DEF Shape
  <2>5. Gone(p)' /\ Owned(p)' = Owned(p) /\ Owns(p)' = {}
    BY <1>2, <2>1 DEF Gone, Owned, Owns
  <2>6. h[p] <= made /\ r[p] <= made /\ b[p] <= made
    BY DEF IInv, NumberInv
  <2>7. LifetimesRespected'
    BY <1>1 DEF IInv, LifetimesRespected
  <2> QED  BY <1>1, <1>2, <2>1, <2>2, <2>3, <2>4, <2>5, <2>6, <2>7, QuietStep
<1> QED  BY <1>3, <1>4 DEF View

\* A thread frees what it owns, and nothing else that lives.
LEMMA FreeStep ==
  ASSUME IInv, NEW p \in Thread, NEW objects, Delete(objects), Passes(p, objects),
         objects \cap live = Owns(p),
         \/ objects \ {0} \subseteq live
         \/ kind[p] = "gradient" /\ pc[p] = "catch" /\ raised[p] = "view",
         Idle(Thread \ {p}), node' = node, made' = made, Shape(p)', Owns(p)' = {},
         Gone(p)' => kind'[p] = "gradient" /\ Owned(p)' \cap live' = {},
         h'[p] <= made, r'[p] <= made, b'[p] <= made,
         live' \subseteq 1 .. made => TypeInv'
  PROVE  IInv'
<1>1. live' = live \ objects /\ live' \subseteq 1 .. made
  BY DeleteEffect DEF IInv
<1>2. live' = live \ Owns(p) /\ live' \subseteq live \cup {made + 1}
  BY <1>1
<1>3. /\ NodesStay /\ DOMAIN node' = DOMAIN node
      /\ \A n \in DOMAIN node : Finalized(n)' = Finalized(n)
  BY NodesUnchanged
<1>4. ShapeInv' /\ \A q \in Thread \ {p} : Owns(q)' = Owns(q)
  BY <1>2, <1>3, ShapeStep
<1>5. OwnInv'
  BY <1>2, <1>3, <1>4, OwnFreed DEF IInv
<1>6. LifetimesRespected'
  BY PassesSafe DEF IInv
<1>7. NumberInv'
  <2>1. made \in Nat /\ made <= made
    <3>1. made \in Nat
      BY Numbers DEF IInv
    <3> QED  BY <3>1
  <2> QED  BY <2>1, NumberStep
<1> QED  BY <1>1, <1>4, <1>5, <1>6, <1>7 DEF IInv

\* What a thread that is no backward pass frees is what it owns.
LEMMA OwnedLive ==
  ASSUME IInv, NEW p \in Thread, kind[p] # "backward"
  PROVE  /\ Owned(p) \cap live = Owns(p)
         /\ ~Gone(p) => Owned(p) \ {0} \subseteq live
<1>1. Owns(p) \subseteq live /\ (Gone(p) => Owned(p) \cap live = {})
  BY DEF IInv, OwnInv, ShapeInv
<1> QED  BY <1>1 DEF Owns

LEMMA CatchInv ==
  ASSUME IInv, NEW p \in Thread, Catch(p)
  PROVE  IInv'
<1>1. /\ pc[p] = "catch" /\ kind[p] # "backward" /\ Passes(p, Owned(p)) /\ Delete(Owned(p))
      /\ Leave(p) /\ node' = node /\ made' = made
  BY DEF Catch
<1>2. /\ Idle(Thread \ {p}) /\ Shape(p)' /\ ~Gone(p)' /\ Owns(p)' = {}
      /\ h'[p] = 0 /\ r'[p] = 0 /\ b'[p] = 0
  BY <1>1, LeaveEffect DEF IInv
<1>3. live' \subseteq 1 .. made => TypeInv'
  BY <1>1, LeaveEffect DEF IInv, TypeInv
<1>4. \/ Owned(p) \ {0} \subseteq live
      \/ kind[p] = "gradient" /\ pc[p] = "catch" /\ raised[p] = "view"
  BY <1>1, OwnedLive DEF IInv, ShapeInv, Gone
<1>5. Owned(p) \cap live = Owns(p)
  BY <1>1, OwnedLive
<1>6. 0 <= made
  BY Numbers DEF IInv
<1> QED  BY <1>1, <1>2, <1>3, <1>4, <1>5, <1>6, FreeStep

LEMMA ReleaseInv ==
  ASSUME IInv, NEW p \in Thread, Release(p)
  PROVE  IInv'
<1>1. /\ pc[p] = "release" /\ kind[p] # "backward" /\ Passes(p, Owned(p)) /\ Delete(Owned(p))
      /\ node' = node /\ made' = made
  BY DEF Release
<1>2. Owned(p) \ {0} \subseteq live /\ Owned(p) \cap live = Owns(p)
  BY <1>1, OwnedLive DEF Gone
<1>3. CASE Leave(p)
  <2>1. /\ Idle(Thread \ {p}) /\ Shape(p)' /\ ~Gone(p)' /\ Owns(p)' = {}
        /\ h'[p] = 0 /\ r'[p] = 0 /\ b'[p] = 0
    BY <1>3, LeaveEffect DEF IInv
  <2>2. live' \subseteq 1 .. made => TypeInv'
    BY <1>1, <1>3, LeaveEffect DEF IInv, TypeInv
  <2>3. 0 <= made
    BY Numbers DEF IInv
  <2> QED  BY <1>1, <1>2, <2>1, <2>2, <2>3, FreeStep
<1>4. CASE kind[p] = "gradient" /\ Go(p, "view") /\ UNCHANGED <<kind, h, r, b, raised, at>>
  <2>1. /\ kind'[p] = "gradient" /\ pc'[p] = "view" /\ raised'[p] = raised[p]
        /\ at'[p] = at[p] /\ h'[p] = h[p] /\ r'[p] = r[p] /\ b'[p] = b[p]
    BY <1>4 DEF Go, IInv, TypeInv
  <2>2. Idle(Thread \ {p})
    BY <1>4 DEF Go, IInv, TypeInv, Idle
  <2>3. live' \subseteq 1 .. made => TypeInv'
    BY <1>1, <1>4 DEF Go, IInv, TypeInv, Position
  <2>4. Shape(p)'
    BY <2>1 DEF Shape
  <2>5. Gone(p)' /\ Owned(p)' = Owned(p) /\ Owns(p)' = {}
    BY <2>1 DEF Gone, Owned, Owns
  <2>6. Owned(p)' \cap live' = {}
    BY <1>1, <2>5, DeleteEffect DEF IInv
  <2>7. h[p] <= made /\ r[p] <= made /\ b[p] <= made
    BY DEF IInv, NumberInv
  <2> QED  BY <1>1, <1>2, <2>1, <2>2, <2>3, <2>4, <2>5, <2>6, <2>7, FreeStep
<1> QED  BY <1>3, <1>4 DEF Release

\* Handle and result change hands, from the thread to a new node.
LEMMA KeepInv ==
  ASSUME IInv, NEW p \in Thread, Keep(p)
  PROVE  IInv'
<1> DEFINE new == [h |-> h[p], r |-> r[p], open |-> TRUE, reachable |-> TRUE]
<1> PICK m : m = Len(node) + 1
  OBVIOUS
<1>1. /\ pc[p] = "keep" /\ node' = Append(node, new) /\ Leave(p)
      /\ made' = made /\ size' = size /\ misuse' = misuse
  BY DEF Keep, heap
<1>2. live' = live
  BY <1>1 DEF live
<1>3. kind[p] = "forward" /\ h[p] # 0 /\ r[p] # 0 /\ b[p] = 0
  BY <1>1 DEF IInv, ShapeInv, Shape
<1>4. new \in Node
  BY <1>3, Numbers DEF IInv, Node
<1>5. node \in Seq(Node) /\ Len(node) \in Nat
  <2>1. node \in Seq(Node)
    BY DEF IInv, TypeInv
  <2> QED  BY <2>1
<1>6. /\ node' \in Seq(Node) /\ DOMAIN node' = DOMAIN node \cup {m} /\ m \notin DOMAIN node
      /\ node'[m] = new /\ \A n \in DOMAIN node : node'[n] = node[n]
  BY <1>1, <1>4, <1>5
<1>7. NodesStay /\ \A n \in DOMAIN node : Finalized(n)' = Finalized(n)
  BY <1>6 DEF NodesStay, Finalized
<1>8. Finalized(m)' = Owns(p)
  BY <1>1, <1>3, <1>6 DEF Finalized, Owns, Gone, Owned
<1>9. /\ Idle(Thread \ {p}) /\ Shape(p)' /\ ~Gone(p)' /\ Owns(p)' = {}
      /\ h'[p] = 0 /\ r'[p] = 0 /\ b'[p] = 0
  BY <1>1, LeaveEffect DEF IInv
<1>10. TypeInv'
  BY <1>1, <1>2, <1>6, LeaveEffect DEF IInv, TypeInv
<1>11. ShapeInv' /\ \A q \in Thread \ {p} : Owns(q)' = Owns(q)
  BY <1>2, <1>7, <1>9, ShapeStep
<1>12. OwnInv'
  BY <1>2, <1>6, <1>7, <1>8, <1>9, <1>11, OwnTaken DEF IInv
<1>13. NumberInv'
  <2>1. 0 <= made /\ h[p] <= made /\ r[p] <= made
    BY Numbers DEF IInv, NumberInv
  <2>2. \A q \in Thread : h'[q] <= made /\ r'[q] <= made /\ b'[q] <= made
    BY <1>9, <2>1 DEF IInv, NumberInv, Idle
  <2>3. \A n \in DOMAIN node' : node'[n].h <= made /\ node'[n].r <= made
    BY <1>6, <2>1 DEF IInv, NumberInv
  <2> QED  BY <1>1, <2>2, <2>3 DEF NumberInv
<1> QED  BY <1>1, <1>10, <1>11, <1>12, <1>13 DEF IInv, LifetimesRespected

\* Closing a node's state changes nothing else about the nodes.
LEMMA CloseEffect ==
  ASSUME TypeInv, NumberInv, NEW n \in DOMAIN node,
         \/ node' = [node EXCEPT ![n].open = FALSE]
         \/ node' = [node EXCEPT ![n].open = FALSE, ![n].reachable = FALSE]
  PROVE  /\ NodesStay /\ DOMAIN node' = DOMAIN node /\ node' \in Seq(Node)
         /\ Finalized(n)' = {}
         /\ \A m \in DOMAIN node \ {n} : Finalized(m)' = Finalized(m)
         /\ \A m \in DOMAIN node : node'[m].h <= made /\ node'[m].r <= made
<1>1. node \in Seq(Node) /\ DOMAIN node = 1 .. Len(node) /\ Len(node) \in Nat
  <2>1. node \in Seq(Node)
    BY DEF TypeInv
  <2> QED  BY <2>1
<1>2. \A m \in DOMAIN node : node[m] \in Node
  BY <1>1
<1>3. /\ DOMAIN node' = DOMAIN node /\ \A m \in DOMAIN node \ {n} : node'[m] = node[m]
      /\ node'[n].h = node[n].h /\ node'[n].r = node[n].r /\ ~node'[n].open
  BY <1>1, <1>2 DEF Node
<1>4. \A m \in DOMAIN node : node'[m] \in Node
  <2> PICK x : x = node[n]
    OBVIOUS
  <2>1. x \in Node
    BY <1>2
  <2>2. \/ node'[n] = [x EXCEPT !.open = FALSE]
        \/ node'[n] = [x EXCEPT !.open = FALSE, !.reachable = FALSE]
    BY <1>1
  <2>3. /\ [x EXCEPT !.open = FALSE] \in Node
        /\ [x EXCEPT !.open = FALSE, !.reachable = FALSE] \in Node
    BY <2>1 DEF Node
  <2>4. node'[n] \in Node
    BY <2>2, <2>3
  <2> QED  BY <1>2, <1>3, <2>4
<1>5. node' \in Seq(Node)
  <2>1. node' = [m \in 1 .. Len(node) |-> node'[m]]
    BY <1>1, <1>3
  <2> QED  BY <1>1, <1>4, <2>1
<1>6. NodesStay
  BY <1>3 DEF NodesStay
<1>7. Finalized(n)' = {} /\ \A m \in DOMAIN node \ {n} : Finalized(m)' = Finalized(m)
  BY <1>3 DEF Finalized
<1> QED  BY <1>3, <1>5, <1>6, <1>7 DEF NumberInv

LEMMA FinishBackwardInv ==
  ASSUME IInv, NEW p \in Thread, FinishBackward(p)
  PROVE  IInv'
<1> PICK n : n = at[p]
  OBVIOUS
<1> DEFINE objects == ({b[p]} \ {0}) \cup Finalized(n)
<1>1. /\ kind[p] = "backward" /\ Passes(p, objects) /\ Delete(objects)
      /\ node' = [node EXCEPT ![n].open = FALSE] /\ Leave(p) /\ made' = made
  BY DEF FinishBackward
<1>2. n \in DOMAIN node
  BY <1>1 DEF IInv, ShapeInv, Shape
<1>3. objects = Owns(p) \cup Finalized(n)
  BY <1>1 DEF Owns
<1>4. objects \subseteq live
  BY <1>2, <1>3 DEF IInv, OwnInv
<1>5. live' = live \ objects /\ live' \subseteq 1 .. made
  BY <1>1, DeleteEffect DEF IInv
<1>6. /\ NodesStay /\ DOMAIN node' = DOMAIN node /\ node' \in Seq(Node)
      /\ Finalized(n)' = {}
      /\ \A m \in DOMAIN node \ {n} : Finalized(m)' = Finalized(m)
      /\ \A m \in DOMAIN node : node'[m].h <= made /\ node'[m].r <= made
  BY <1>1, <1>2, CloseEffect DEF IInv
<1>7. /\ Idle(Thread \ {p}) /\ Shape(p)' /\ ~Gone(p)' /\ Owns(p)' = {}
      /\ h'[p] = 0 /\ r'[p] = 0 /\ b'[p] = 0
  BY <1>1, LeaveEffect DEF IInv
<1>8. TypeInv'
  BY <1>1, <1>5, <1>6, LeaveEffect DEF IInv, TypeInv
<1>9. ShapeInv' /\ \A q \in Thread \ {p} : Owns(q)' = Owns(q)
  <2>1. live' \subseteq live \cup {made + 1}
    BY <1>5
  <2> QED  BY <1>6, <1>7, <2>1, ShapeStep
<1>10. OwnInv'
  BY <1>2, <1>3, <1>5, <1>6, <1>7, <1>9, OwnClosed DEF IInv
<1>11. NumberInv'
  <2>1. 0 <= made
    BY Numbers DEF IInv
  <2>2. \A q \in Thread : h'[q] <= made /\ r'[q] <= made /\ b'[q] <= made
    BY <1>7, <2>1 DEF IInv, NumberInv, Idle
  <2> QED  BY <1>1, <1>6, <2>2 DEF NumberInv
<1>12. LifetimesRespected'
  BY <1>1, <1>4, PassesSafe DEF IInv
<1> QED  BY <1>8, <1>9, <1>10, <1>11, <1>12 DEF IInv

LEMMA CollectInv ==
  ASSUME IInv, NEW n \in DOMAIN node, Collect(n)
  PROVE  IInv'
<1>1. /\ Uses(Collector, Finalized(n)) /\ Delete(Finalized(n)) /\ made' = made
      /\ node' = [node EXCEPT ![n].open = FALSE, ![n].reachable = FALSE]
      /\ kind' = kind /\ pc' = pc /\ h' = h /\ r' = r /\ b' = b /\ raised' = raised /\ at' = at
  BY DEF Collect, locals
<1>2. Finalized(n) \subseteq live
  BY DEF IInv, OwnInv
<1>3. live' = live \ Finalized(n) /\ live' \subseteq 1 .. made
  BY <1>1, DeleteEffect DEF IInv
<1>4. /\ NodesStay /\ DOMAIN node' = DOMAIN node /\ node' \in Seq(Node)
      /\ Finalized(n)' = {}
      /\ \A m \in DOMAIN node \ {n} : Finalized(m)' = Finalized(m)
      /\ \A m \in DOMAIN node : node'[m].h <= made /\ node'[m].r <= made
  BY <1>1, CloseEffect DEF IInv
<1>5. TypeInv'
  BY <1>1, <1>3, <1>4 DEF IInv, TypeInv
<1>6. /\ ShapeInv' /\ \A q \in Thread : Owns(q)' = Owns(q)
  <2>1. Idle(Thread) /\ live' \subseteq live \cup {made + 1}
    BY <1>1, <1>3 DEF Idle
  <2>2. \A q \in Thread : /\ Shape(q)'
                          /\ Gone(q)' => kind'[q] = "gradient" /\ Owned(q)' \cap live' = {}
                          /\ Owns(q)' = Owns(q)
    BY <1>4, <2>1, OthersKept DEF IInv
  <2> QED  BY <2>2 DEF ShapeInv
<1>7. OwnInv'
  BY <1>3, <1>4, <1>6, OwnCollected DEF IInv
<1>8. NumberInv'
  BY <1>1, <1>4 DEF IInv, NumberInv
<1>9. LifetimesRespected'
  BY <1>1, <1>2, UsesSafe DEF IInv
<1> QED  BY <1>5, <1>6, <1>7, <1>8, <1>9 DEF IInv

\* A reset of the counters, or nothing at all.
LEMMA NothingInv ==
  ASSUME IInv, UNCHANGED <<locals, node, made, size, misuse>>
  PROVE  IInv'
<1>1. /\ kind' = kind /\ pc' = pc /\ h' = h /\ r' = r /\ b' = b /\ raised' = raised /\ at' = at
      /\ node' = node /\ made' = made /\ size' = size /\ misuse' = misuse
  BY DEF locals
<1>2. live' = live
  BY <1>1 DEF live
<1>3. /\ NodesStay /\ DOMAIN node' = DOMAIN node
      /\ \A n \in DOMAIN node : Finalized(n)' = Finalized(n)
  BY <1>1, NodesUnchanged
<1>4. /\ ShapeInv' /\ \A q \in Thread : Owns(q)' = Owns(q)
  <2>1. Idle(Thread) /\ live' \subseteq live \cup {made + 1}
    BY <1>1, <1>2 DEF Idle
  <2>2. \A q \in Thread : /\ Shape(q)'
                          /\ Gone(q)' => kind'[q] = "gradient" /\ Owned(q)' \cap live' = {}
                          /\ Owns(q)' = Owns(q)
    BY <1>3, <2>1, OthersKept DEF IInv
  <2> QED  BY <2>2 DEF ShapeInv
<1>5. OwnInv'
  BY <1>2, <1>3, <1>4, OwnKept DEF IInv
<1>6. TypeInv' /\ NumberInv' /\ LifetimesRespected'
  BY <1>1, <1>2 DEF IInv, TypeInv, NumberInv, LifetimesRespected
<1> QED  BY <1>4, <1>5, <1>6 DEF IInv

LEMMA NextInv == IInv /\ [Next]_vars => IInv'
<1> SUFFICES ASSUME IInv, [Next]_vars PROVE IInv'
  OBVIOUS
<1>1. CASE UNCHANGED vars
  BY <1>1, NothingInv DEF vars, heap
<1>2. CASE ResetCounters
  BY <1>2, NothingInv DEF ResetCounters
<1>3. CASE \E n \in DOMAIN node : Collect(n)
  BY <1>3, CollectInv
<1>4. ASSUME NEW p \in Thread,
             \/ \E k \in {"scores", "gradient", "forward"} : Enter(p, k)
             \/ \E n \in DOMAIN node : EnterBackward(p, n)
             \/ Create(p)
             \/ BeginCall(p, "decode", ResultBytes) \/ EndCall(p, "decoded", ResultBytes)
             \/ BeginCall(p, "backward", BackBytes) \/ EndCall(p, "derived", BackBytes)
             \/ Read(p) \/ Keep(p) \/ Release(p) \/ View(p) \/ Catch(p) \/ FinishBackward(p)
      PROVE  IInv'
  <2>1. CASE \E k \in {"scores", "gradient", "forward"} : Enter(p, k)
    BY <2>1, EnterInv DEF Makers
  <2>2. CASE \E n \in DOMAIN node : EnterBackward(p, n)
    BY <2>2, EnterBackwardInv
  <2>3. CASE Create(p)
    BY <2>3, CreateInv
  <2>4. CASE BeginCall(p, "decode", ResultBytes)
    BY <2>4, BeginCallInv
  <2>5. CASE BeginCall(p, "backward", BackBytes)
    BY <2>5, BeginCallInv
  <2>6. CASE EndCall(p, "decoded", ResultBytes)
    BY <2>6, EndCallInv
  <2>7. CASE EndCall(p, "derived", BackBytes)
    BY <2>7, EndCallInv
  <2>8. CASE Read(p)
    BY <2>8, ReadInv
  <2>9. CASE Keep(p)
    BY <2>9, KeepInv
  <2>10. CASE Release(p)
    BY <2>10, ReleaseInv
  <2>11. CASE View(p)
    BY <2>11, ViewInv
  <2>12. CASE Catch(p)
    BY <2>12, CatchInv
  <2>13. CASE FinishBackward(p)
    BY <2>13, FinishBackwardInv
  <2> QED  BY <1>4, <2>1, <2>2, <2>3, <2>4, <2>5, <2>6, <2>7, <2>8, <2>9, <2>10, <2>11,
              <2>12, <2>13
<1> QED  BY <1>1, <1>2, <1>3, <1>4 DEF Next

-----------------------------------------------------------------------------
(***************************************************************************)
(* Lifetimes and owners.                                                   *)
(***************************************************************************)

LEMMA SpecInv == Spec => []IInv
BY InitInv, NextInv, PTL DEF Spec

(***************************************************************************)
(* No call is passed a freed object and none is freed twice, whatever      *)
(* throws and however threads and collector interleave, but for a second   *)
(* backward pass through a retained graph and an exception of the return   *)
(* statement of final_scores_backward.                                     *)
(***************************************************************************)
THEOREM OwnershipLifetimesRespected == Spec => []LifetimesRespected
<1>1. IInv => LifetimesRespected
  BY DEF IInv
<1> QED  BY <1>1, SpecInv, PTL

\* The owners that the invariant speaks of are those that OneOwner counts.
LEMMA OwnersAre ==
  ASSUME IInv, NEW o \in live
  PROVE  Owners(o) = {p \in Thread : o \in Owns(p)}
                     \cup {<<n>> : n \in {n \in DOMAIN node : o \in Finalized(n)}}
<1>1. o # 0
  <2>1. live \subseteq 1 .. made
    BY DEF IInv, TypeInv
  <2> QED  BY <2>1
<1>2. ASSUME NEW p \in Thread
      PROVE  (o = b[p] \/ (kind[p] # "backward" /\ o \in {h[p], r[p]})) <=> o \in Owns(p)
  <2>1. Gone(p) => kind[p] = "gradient" /\ o \notin Owned(p)
    BY DEF IInv, ShapeInv
  <2> QED  BY <1>1, <2>1 DEF Owns, Owned
<1>3. \A n \in DOMAIN node :
        (node[n].open /\ o \in {node[n].h, node[n].r}) <=> o \in Finalized(n)
  BY DEF Finalized
<1>4. {p \in Thread : o = b[p] \/ (kind[p] # "backward" /\ o \in {h[p], r[p]})}
        = {p \in Thread : o \in Owns(p)}
  BY <1>2
<1>5. {n \in DOMAIN node : node[n].open /\ o \in {node[n].h, node[n].r}}
        = {n \in DOMAIN node : o \in Finalized(n)}
  BY <1>3
<1> QED  BY <1>4, <1>5 DEF Owners

(***************************************************************************)
(* Every live handle, result and backward result has exactly one owner who *)
(* is going to free it.                                                    *)
(***************************************************************************)
THEOREM OwnershipOneOwner == Spec => []OneOwner
<1>1. ASSUME IInv, NEW o \in live
      PROVE  Cardinality(Owners(o)) = 1
  <2>1. CASE \E p \in Thread : o \in Owns(p)
    <3>1. PICK p \in Thread : o \in Owns(p)
      BY <2>1
    <3>2. {q \in Thread : o \in Owns(q)} = {p}
      BY <1>1, <3>1 DEF IInv, OwnInv
    <3>3. {n \in DOMAIN node : o \in Finalized(n)} = {}
      BY <1>1, <3>1 DEF IInv, OwnInv
    <3>4. Owners(o) = {p}
      BY <1>1, <3>2, <3>3, OwnersAre
    <3> QED  BY <3>4, FS_Singleton
  <2>2. CASE ~ \E p \in Thread : o \in Owns(p)
    <3>1. PICK n \in DOMAIN node : o \in Finalized(n)
      BY <1>1, <2>2 DEF IInv, OwnInv
    <3>2. {m \in DOMAIN node : o \in Finalized(m)} = {n}
      BY <1>1, <3>1 DEF IInv, OwnInv
    <3>3. {q \in Thread : o \in Owns(q)} = {}
      BY <2>2
    <3>4. Owners(o) = {<<n>>}
      BY <1>1, <3>2, <3>3, OwnersAre
    <3> QED  BY <3>4, FS_Singleton
  <2> QED  BY <2>1, <2>2
<1>2. IInv => OneOwner
  BY <1>1 DEF OneOwner
<1> QED  BY <1>2, SpecInv, PTL

-----------------------------------------------------------------------------
(***************************************************************************)
(* The byte count.                                                         *)
(***************************************************************************)

\* The bytes a thread's call in progress has taken.
Taken(p) ==
  CASE pc[p] = "decoded" -> ResultBytes + ScratchBytes
    [] pc[p] = "derived" -> BackBytes + ScratchBytes
    [] OTHER             -> 0

\* Between the calls no thread holds scratch vectors, and during one just its own.
ByteInv ==
  /\ bytes \in Int /\ base \in Int
  /\ \A o \in live : size[o] \in Int
  /\ \A p \in Thread : scratch[p] = Taken(p)
  /\ scratch \in [Thread -> Int]
  /\ BytesBalanced

\* What is in use, now and next, in terms of Total.
LEMMA InUseIs == InUse = Total(size, live) + Total(scratch, Thread)
BY DEF InUse, Total

LEMMA InUseNext == InUse' = Total(size', live') + Total(scratch', Thread)
BY DEF InUse, Total, MapThenSumSet, MapThenFoldSet

LEMMA SizesNat == ResultBytes \in Nat /\ BackBytes \in Nat /\ ScratchBytes \in Nat
BY SizesAssumption

LEMMA LiveFinite ==
  ASSUME TypeInv
  PROVE  IsFiniteSet(live)
<1>0. made \in Nat /\ live \subseteq 1 .. made
  BY DEF TypeInv
<1>1. IsFiniteSet(1 .. made)
  <2>1. made \in Int /\ 1 \in Int
    BY <1>0
  <2> QED  BY <2>1, FS_Interval
<1> QED  BY <1>0, <1>1, FS_Subset

LEMMA InUseType ==
  ASSUME TypeInv, ByteInv
  PROVE  Total(size, live) \in Int /\ Total(scratch, Thread) \in Int
<1>1. Total(size, live) \in Int
  BY LiveFinite, TotalType DEF ByteInv
<1>2. Total(scratch, Thread) \in Int
  BY ThreadAssumption, TotalType DEF ByteInv
<1> QED  BY <1>1, <1>2

\* A new object adds its bytes.
LEMMA MakeBytes ==
  ASSUME TypeInv, ByteInv, NEW n \in Int, Make(n)
  PROVE  /\ \A o \in live' : size'[o] \in Int
         /\ Total(size', live') = n + Total(size, live)
<1>1. made \in Nat /\ live \subseteq 1 .. made /\ live' = live \cup {made + 1}
  BY MakeEffect DEF TypeInv
<1>2. made + 1 \notin live
  BY <1>1
<1>3. /\ \A o \in live : size'[o] = size[o]
      /\ size'[made + 1] = n
  BY <1>2 DEF Make
<1>4. \A o \in live' : size'[o] \in Int
  BY <1>1, <1>3 DEF ByteInv
<1>5. Total(size', live) = Total(size, live)
  BY <1>3, LiveFinite, TotalAgree
<1>6. Total(size', live \cup {made + 1}) = size'[made + 1] + Total(size', live)
  BY <1>1, <1>2, <1>4, LiveFinite, TotalAdd
<1> QED  BY <1>1, <1>3, <1>4, <1>5, <1>6

\* A deletion takes as much off the count as off what is in use.
LEMMA DeleteBytes ==
  ASSUME TypeInv, ByteInv, NEW objects, Delete(objects)
  PROVE  /\ \A o \in live' : size'[o] \in Int
         /\ bytes' \in Int /\ Total(size', live') \in Int
         /\ bytes' - Total(size', live') = bytes - Total(size, live)
<1> PICK A : A = objects \cap live
  OBVIOUS
<1> PICK R : R = live \ objects
  OBVIOUS
<1>1. live' = R /\ A \in SUBSET live /\ live \ A = R /\ R \subseteq live
  BY DeleteEffect
<1>2. \A o \in R : size'[o] = size[o]
  BY DEF Delete
<1>3. \A o \in R : size'[o] \in Int
  BY <1>1, <1>2 DEF ByteInv
<1>4. IsFiniteSet(live) /\ IsFiniteSet(A) /\ IsFiniteSet(R)
  BY <1>1, LiveFinite, FS_Subset
<1>5. Total(size', R) = Total(size, R)
  BY <1>2, <1>4, TotalAgree
<1>6. Total(size, live) = Total(size, A) + Total(size, R)
  BY <1>1, <1>4, TotalSplit DEF ByteInv
<1>7. Total(size, A) \in Int /\ Total(size, R) \in Int
  BY <1>1, <1>4, TotalType DEF ByteInv
<1>8. bytes' = bytes - Total(size, A)
  BY DEF Delete, Total
<1>9. bytes \in Int
  BY DEF ByteInv
<1> QED  BY <1>1, <1>3, <1>5, <1>6, <1>7, <1>8, <1>9

\* The byte count, from the sums.
LEMMA Balanced ==
  ASSUME TypeInv, ByteInv
  PROVE  bytes = (Total(size, live) + Total(scratch, Thread)) - base
<1>1. bytes = InUse - base
  BY DEF ByteInv, BytesBalanced
<1> QED  BY <1>1, InUseIs

\* A step during which the thread takes no scratch vectors and frees none.
LEMMA ByteQuiet ==
  ASSUME TypeInv, ByteInv, scratch' = scratch, base' = base,
         \A q \in Thread : Taken(q)' = Taken(q),
         \A o \in live' : size'[o] \in Int,
         bytes' \in Int, Total(size', live') \in Int,
         bytes' - Total(size', live') = bytes - Total(size, live)
  PROVE  ByteInv'
<1>1. Total(size, live) \in Int /\ Total(scratch, Thread) \in Int /\ bytes \in Int /\ base \in Int
  BY InUseType DEF ByteInv
<1>2. bytes' = (Total(size', live') + Total(scratch', Thread)) - base'
  BY <1>1, Balanced
<1>3. InUse' = Total(size', live') + Total(scratch', Thread)
  BY InUseNext
<1>4. BytesBalanced'
  BY <1>2, <1>3 DEF BytesBalanced
<1>5. base' \in Int /\ scratch' \in [Thread -> Int] /\ \A q \in Thread : scratch'[q] = Taken(q)'
  BY DEF ByteInv
<1> QED  BY <1>4, <1>5 DEF ByteInv

\* A step that neither makes nor frees an object, and leaves the count alone.
LEMMA ByteSame ==
  ASSUME TypeInv, ByteInv, scratch' = scratch, base' = base, bytes' = bytes, size' = size,
         \A q \in Thread : Taken(q)' = Taken(q)
  PROVE  ByteInv'
<1>1. live' = live
  BY DEF live
<1>2. Total(size', live') = Total(size, live)
  BY <1>1
<1>3. Total(size, live) \in Int
  BY InUseType
<1>4. bytes \in Int /\ \A o \in live : size[o] \in Int
  BY DEF ByteInv
<1> QED  BY <1>1, <1>2, <1>3, <1>4, ByteQuiet

\* Away from the calls, a step of a thread takes nothing.
LEMMA TakenElsewhere ==
  ASSUME TypeInv, NEW p \in Thread, NEW l, Go(p, l),
         pc[p] \notin {"decoded", "derived"}, l \notin {"decoded", "derived"}
  PROVE  \A q \in Thread : Taken(q)' = Taken(q)
<1>1. \A q \in Thread : pc'[q] = IF q = p THEN l ELSE pc[q]
  BY DEF TypeInv, Go
<1>2. Taken(p) = 0 /\ Taken(p)' = 0
  BY <1>1 DEF Taken
<1>3. \A q \in Thread \ {p} : Taken(q)' = Taken(q)
  BY <1>1 DEF Taken
<1> QED  BY <1>2, <1>3

LEMMA TakenThrow ==
  ASSUME TypeInv, NEW p \in Thread, Throw(p), pc[p] \notin {"decoded", "derived"}
  PROVE  \A q \in Thread : Taken(q)' = Taken(q)
<1>1. Go(p, "catch")
  BY DEF Throw
<1> QED  BY <1>1, TakenElsewhere

LEMMA TakenLeave ==
  ASSUME TypeInv, NEW p \in Thread, Leave(p), pc[p] \notin {"decoded", "derived"}
  PROVE  \A q \in Thread : Taken(q)' = Taken(q)
<1>1. Go(p, "idle")
  BY DEF Leave
<1> QED  BY <1>1, TakenElsewhere

-----------------------------------------------------------------------------
\* The invariant, one lemma per action that moves bytes.
LEMMA InitBytes == Init => ByteInv
<1> SUFFICES ASSUME Init PROVE ByteInv
  OBVIOUS
<1>1. live = {}
  <2>1. <<>> \in Seq(Nat) /\ Len(<<>>) = 0 /\ 1 .. 0 = {}
    OBVIOUS
  <2>2. DOMAIN <<>> = {}
    BY <2>1
  <2> QED  BY <2>2 DEF Init, live
<1>2. \A p \in Thread : scratch[p] = 0 /\ pc[p] = "idle"
  BY DEF Init
<1>3. \A p \in Thread : Taken(p) = 0
  BY <1>2 DEF Taken
<1>4. Total(size, live) = 0
  BY <1>1, TotalOfNone
<1>5. Total(scratch, Thread) = 0
  BY <1>2, ThreadAssumption, TotalOfZeros
<1>6. bytes = 0 /\ base = 0 /\ scratch \in [Thread -> Int]
  <2>1. bytes = 0 /\ base = 0 /\ scratch = [p \in Thread |-> 0]
    BY DEF Init
  <2> QED  BY <2>1
<1>7. BytesBalanced
  BY <1>4, <1>5, <1>6, InUseIs DEF BytesBalanced
<1> QED  BY <1>1, <1>2, <1>3, <1>6, <1>7 DEF ByteInv

\* A call takes the vectors of its result and its scratch vectors.
LEMMA BeginCallBytes ==
  ASSUME TypeInv, ByteInv, NEW p \in Thread,
         NEW call \in {"decode", "backward"}, NEW n,
         n = (IF call = "decode" THEN ResultBytes ELSE BackBytes), BeginCall(p, call, n)
  PROVE  ByteInv'
<1>1. pc[p] = call /\ size' = size /\ base' = base
  BY DEF BeginCall
<1>2. CASE Throw(p) /\ UNCHANGED <<bytes, scratch>>
  <2>1. \A q \in Thread : Taken(q)' = Taken(q)
    BY <1>1, <1>2, TakenThrow
  <2> QED  BY <1>1, <1>2, <2>1, ByteSame
<1>3. CASE /\ bytes' = bytes + n + ScratchBytes
           /\ scratch' = [scratch EXCEPT ![p] = n + ScratchBytes]
           /\ Go(p, IF call = "decode" THEN "decoded" ELSE "derived")
  <2>1. n \in Int /\ ScratchBytes \in Int
    BY SizesNat
  <2>2. /\ scratch \in [Thread -> Int] /\ scratch' \in [Thread -> Int]
        /\ scratch'[p] = n + ScratchBytes /\ \A q \in Thread \ {p} : scratch'[q] = scratch[q]
    BY <1>3, <2>1 DEF ByteInv
  <2>3. pc'[p] = (IF call = "decode" THEN "decoded" ELSE "derived")
        /\ \A q \in Thread \ {p} : pc'[q] = pc[q]
    BY <1>3 DEF Go, TypeInv
  <2>4. Taken(p) = 0 /\ Taken(p)' = n + ScratchBytes
    BY <1>1, <2>3 DEF Taken
  <2>5. \A q \in Thread \ {p} : Taken(q)' = Taken(q)
    BY <2>3 DEF Taken
  <2>6. \A q \in Thread : scratch'[q] = Taken(q)'
    BY <2>2, <2>4, <2>5 DEF ByteInv
  <2>7. scratch[p] = 0
    BY <2>4 DEF ByteInv
  <2>8. Total(scratch', Thread) = Total(scratch, Thread) - 0 + (n + ScratchBytes)
    BY <2>2, <2>7, ThreadAssumption, TotalChange
  <2>9. live' = live /\ Total(size', live') = Total(size, live)
    BY <1>1 DEF live
  <2>10. /\ Total(size, live) \in Int /\ Total(scratch, Thread) \in Int
         /\ bytes \in Int /\ base \in Int /\ \A o \in live : size[o] \in Int
    BY InUseType DEF ByteInv
  <2>11. bytes' = (Total(size', live') + Total(scratch', Thread)) - base' /\ bytes' \in Int
    BY <1>1, <1>3, <2>1, <2>8, <2>9, <2>10, Balanced
  <2>12. InUse' = Total(size', live') + Total(scratch', Thread)
    BY InUseNext
  <2>13. BytesBalanced'
    BY <2>11, <2>12 DEF BytesBalanced
  <2>14. \A o \in live' : size'[o] \in Int
    BY <1>1, <2>9, <2>10
  <2>15. base' \in Int
    BY <1>1, <2>10
  <2> QED  BY <2>2, <2>6, <2>11, <2>13, <2>14, <2>15 DEF ByteInv
<1> QED  BY <1>2, <1>3 DEF BeginCall

\* It hands the vectors of the result out with it, and frees the others.
LEMMA EndCallBytes ==
  ASSUME TypeInv, ByteInv, NEW p \in Thread,
         NEW call \in {"decoded", "derived"}, NEW n,
         n = (IF call = "decoded" THEN ResultBytes ELSE BackBytes), EndCall(p, call, n)
  PROVE  ByteInv'
<1> DEFINE after == IF call = "decoded" /\ kind[p] = "gradient" THEN "backward" ELSE "read"
<1>1. /\ pc[p] = call /\ Make(n) /\ bytes' = bytes - ScratchBytes /\ base' = base
      /\ scratch' = [scratch EXCEPT ![p] = 0] /\ Go(p, after)
  BY DEF EndCall
<1>2. n \in Int /\ ScratchBytes \in Int
  BY SizesNat
<1>3. /\ scratch \in [Thread -> Int] /\ scratch' \in [Thread -> Int]
      /\ scratch'[p] = 0 /\ \A q \in Thread \ {p} : scratch'[q] = scratch[q]
  BY <1>1 DEF ByteInv
<1>4. pc'[p] = after /\ \A q \in Thread \ {p} : pc'[q] = pc[q]
  BY <1>1 DEF Go, TypeInv
<1>5. Taken(p) = n + ScratchBytes /\ Taken(p)' = 0
  BY <1>1, <1>4 DEF Taken
<1>6. \A q \in Thread \ {p} : Taken(q)' = Taken(q)
  BY <1>4 DEF Taken
<1>7. \A q \in Thread : scratch'[q] = Taken(q)'
  BY <1>3, <1>5, <1>6 DEF ByteInv
<1>8. scratch[p] = n + ScratchBytes
  BY <1>5 DEF ByteInv
<1>9. Total(scratch', Thread) = Total(scratch, Thread) - (n + ScratchBytes) + 0
  BY <1>3, <1>8, ThreadAssumption, TotalChange
<1>10. /\ \A o \in live' : size'[o] \in Int
       /\ Total(size', live') = n + Total(size, live)
  BY <1>1, <1>2, MakeBytes
<1>11. /\ Total(size, live) \in Int /\ Total(scratch, Thread) \in Int
       /\ bytes \in Int /\ base \in Int
  BY InUseType DEF ByteInv
<1>12. bytes' = (Total(size', live') + Total(scratch', Thread)) - base' /\ bytes' \in Int
  BY <1>1, <1>2, <1>9, <1>10, <1>11, Balanced
<1>13. InUse' = Total(size', live') + Total(scratch', Thread)
  BY InUseNext
<1>14. BytesBalanced'
  BY <1>12, <1>13 DEF BytesBalanced
<1>15. base' \in Int
  BY <1>1, <1>11
<1> QED  BY <1>3, <1>7, <1>10, <1>12, <1>14, <1>15 DEF ByteInv

LEMMA CreateBytes ==
  ASSUME TypeInv, ByteInv, NEW p \in Thread, Create(p)
  PROVE  ByteInv'
<1>1. pc[p] = "create" /\ base' = base /\ scratch' = scratch /\ bytes' = bytes
  BY DEF Create, heap
<1>2. CASE Leave(p) /\ UNCHANGED heap
  BY <1>1, <1>2, TakenLeave, ByteSame DEF heap
<1>3. CASE Make(0) /\ Go(p, "decode")
  <2>1. \A q \in Thread : Taken(q)' = Taken(q)
    BY <1>1, <1>3, TakenElsewhere
  <2>2. /\ \A o \in live' : size'[o] \in Int
        /\ Total(size', live') = 0 + Total(size, live)
    BY <1>3, MakeBytes
  <2>3. Total(size, live) \in Int /\ bytes \in Int
    BY InUseType DEF ByteInv
  <2> QED  BY <1>1, <2>1, <2>2, <2>3, ByteQuiet
<1> QED  BY <1>2, <1>3 DEF Create

\* Everybody frees by way of Delete.
LEMMA FreeBytes ==
  ASSUME TypeInv, ByteInv, NEW objects, Delete(objects), scratch' = scratch, base' = base,
         \A q \in Thread : Taken(q)' = Taken(q)
  PROVE  ByteInv'
BY DeleteBytes, ByteQuiet

LEMMA ResetBytes ==
  ASSUME TypeInv, ByteInv, ResetCounters
  PROVE  ByteInv'
<1>1. /\ bytes' = 0 /\ base' = InUse /\ size' = size /\ scratch' = scratch /\ pc' = pc
  BY DEF ResetCounters, locals
<1>2. live' = live /\ InUse' = Total(size', live') + Total(scratch', Thread)
  BY <1>1, InUseNext DEF live
<1>3. Total(size, live) \in Int /\ Total(scratch, Thread) \in Int
  BY InUseType
<1>4. base' \in Int /\ bytes' = InUse' - base'
  BY <1>1, <1>2, <1>3, InUseIs
<1>5. \A q \in Thread : Taken(q)' = Taken(q)
  BY <1>1 DEF Taken
<1> QED  BY <1>1, <1>2, <1>4, <1>5 DEF ByteInv, BytesBalanced

LEMMA NextBytes == TypeInv /\ ByteInv /\ [Next]_vars => ByteInv'
<1> SUFFICES ASSUME TypeInv, ByteInv, [Next]_vars PROVE ByteInv'
  OBVIOUS
<1>1. CASE UNCHANGED vars
  <2>1. /\ size' = size /\ bytes' = bytes /\ scratch' = scratch /\ base' = base /\ pc' = pc
    BY <1>1 DEF vars, heap, locals
  <2>2. \A q \in Thread : Taken(q)' = Taken(q)
    BY <2>1 DEF Taken
  <2> QED  BY <2>1, <2>2, ByteSame
<1>2. CASE ResetCounters
  BY <1>2, ResetBytes
<1>3. ASSUME NEW n \in DOMAIN node, Collect(n)
      PROVE  ByteInv'
  <2>1. Delete(Finalized(n)) /\ scratch' = scratch /\ base' = base /\ pc' = pc
    BY <1>3 DEF Collect, locals
  <2>2. \A q \in Thread : Taken(q)' = Taken(q)
    BY <2>1 DEF Taken
  <2> QED  BY <2>1, <2>2, FreeBytes
<1>4. ASSUME NEW p \in Thread, NEW k, Enter(p, k)
      PROVE  ByteInv'
  <2>1. /\ pc[p] = "idle" /\ Go(p, "create") /\ size' = size /\ bytes' = bytes
        /\ scratch' = scratch /\ base' = base
    BY <1>4 DEF Enter, heap
  <2> QED  BY <2>1, TakenElsewhere, ByteSame
<1>5. ASSUME NEW p \in Thread, NEW n, EnterBackward(p, n)
      PROVE  ByteInv'
  <2>1. /\ pc[p] = "idle" /\ Go(p, "backward") /\ size' = size /\ bytes' = bytes
        /\ scratch' = scratch /\ base' = base
    BY <1>5 DEF EnterBackward, heap
  <2> QED  BY <2>1, TakenElsewhere, ByteSame
<1>6. ASSUME NEW p \in Thread, Read(p)
      PROVE  ByteInv'
  <2>1. /\ pc[p] = "read" /\ size' = size /\ bytes' = bytes
        /\ scratch' = scratch /\ base' = base
        /\ Throw(p) \/ Go(p, IF kind[p] = "forward" THEN "keep" ELSE "release")
    BY <1>6 DEF Read, heap
  <2>2. \A q \in Thread : Taken(q)' = Taken(q)
    BY <2>1, TakenThrow, TakenElsewhere
  <2> QED  BY <2>1, <2>2, ByteSame
<1>7. ASSUME NEW p \in Thread, Keep(p)
      PROVE  ByteInv'
  <2>1. /\ pc[p] = "keep" /\ Leave(p) /\ size' = size /\ bytes' = bytes
        /\ scratch' = scratch /\ base' = base
    BY <1>7 DEF Keep, heap
  <2> QED  BY <2>1, TakenLeave, ByteSame
<1>8. ASSUME NEW p \in Thread, Release(p)
      PROVE  ByteInv'
  <2>1. /\ pc[p] = "release" /\ Delete(Owned(p)) /\ scratch' = scratch /\ base' = base
        /\ Go(p, "view") \/ Leave(p)
    BY <1>8 DEF Release
  <2>2. \A q \in Thread : Taken(q)' = Taken(q)
    BY <2>1, TakenLeave, TakenElsewhere
  <2> QED  BY <2>1, <2>2, FreeBytes
<1>9. ASSUME NEW p \in Thread, View(p)
      PROVE  ByteInv'
  <2>1. /\ pc[p] = "view" /\ size' = size /\ bytes' = bytes
        /\ scratch' = scratch /\ base' = base
        /\ Leave(p) \/ Throw(p)
    BY <1>9 DEF View, heap
  <2>2. \A q \in Thread : Taken(q)' = Taken(q)
    BY <2>1, TakenLeave, TakenThrow
  <2> QED  BY <2>1, <2>2, ByteSame
<1>10. ASSUME NEW p \in Thread, Catch(p)
       PROVE  ByteInv'
  <2>1. pc[p] = "catch" /\ Delete(Owned(p)) /\ scratch' = scratch /\ base' = base /\ Leave(p)
    BY <1>10 DEF Catch
  <2> QED  BY <2>1, TakenLeave, FreeBytes
<1>11. ASSUME NEW p \in Thread, FinishBackward(p)
       PROVE  ByteInv'
  <2>1. /\ pc[p] \in {"release", "catch"} /\ scratch' = scratch /\ base' = base /\ Leave(p)
        /\ Delete(({b[p]} \ {0}) \cup Finalized(at[p]))
    BY <1>11 DEF FinishBackward
  <2> QED  BY <2>1, TakenLeave, FreeBytes
<1>12. ASSUME NEW p \in Thread,
              \/ \E k \in {"scores", "gradient", "forward"} : Enter(p, k)
              \/ \E n \in DOMAIN node : EnterBackward(p, n)
              \/ Create(p)
              \/ BeginCall(p, "decode", ResultBytes) \/ EndCall(p, "decoded", ResultBytes)
              \/ BeginCall(p, "backward", BackBytes) \/ EndCall(p, "derived", BackBytes)
              \/ Read(p) \/ Keep(p) \/ Release(p) \/ View(p) \/ Catch(p) \/ FinishBackward(p)
       PROVE  ByteInv'
  <2>1. CASE BeginCall(p, "decode", ResultBytes)
    BY <2>1, BeginCallBytes
  <2>2. CASE BeginCall(p, "backward", BackBytes)
    BY <2>2, BeginCallBytes
  <2>3. CASE EndCall(p, "decoded", ResultBytes)
    BY <2>3, EndCallBytes
  <2>4. CASE EndCall(p, "derived", BackBytes)
    BY <2>4, EndCallBytes
  <2>5. CASE Create(p)
    BY <2>5, CreateBytes
  <2> QED  BY <1>4, <1>5, <1>6, <1>7, <1>8, <1>9, <1>10, <1>11, <1>12,
              <2>1, <2>2, <2>3, <2>4, <2>5
<1> QED  BY <1>1, <1>2, <1>3, <1>12 DEF Next

(***************************************************************************)
(* Whatever is made, freed, or thrown, and whoever resets it when, the     *)
(* count of the allocator is what is in use less what was in use when it   *)
(* was last reset.                                                         *)
(***************************************************************************)
THEOREM OwnershipBytesBalanced == Spec => []BytesBalanced
<1>1. Init => IInv /\ ByteInv
  BY InitInv, InitBytes
<1>2. (IInv /\ ByteInv) /\ [Next]_vars => (IInv /\ ByteInv)'
  BY NextInv, NextBytes DEF IInv
<1>3. IInv /\ ByteInv => BytesBalanced
  BY DEF ByteInv
<1> QED  BY <1>1, <1>2, <1>3, PTL DEF Spec
=============================================================================

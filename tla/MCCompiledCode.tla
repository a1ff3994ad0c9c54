--------------------------- MODULE MCCompiledCode ----------------------------
(* Programs for CompiledCode: every kind of condition over a triangle, a    *)
(* diamond, loops whose phis trade places, switches with shared targets,    *)
(* chains of blocks without code, literals the chip cannot read, calls,     *)
(* arithmetic, arrays and pointers, infinities on their way to a bitwise    *)
(* instruction, and readings on their way to a device hash.                 *)
EXTENDS CompiledCode

Read(d)             == [do |-> "read", dst |-> d, args |-> <<>>]
Write(args)         == [do |-> "write", dst |-> 0, args |-> args]
Sleep               == [do |-> "sleep", dst |-> 0, args |-> <<>>]
Freeze(d, a)        == [do |-> "freeze", dst |-> d, args |-> <<a>>]
Cmp(d, ty, p, l, r) == [do |-> "cmp", dst |-> d, args |-> <<l, r>>, type |-> ty, pred |-> p]
Choose(d, c, l, r)  == [do |-> "select", dst |-> d, args |-> <<c, l, r>>]
Call(d, f, args)    == [do |-> "call", dst |-> d, args |-> args, callee |-> f]

Do(op, d, args)     == [do |-> op, dst |-> d, args |-> args]
Masked(d, a, mask)  == Do("icand", d, <<a, Lit(mask)>>)
Load(d, p)          == Do("load", d, <<p>>)
Store(v, p)         == Do("store", 0, <<v, p>>)
Alloca(d, size)     == [do |-> "alloca", dst |-> d, args |-> <<>>, size |-> size]
Gep(d, p, is, by)   == [do |-> "gep", dst |-> d, args |-> <<p>> \o is, strides |-> by]

Br(t)               == [kind |-> "br", args |-> <<>>, targets |-> <<t>>]
Cbr(c, yes, no)     == [kind |-> "cbr", args |-> <<c>>, targets |-> <<yes, no>>]
Switch(v, cases, t) == [kind |-> "switch", args |-> <<v>>, targets |-> t, cases |-> cases]
Ret(args)           == [kind |-> "ret", args |-> args, targets |-> <<>>]

Phi(d, from)           == [dst |-> d, from |-> from]
Code(phis, items, end) == [phis |-> phis, items |-> items, term |-> end]
Func(params, blocks)   == [params |-> params, pointers |-> {}, blocks |-> blocks]
Entry(blocks, domain, globals) ==
  [funcs |-> <<Func(<<>>, blocks)>>, domain |-> domain, globals |-> globals]

Ints   == {-1, 0, 1}
Floats == {NegZero, 1, NaN}
Bools  == {0, 1}

A == Val(1)
B == Val(2)
C == Val(3)

(* A condition: what its operands range over and the items that make it.    *)
Cond(domain, items, arg) == [domain |-> domain, items |-> items, arg |-> arg]

IntCond(p, l, r)   == Cond(Ints, <<Cmp(3, "int", p, l, r)>>, C)
FloatCond(p, l, r) == Cond(Floats, <<Cmp(3, "float", p, l, r)>>, C)

Conds ==
  {IntCond("eq", A, B), IntCond("lt", Lit(0), A), IntCond("ne", A, Lit(0)),
   IntCond("ult", A, Lit(1)), IntCond("uge", Lit(1), A), IntCond("ule", Lit(1), A),
   IntCond("ult", A, B), Cond(Bools, <<>>, A), Cond(Ints, <<>>, Lit(0))}
  \cup {FloatCond(p, A, B) : p \in {"oeq", "one", "olt", "ult", "ueq", "ord"}}
  \cup {FloatCond("uno", A, A), FloatCond("oge", Lit(NegZero), A)}

(* Condition, taken as a value as well as branched on. *)
Twice(c) == [c EXCEPT !.items = @ \o <<Write(<<@[1].args[1], C>>)>>]

Choosing(c) == [c EXCEPT !.items = @ \o <<Choose(4, C, A, Lit(NaN)), Write(<<Val(4), C>>)>>]

ChoosingOnly(c) ==
  Entry(<<Code(<<>>, <<Read(1), Read(2)>> \o c.items
                     \o <<Choose(4, C, A, B), Write(<<Val(4)>>)>>, Ret(<<>>))>>, c.domain, <<>>)

Head2(c) == <<Read(1), Read(2)>> \o c.items

(* 1 -> 2, 3; 2 -> 3, with an edge into phis that is split.                 *)
Triangle(c) ==
  Entry(<<Code(<<>>, Head2(c), Cbr(c.arg, 2, 3)),
          Code(<<>>, <<Write(<<A>>)>>, Br(3)),
          Code(<<Phi(5, <<<<1, A>>, <<2, B>>>>), Phi(6, <<<<1, Lit(NaN)>>, <<2, A>>>>)>>,
               <<Write(<<Val(5), Val(6)>>)>>, Ret(<<>>))>>, c.domain, <<>>)

(* The same with the ways round, and nothing on the one that falls through. *)
Turned(c) ==
  Entry(<<Code(<<>>, Head2(c), Cbr(c.arg, 3, 2)),
          Code(<<>>, <<>>, Br(3)),
          Code(<<>>, <<Write(<<A, B>>)>>, Ret(<<>>))>>, c.domain, <<1>>)

Diamond(c) ==
  Entry(<<Code(<<>>, Head2(c), Cbr(c.arg, 2, 3)),
          Code(<<>>, <<Freeze(7, A), Write(<<Val(7)>>)>>, Br(4)),
          Code(<<>>, <<Sleep>>, Br(4)),
          Code(<<Phi(5, <<<<2, Val(7)>>, <<3, Lit(NegZero)>>>>)>>,
               <<Write(<<Val(5), B>>)>>, Ret(<<>>))>>, c.domain, <<>>)

(* Both ways lead to one block. *)
Merged(c) ==
  Entry(<<Code(<<>>, Head2(c), Cbr(c.arg, 2, 2)),
          Code(<<Phi(5, <<<<1, A>>, <<1, A>>>>)>>, <<Write(<<Val(5)>>)>>, Ret(<<>>))>>,
        c.domain, <<>>)

(* A loop that trades two values while the one read says so.                *)
Trading(c, items) ==
  Entry(<<Code(<<>>, <<Read(11), Read(12)>>, Br(2)),
          Code(<<Phi(1, <<<<1, Val(11)>>, <<2, B>>>>), Phi(2, <<<<1, Val(12)>>, <<2, A>>>>)>>,
               c.items \o items, Cbr(c.arg, 2, 3)),
          Code(<<>>, <<Write(<<A, B>>)>>, Ret(<<>>))>>, c.domain, <<>>)

(* A loop left from its middle, laid out after the way out. *)
Waiting(c) ==
  Entry(<<Code(<<>>, <<Sleep>>, Br(3)),
          Code(<<>>, <<Write(<<A>>)>>, Ret(<<>>)),
          Code(<<>>, Head2(c), Cbr(c.arg, 2, 4)),
          Code(<<>>, <<Sleep>>, Br(3))>>, c.domain, <<1>>)

Switching(cases, targets) ==
  Entry(<<Code(<<>>, <<Read(1), Read(2)>>, Switch(A, cases, targets)),
          Code(<<Phi(5, <<<<1, B>>, <<1, B>>>>)>>, <<Write(<<Val(5)>>)>>, Br(3)),
          Code(<<Phi(6, <<<<1, A>>, <<2, Val(5)>>>>)>>, <<Write(<<Val(6)>>)>>, Ret(<<>>))>>,
        Ints, <<>>)

(* Blocks that hold nothing, up to the end of the program. *)
Hollow(last, data) ==
  Entry(<<Code(<<>>, <<>>, Br(3)),
          Code(<<>>, <<>>, Br(4)),
          Code(<<>>, last, Cbr(Lit(1), 2, 4)),
          Code(<<>>, <<>>, Ret(<<>>))>>, Ints, IF data THEN <<1>> ELSE <<>>)

(* The sleep that comes first is not in the first block. *)
LateSleep(data) ==
  Entry(<<Code(<<>>, <<>>, Br(2)), Code(<<>>, <<Sleep>>, Ret(<<>>))>>, Ints, IF data THEN <<1>> ELSE <<>>)

(* Three ways to one block, each of them empty once the next one is.        *)
Funnel ==
  Entry(<<Code(<<>>, Head2(IntCond("lt", A, B)), Cbr(C, 5, 4)),
          Code(<<>>, <<>>, Br(4)),
          Code(<<>>, <<>>, Br(4)),
          Code(<<>>, <<Write(<<A>>)>>, Ret(<<>>)),
          Code(<<>>, <<Sleep>>, Switch(A, <<0>>, <<2, 3>>))>>, Ints, <<>>)

(* An answer and its complement that end up in two registers.               *)
Apart(p) ==
  Entry(<<Code(<<>>, <<Read(1), Cmp(3, "float", p, A, A), Read(400),
                 Write(<<C, Val(400)>>)>>,
               Ret(<<>>))>>, Floats, <<>>)

(* Literals next to each other in one instruction. *)
Literals(args) ==
  Entry(<<Code(<<>>, <<Read(1), Write(args), Choose(4, A, args[1], args[2]), Write(<<Val(4)>>)>>,
               Ret(<<>>))>>, Bools, <<>>)

(* main calls 2, which may call 3 and return one of two values.             *)
Calling(c, last, data) ==
  [funcs |-> <<Func(<<>>,
      <<Code(<<>>, <<Read(11), Read(12), Call(3, 2, <<Val(12), Val(11)>>),
                     Write(<<C, Val(11), Val(12)>>), Call(4, 2, <<C, Lit(last)>>)>>,
             Ret(<<>>))>>),
    Func(<<1, 2>>,
      <<Code(<<>>, c.items, Cbr(c.arg, 2, 3)),
        Code(<<>>, <<Call(5, 3, <<A>>), Write(<<A, Val(5)>>), Call(6, 3, <<Val(5)>>)>>,
             Ret(<<Val(5)>>)),
        Code(<<>>, <<>>, Ret(<<B>>))>>),
    Func(<<1>>, <<Code(<<>>, <<Write(<<A>>)>>, Ret(<<Lit(last)>>))>>)>>,
   domain |-> c.domain, globals |-> IF data THEN <<1>> ELSE <<>>]

-----------------------------------------------------------------------------
(* Arithmetic *)

Straight(items, domain, globals) ==
  Entry(<<Code(<<>>, <<Read(1)>> \o items, Ret(<<>>))>>, domain, globals)

Dividing(by) ==
  Straight(<<Do("sdiv", 2, <<A, Lit(by)>>), Do("srem", 3, <<A, Lit(by)>>), Write(<<B, C>>)>>,
           {-3, 0, 2, 7}, <<>>)

Doubling(op) ==
  Entry(<<Code(<<>>, <<Read(1), Read(2), Do(op, 3, <<A, B>>), Do("fneg", 4, <<C>>),
                       Cmp(5, "float", "ult", Val(4), A), Choose(6, Val(5), Lit(1), Lit(0)),
                       Do("sext", 7, <<Val(5)>>), Write(<<C, Val(4), Val(6), Val(7)>>),
                       Cmp(8, "float", "ult", B, A), Choose(9, Val(8), Lit(1), Lit(0)),
                       Write(<<Val(9)>>)>>,
               Ret(<<>>))>>, Floats, <<>>)

(* What is left of a value once it has been masked. *)
Bitwise1 ==
  Straight(<<Masked(2, A, 3), Do("and", 3, <<B, Lit(7)>>), Do("or", 4, <<C, Lit(4)>>),
             Do("xor", 5, <<Lit(-1), Val(4)>>), Do("xor", 6, <<B, Val(5)>>),
             Do("shl", 7, <<B, Lit(2)>>), Do("ashr", 8, <<Val(5), Lit(1)>>),
             Write(<<C, Val(4), Val(5)>>), Write(<<Val(6), Val(7), Val(8)>>)>>,
           {-2, 0, 5, NaN}, <<>>)

(* What is no number, on its way through instructions over integers. *)
Undefined(op, by, end) ==
  Straight(<<Cmp(2, "int", "lt", A, Lit(1)), Choose(3, B, Lit(NaN), Lit(5)), Do("fptosi", 4, <<C>>),
             Do("xor", 5, <<Lit(-1), Val(4)>>), Do(op, 6, <<Val(4), Lit(by)>>),
             Write(<<Val(4), Val(5), Val(6)>>)>> \o end, {0, 1}, <<>>)

(* Masks over sums, products and choices, one bit short and just enough.    *)
Covered(mask) ==
  Straight(<<Masked(2, A, 3), Do("add", 3, <<B, Lit(2)>>), Do("mul", 4, <<C, Lit(3)>>),
             Cmp(5, "int", "lt", B, Lit(2)), Choose(6, Val(5), Val(4), Lit(9)),
             Do("and", 7, <<Val(6), Lit(mask)>>), Do("and", 8, <<C, Lit(mask)>>),
             Write(<<Val(7), Val(8)>>)>>, {0, 1, 2, 3}, <<>>)

(* Truth values cut from numbers, compared with each other and widened.     *)
Truths(p) ==
  Entry(<<Code(<<>>, <<Read(1), Read(2), Masked(3, A, 3), Masked(4, B, 3),
                       Do("trunc", 5, <<C>>), Do("trunc", 6, <<Val(4)>>),
                       Cmp(7, "truth", p, Val(5), Val(6)), Cmp(8, "samesign", "ugt", C, Val(4)),
                       Do("zext", 9, <<Val(7)>>), Choose(10, Val(8), Lit(1), Lit(0)),
                       Write(<<Val(9), Val(10)>>)>>, Cbr(Val(7), 2, 3)),
          Code(<<>>, <<Write(<<A>>)>>, Br(3)),
          Code(<<>>, <<Sleep>>, Ret(<<>>))>>, Ints, <<>>)

-----------------------------------------------------------------------------
(* Arrays.  Every index has been masked, as an address must be.             *)

Digits == {0, 1, 2, 3}

Within(globals, pointers, items) ==
  LET main == Straight(<<Masked(2, A, 1)>> \o items, Digits, globals)
  IN  [main EXCEPT !.funcs[1].pointers = pointers]

Through(p, q) == <<Store(A, p), Load(11, p), Load(12, q), Write(<<Val(11), Val(12)>>)>>

Indexing(g, is, by) ==
  Within(<<3, 4>>, {9}, <<Gep(9, Place(g, 8), is, by)>> \o Through(Val(9), Place(g, 16)))

(* Byte offsets, taken apart: shifted, added to, masked. *)
Shifted == Do("shl", 3, <<B, Lit(3)>>)
Further == Do("add", 4, <<C, Lit(8)>>)

Bytes(g, index, more) ==
  Within(<<3, 4>>, {9},
    <<Shifted, Further, Do("and", 5, <<C, Lit(24)>>), Do("sub", 6, <<Lit(16), C>>),
      Gep(9, Place(g, 0), <<index>>, <<1>>)>>
    \o Through(Val(9), Place(g, 8)) \o more)

(* A term of an address that another of its terms keeps.                    *)
Shared ==
  Within(<<3, 4>>, {9}, <<Shifted, Further, Gep(9, Place(2, 0), <<Val(4)>>, <<1>>)>>
                        \o Through(Val(9), Place(1, 8)) \o <<Write(<<Val(4)>>)>>)

(* Down from nothing, and up again. *)
Returning ==
  [Within(<<3, 4>>, {9},
     <<Shifted, Do("sub", 4, <<Lit(0), C>>), Masked(5, A, 2),
       Do("shl", 6, <<Val(5), Lit(3)>>), Do("add", 7, <<Val(4), Val(6)>>),
       Gep(9, Place(1, 0), <<Val(7)>>, <<1>>)>> \o Through(Val(9), Place(1, 8)))
   EXCEPT !.domain = {0, 2, 3}]

\* Masked before it is made a multiple of part of a slot, or of too small a part.
Halves(g, mask) ==
  Within(<<2, 3>>, {9}, <<Masked(3, A, 3), Do("and", 4, <<C, Lit(mask)>>),
                          Gep(9, Place(g, 0), <<Val(4)>>, <<4>>)>>
                        \o Through(Val(9), Place(g, 8)))

Plane == Within(<<1, 4>>, {9}, <<Gep(9, Place(2, 0), <<B, B>>, <<16, 8>>)>>
                               \o Through(Val(9), Place(2, 24)))

(* One pointer after another, the second from the first. *)
Onward(g, step) ==
  Within(<<3, 4>>, {8, 9}, <<Gep(8, Place(g, 0), <<B>>, <<8>>), Gep(9, Val(8), <<Lit(step)>>, <<8>>)>>
                           \o Through(Val(9), Val(8)))

(* A walk over an array, and how far it went. *)
Walking(g, div, by, l, r) ==
  LET main == Entry(
        <<Code(<<>>, <<Read(1)>>, Br(2)),
          Code(<<Phi(8, <<<<1, Place(g, 0)>>, <<3, Val(9)>>>>),
                 Phi(7, <<<<1, Place(g, 16)>>, <<3, Val(8)>>>>)>>,
               <<Cmp(4, "int", "eq", Val(8), Place(g, 16))>>, Cbr(Val(4), 4, 3)),
          Code(<<>>, <<Store(A, Val(8)), Gep(9, Val(8), <<Lit(1)>>, <<8>>)>>, Br(2)),
          Code(<<>>, <<Do("ptrtoint", 3, <<Val(8)>>), Do("ptrtoint", 12, <<Val(7)>>),
                       Do("sub", 5, <<l, r>>),
                       Do(div, 6, <<Val(5), Lit(by)>>), Load(11, Place(g, 8)),
                       Write(<<Val(6), Val(11)>>)>>, Ret(<<>>))>>, {3}, <<2, 4>>)
  IN  [main EXCEPT !.funcs[1].pointers = {7, 8, 9}]

-----------------------------------------------------------------------------
(* Pointers *)

(* Kept in a variable and fetched from it, set on one of two ways.          *)
Kept(p, q) ==
  LET main == Entry(
        <<Code(<<>>, <<Read(1), Alloca(21, 1), Store(p, Val(21)), Cmp(3, "int", "lt", A, Lit(1))>>,
               Cbr(C, 2, 3)),
          Code(<<>>, <<Store(q, Val(21))>>, Br(3)),
          Code(<<>>, <<Load(9, Val(21))>> \o Through(Val(9), Place(1, 8)), Ret(<<>>))>>,
        {0, 1}, <<2, 2>>)
  IN  [main EXCEPT !.funcs[1].pointers = {21, 9}]

(* Kept likewise, and set by way of a second variable that holds where.     *)
Redirected(p, q, more) ==
  LET main == Entry(
        <<Code(<<>>, <<Read(1), Alloca(21, 1), Alloca(22, 1), Store(p, Val(21)), Store(Val(21), Val(22)),
                       Load(8, Val(22))>> \o more \o <<Store(q, Val(8)), Load(9, Val(21))>>
                     \o Through(Val(9), Place(1, 8)), Ret(<<>>))>>, {0, 1}, <<2, 2>>)
  IN  [main EXCEPT !.funcs[1].pointers = {21, 22, 8, 9}]

(* Chosen by a phi and by a select. *)
Chosen(p, q) ==
  LET main == Entry(
        <<Code(<<>>, <<Read(1), Cmp(3, "int", "lt", A, Lit(1))>>, Cbr(C, 2, 3)),
          Code(<<>>, <<>>, Br(3)),
          Code(<<Phi(8, <<<<1, p>>, <<2, q>>>>)>>,
               <<Cmp(4, "int", "eq", A, Lit(0)), Choose(9, Val(4), p, Val(8))>>
               \o Through(Val(9), Place(1, 8)), Ret(<<>>))>>, {0, 1}, <<2, 2>>)
  IN  [main EXCEPT !.funcs[1].pointers = {8, 9}]

Called(params, pointers, blocks) == [params |-> params, pointers |-> pointers, blocks |-> blocks]

(* Handed to a function by two calls, which steps through it by itself.     *)
Handed(p, q, onward) ==
  [funcs |-> <<Func(<<>>,
      <<Code(<<>>, <<Read(11), Call(3, 2, <<p, Val(11)>>), Call(4, 2, <<q, Lit(0)>>),
                     Load(12, Place(1, 8)), Write(<<C, Val(4), Val(12)>>)>>, Ret(<<>>))>>),
    Called(<<1, 2>>, {1, 9},
      <<Code(<<>>, <<Cmp(3, "int", "lt", B, Lit(1)), Store(B, A)>>, Cbr(C, 3, 2)),
        Code(<<>>, <<Do("sub", 4, <<B, Lit(1)>>), Gep(9, A, <<Lit(onward)>>, <<8>>),
                     Call(5, 2, <<Val(9), Val(4)>>)>>, Ret(<<Val(5)>>)),
        Code(<<>>, <<Load(6, A)>>, Ret(<<Val(6)>>))>>)>>,
   domain |-> {0, 1}, globals |-> <<2, 2>>]

(* A local of a called function, which may call itself in a circle.         *)
Local(callee) ==
  [funcs |-> <<Func(<<>>,
      <<Code(<<>>, <<Read(11), Call(3, 2, <<Val(11)>>), Write(<<C>>)>>, Ret(<<>>))>>),
    Called(<<1>>, {21, 9},
      <<Code(<<>>, <<Alloca(21, 2), Masked(2, A, 1), Gep(9, Val(21), <<B>>, <<8>>),
                     Store(A, Val(21)), Store(A, Val(9)), Call(4, 3, <<A>>),
                     Load(5, Val(9)), Load(6, Val(21)), Write(<<Val(5), Val(6)>>)>>,
             Ret(<<Val(6)>>))>>),
    Func(<<1>>,
      <<Code(<<>>, <<Cmp(3, "int", "lt", A, Lit(1))>>, Cbr(C, 3, 2)),
        Code(<<>>, IF callee = 0 THEN <<Write(<<A>>)>> ELSE <<Call(4, callee, <<Lit(0)>>)>>,
             Ret(<<A>>)),
        Code(<<>>, <<>>, Ret(<<Lit(0)>>))>>)>>,
   domain |-> {0, 1}, globals |-> <<1>>]

(* A fixed access, as far as the data region goes, under calls or not.      *)
Edge(globals, at, calls) ==
  [funcs |-> <<Func(<<>>,
      <<Code(<<>>, <<Read(1), Store(A, at), Load(2, at), Write(<<B>>)>>
                   \o (IF calls THEN <<Call(3, 2, <<A>>)>> ELSE <<>>), Ret(<<>>))>>)>>
   \o IF ~calls THEN <<>>
      ELSE <<Func(<<1>>, <<Code(<<>>, <<Call(2, 3, <<A>>)>>, Ret(<<>>))>>),
             Func(<<1>>, <<Code(<<>>, <<Write(<<A>>)>>, Ret(<<>>))>>)>>,
   domain |-> {1}, globals |-> globals]

-----------------------------------------------------------------------------
(* A value a device answered, infinite or not, on its way to a mask.        *)

Open == {1, Infinity}

Carried(items, globals) ==
  Straight(items \o <<Do("and", 9, <<Val(8), Lit(3)>>), Write(<<Val(9)>>)>>, Open, globals)

\* Through a merge, with memory written by way of a merged pointer.
CarriedOver(phi, items) ==
  LET main == Entry(
        <<Code(<<>>, <<Read(1), Cmp(3, "float", "olt", A, Lit(2))>>, Cbr(C, 2, 3)),
          Code(<<>>, <<>>, Br(3)),
          Code(<<phi>>, items \o <<Do("and", 9, <<Val(8), Lit(3)>>), Write(<<Val(9)>>)>>,
               Ret(<<>>))>>, Open, <<2, 1>>)
  IN  [main EXCEPT !.funcs[1].pointers = {7}]

CarriedThrough(given, returned) ==
  [funcs |-> <<Func(<<>>,
      <<Code(<<>>, <<Read(1), Call(8, 2, <<given>>), Do("and", 9, <<Val(8), Lit(3)>>),
                     Write(<<Val(9)>>)>>, Ret(<<>>))>>),
    Func(<<1>>, <<Code(<<>>, <<Store(A, Place(1, 0)), Load(2, Place(2, 0))>>, Ret(<<returned>>))>>)>>,
   domain |-> Open, globals |-> <<1, 1>>]

Memory ==
  {Dividing(d) : d \in {2, -2, 3, -3}} \cup {Doubling(o) : o \in {"fadd", "fsub", "fmul"}}
  \cup {Bitwise1} \cup {Undefined(o, 2, <<>>) : o \in {"and", "or", "xor", "shl", "ashr"}} \cup {Covered(k) : k \in {7, 15, 8}}
  \cup {Truths(p) : p \in {"lt", "le", "ult", "uge", "eq"}}
  \cup {Indexing(g, is, by) : g \in {1, 2}, is \in {<<B>>}, by \in {<<8>>}}
  \cup {Indexing(2, <<Lit(0), B>>, <<16, 8>>)}
  \cup {Bytes(g, i, m) : g \in {1, 2}, i \in {Val(n) : n \in 3..6},
                         m \in {<<>>, <<Write(<<C>>)>>, <<Write(<<Val(4)>>)>>}}
  \cup {Halves(g, m) : g \in {1, 2}, m \in {1, 2}} \cup {Plane, Shared, Returning}
  \cup {Onward(g, s) : g \in {1, 2}, s \in {0, 1}}
  \cup {Walking(g, d[1], d[2], a[1], a[2]) :
          g \in {1, 2}, d \in {<<"sdiv", 8>>, <<"ashr", 3>>, <<"sdiv", 4>>},
          a \in {<<C, AddressOf(2, 0)>>, <<AddressOf(2, 16), C>>, <<C, Val(12)>>, <<C, Lit(0)>>,
                 <<Val(12), C>>}}
  \cup {Kept(Place(1, 0), Place(1, 8)), Kept(Place(1, 0), Place(2, 0))}
  \cup {Redirected(Place(1, 0), q, <<>>) : q \in {Place(1, 8), Place(2, 0)}}
  \cup {Redirected(Place(1, 0), Place(1, 8), <<Store(Place(2, 0), Val(21))>>)}
  \cup {Chosen(Place(1, 0), Place(1, 8)), Chosen(Place(1, 0), Place(2, 0))}
  \cup {Handed(Place(1, 0), Place(1, 8), s) : s \in {0, 1}} \cup {Handed(Place(1, 0), Place(2, 0), 0)}
  \cup {Local(c) : c \in {0, 2}}
  \cup {Edge(<<2, 1>>, Place(1, at), FALSE) : at \in {-8, 0, 8, 16}}
  \cup {Edge(<<12>>, Place(1, 88), c) : c \in BOOLEAN} \cup {Edge(<<13>>, Place(1, 0), FALSE)}
  \cup {Carried(<<Do(o, 8, <<A>>)>>, <<>>) : o \in {"freeze", "fneg"}}
  \cup {Carried(<<Do("fdiv", 8, <<A, Lit(0)>>)>>, <<>>)}
  \cup {Carried(<<Store(A, Place(1, 0)), Load(8, Place(g, 0))>>, <<1, 1>>) : g \in {1, 2}}
  \cup {CarriedOver(Phi(8, <<<<1, A>>, <<2, Lit(1)>>>>), <<>>),
        CarriedOver(Phi(7, <<<<1, Place(1, 0)>>, <<2, Place(1, 8)>>>>),
                    <<Store(A, Val(7)), Load(8, Place(1, 0))>>)}
  \cup {CarriedThrough(g, r) : g \in {A, Lit(1)}, r \in {A, B}}

-----------------------------------------------------------------------------
(* A device hash, which the chip narrows without a check, from a reading    *)
(* and what the program tests of it first.                                  *)

Readings == {-9, -8, 0, 2, 7, 8, NaN, Infinity}

Batch(hash) == Do("batch", 0, <<hash, Lit(1)>>)

Naming(items, hash, domain) ==
  Straight(items \o <<Do("fptosi", 30, <<hash>>), Batch(Val(30))>>, domain, <<>>)

(* Tests leave their answer in 4, the arm they admit its value in 6.        *)
Compared(d, p, l, r) == Cmp(d, "float", p, l, r)
Both(low, high)      == <<low, high, Do("and", 4, <<B, C>>)>>
Range(lp, lo, hp, hi) == Both(Compared(2, lp, A, Lit(lo)), Compared(3, hp, A, Lit(hi)))
From(lo, hi)         == Range("oge", lo, "ole", hi)
Amid(lo, hi)         == Range("ogt", lo, "olt", hi)
Whole(a)             == <<Do("ictrunc", 6, <<a>>)>>
Arm(op, l, r)        == <<Do(op, 5, <<l, r>>)>> \o Whole(Val(5))

Tested(tests, arm, other) ==
  Naming(tests \o arm \o <<Choose(8, Val(4), Val(6), other)>>, Val(8), Readings)

(* What is done to the value once it has been admitted.                     *)
Admitted(tests, other, more) ==
  Naming(tests \o Whole(A) \o <<Choose(8, Val(4), Val(6), other)>> \o more, Val(9), Readings)

Magnitudes(p, limit) == <<Do("icabs", 2, <<A>>), Compared(4, p, B, Lit(limit))>>

(* One test under another. *)
Nested(outer, inner) ==
  Naming(outer \o <<Compared(12, inner[1], A, Lit(inner[2])), Compared(13, inner[3], A, Lit(inner[4])),
                    Choose(14, Val(12), Val(13), Lit(0)), Do("fmul", 5, <<A, Lit(2)>>),
                    Choose(6, Val(14), Val(5), Lit(0)), Choose(8, Val(4), Val(6), Lit(0)),
                    Do("ictrunc", 9, <<Val(8)>>)>>, Val(9), Readings)

(* Two readings, each tested by itself. *)
Scaling2(op, l, r) ==
  Naming(From(l[1], l[2])
         \o <<Read(21), Compared(22, "oge", Val(21), Lit(r[1])), Compared(23, "ole", Val(21), Lit(r[2])),
              Choose(24, Val(22), Val(23), Lit(0)), Choose(25, Val(24), Val(21), Lit(r[1])),
              Choose(8, Val(4), A, Lit(0)), Do(op, 9, <<Val(8), Val(25)>>)>>, Val(9),
         {-5, 1, 3, NaN})

(* A counter that names a batch on every turn, shifted by a distance.       *)
Counting(start, last, op, by, lo, hi) ==
  Entry(<<Code(<<>>, <<Read(1)>> \o From(lo, hi) \o <<Choose(5, Val(4), A, Lit(lo))>>, Br(2)),
          Code(<<Phi(6, <<<<1, Lit(start)>>, <<2, Val(8)>>>>)>>,
               <<Do(op, 7, <<Val(6), by>>), Batch(Val(7)), Do("add", 8, <<Val(6), Lit(1)>>),
                 Cmp(9, "int", "lt", Val(8), Lit(last))>>, Cbr(Val(9), 2, 3)),
          Code(<<>>, <<>>, Ret(<<>>))>>, {1, 3, NaN}, <<>>)

(* Out of the range by arithmetic over a value no test bounds. *)
Growth(op) ==
  Straight(<<Store(Lit(5), Place(1, 0)), Load(8, Place(1, 0)), Do("shl", 9, <<Val(8), Lit(1)>>),
             Do(op, 10, <<Val(8), Val(9)>>), Batch(Val(10))>>, Bools, <<1>>)

(* Through memory, and through a function that hands it back or does not.   *)
Remembered(stored, fetched) ==
  Straight(Amid(-9, 8) \o Whole(A)
           \o <<Choose(8, Val(4), Val(6), Lit(0)), Store(stored, Place(1, 0)),
                Load(9, Place(fetched, 0)), Batch(Val(9))>>, {7, 8, NaN}, <<1, 1>>)

HandedOn(given, back) ==
  [funcs |-> <<Func(<<>>,
      <<Code(<<>>, <<Read(1)>> \o Amid(-9, 8) \o Whole(A)
                   \o <<Choose(8, Val(4), Val(6), Lit(0)), Call(9, 2, <<given>>), Batch(Val(9))>>,
             Ret(<<>>))>>),
    Func(<<1>>, <<Code(<<>>, <<Write(<<A>>)>>, Ret(<<back>>))>>)>>,
   domain |-> {7, 8, NaN}, globals |-> <<>>]

Ends == {From(-8, 7), From(-8, 8), From(-9, 7), Amid(-9, 8), Amid(-10, 8), Amid(-9, 9),
         Range("ugt", -9, "olt", 8), Range("oge", -8, "ult", 8), Range("uge", -8, "ule", 7),
         Range("oge", 9, "ole", 2),
         Both(Compared(2, "olt", Lit(-9), A), Compared(3, "ogt", Lit(8), A)),
         Both(Compared(2, "olt", A, Lit(8)), Compared(3, "ole", A, Lit(7))),
         <<Compared(2, "ogt", A, Lit(-9)), Compared(3, "olt", A, Lit(8)), Choose(4, B, C, Lit(0))>>,
         <<Compared(2, "ogt", A, Lit(-9)), Compared(3, "olt", A, Lit(8)), Choose(4, B, Lit(1), C)>>,
         <<Compared(2, "ogt", A, Lit(-9)), Compared(3, "olt", A, Lit(8)), Choose(4, B, C, Lit(1))>>,
         <<Compared(4, "olt", A, Lit(8))>>}
        \cup {Magnitudes(p, 8) : p \in {"olt", "ole"}} \cup {Magnitudes("ogt", 3)}

Named ==
  {Tested(e, Whole(A), Lit(0)) : e \in Ends}
  \cup {Tested(From(-8, 7), Whole(A), o) : o \in {A, Lit(-8), Lit(9), Lit(NaN)}}
  \cup {Naming(Amid(-9, 8) \o <<Choose(8, Val(4), c[1], c[2])>>, Val(8), Readings) :
          c \in {<<A, Lit(0)>>, <<Lit(0), A>>}}
  \cup {Tested(Amid(-b, b), Arm(o[1], o[2], o[3]), Lit(0)) :
          b \in {3, 8}, o \in {<<"fadd", A, Lit(1)>>, <<"fmul", Lit(2), A>>, <<"fmul", A, A>>,
                               <<"fsub", Lit(4), A>>, <<"fdiv", A, Lit(-2)>>, <<"fdiv", Lit(6), A>>}}
  \cup {Tested(From(lo, 0), <<Do("fneg", 6, <<A>>)>>, Lit(0)) : lo \in {-7, -8}}
  \cup {Admitted(From(0, hi), Lit(0), <<Do("fadd", 9, <<Val(8), Val(8)>>)>>) : hi \in {3, 4}}
  \cup {Admitted(From(lo, 7), Lit(1), <<Do("fdiv", 10, <<Lit(by), Val(8)>>),
                                       Do("ictrunc", 9, <<Val(10)>>)>>) : lo \in {0, 1}, by \in {7, 8}}
  \cup {Admitted(From(lo, hi), Lit(1), <<Do("fptosi", 10, <<Val(8)>>), Do("icshl", 9, <<Lit(1), Val(10)>>)>>) :
          lo \in {-1, 0}, hi \in {2, 3}}
  \cup {Admitted(Amid(-9, 8), Lit(0), <<Do("sitofp", 10, <<Val(8)>>), Freeze(11, Val(10)),
                                       Do("icabs", 9, <<Val(11)>>)>>),
        Admitted(From(-7, 7), Lit(0), <<Do("icabs", 9, <<Val(8)>>)>>)}
  \cup {Nested(Amid(-9, 4), i) : i \in {<<"ogt", -4, "olt", 8>>, <<"ogt", -6, "olt", 8>>}}
  \cup {Scaling2("fmul", l, r) : l \in {<<-5, 1>>, <<-1, 2>>}, r \in {<<1, 3>>, <<-1, 1>>}}
  \cup {Scaling2("icshl", <<-1, 1>>, <<1, 2>>),
        Scaling2("icshl", <<-1, 1>>, <<-1, 1>>)}
  \cup {Counting(s, 3, o, Lit(1), 1, 1) : s \in {0, 9}, o \in {"shl", "ashr"}}
  \cup {Counting(6, 9, o, Lit(1), 1, 1) : o \in {"shl", "ashr"}} \cup {Growth(o) : o \in {"add", "xor"}}
  \cup {Counting(0, 2, "icshl", Val(5), 1, hi) : hi \in {2, 4}}
  \cup {Remembered(v, g) : v \in {Val(8), A}, g \in {1, 2}}
  \cup {HandedOn(g, b) : g \in {Val(8), A}, b \in {A, Lit(7), Lit(8)}}
  \cup {Naming(<<Do(o, 9, <<A, Lit(3)>>)>>, Val(9), {2, NaN}) : o \in {"icand", "ashr"}}
  \cup {Undefined("ashr", n, <<Batch(Val(6))>>) : n \in {1, 3}}
  \cup {Straight(<<Batch(Lit(v))>>, Bools, <<>>) : v \in {-9, -8, 7, 8, NaN}}
  \cup {Straight(<<Masked(2, A, 1), Do("icshl", 3, <<B, Lit(n)>>), Write(<<C>>)>>, Bools, <<>>) :
          n \in {1, 3, 4, -1}}
  \cup {Straight(<<Masked(2, A, 1), Do("or", 3, <<B, Lit(Infinity)>>), Write(<<C>>)>>, Bools, <<>>)}

CmpConds == {c \in Conds : c.items # <<>>}

MCSources ==
  Memory \cup Named \cup
  UNION {{Triangle(c), Turned(c), Diamond(c)} : c \in Conds}
  \cup {Merged(c) : c \in {IntCond("eq", A, B), FloatCond("uno", A, B)}}
  \cup UNION {{Triangle(Twice(c)), Turned(Choosing(c)), ChoosingOnly(c)} : c \in CmpConds}
  \cup UNION {{Trading(c, <<>>), Trading(c, <<Write(<<B, A>>)>>), Waiting(c)} :
                c \in {IntCond("lt", A, B), IntCond("ult", B, Lit(1)), FloatCond("ult", A, B)}}
  \cup {Switching(<<0, 1>>, <<3, 2, 2>>), Switching(<<1, 0>>, <<2, 3, 2>>),
        Switching(<<0>>, <<2, 2>>)}
  \cup {Hollow(l, d) : l \in {<<>>, <<Sleep>>}, d \in BOOLEAN}
  \cup {LateSleep(d) : d \in BOOLEAN} \cup {Funnel, Apart("ult"), Apart("ueq"), Apart("ord")}
  \cup {Literals(a) : a \in {<<Lit(NaN), Lit(NegZero)>>, <<Lit(NegZero), Lit(NegZero)>>,
                             <<A, Lit(NaN)>>}}
  \cup {Calling(IntCond("lt", A, B), 0, d) : d \in BOOLEAN}
  \cup {Calling(FloatCond("ueq", A, B), NaN, FALSE)}
=============================================================================

--------------------------- MODULE CompositionMC ---------------------------
(***************************************************************************)
(* Subnet `pipe` has ports and a channel, `pool` has ports, `tap` has no   *)
(* interface, `mix` is composed directly.  The host joins, merges, fuses   *)
(* and nests them; at the second level the net built first is a subnet.    *)
(***************************************************************************)
EXTENDS Composition

Name(s) == <<s>>

Blank(id) ==
  [name |-> Name(id), ins |-> <<>>, out |-> NoOut, reads |-> {}, inhs |-> {}, resets |-> {},
   timing |-> "immediate", prio |-> 0, keys |-> <<>>, relays |-> <<>>, alias |-> NoMap,
   acts |-> <<id>>, parts |-> <<[orig |-> id, at |-> <<>>]>>]

In(p, type, n) == [place |-> Name(p), type |-> type, n |-> n]

OneOf(p) == In(p, "one", 1)

To(p) == [branches |-> <<<<Name(p)>>>>, late |-> <<>>]

\* XOR of two places, with a timeout that forwards an input.
Either(p, q, from, to) ==
  [branches |-> <<<<Name(p)>>, <<Name(q)>>, <<Name(to)>>>>,
   late |-> <<<<[to |-> Name(to), from |-> Name(from), forward |-> TRUE]>>>>]

T(id) ==
  CASE id = "take" -> [Blank(id) EXCEPT !.ins = <<OneOf("in")>>, !.out = To("mid"), !.reads = {Name("cfg")}]
    [] id = "give" -> [Blank(id) EXCEPT !.ins = <<OneOf("mid")>>, !.out = To("out"), !.timing = "delayed"]
    [] id = "slot" -> [Blank(id) EXCEPT !.ins = <<In("req", "at-least", 1), OneOf("free")>>, !.out = To("busy"),
                                        !.inhs = {Name("shut")}]
    [] id = "done" -> [Blank(id) EXCEPT !.ins = <<OneOf("busy")>>, !.out = Either("free", "shut", "busy", "lost")]
    [] id = "tap"  -> [Blank(id) EXCEPT !.ins = <<OneOf("A")>>, !.out = To("seen"), !.resets = {Name("seen")}]
    [] id = "mix"  -> [Blank(id) EXCEPT !.ins = <<OneOf("A"), In("B", "exactly", 2)>>, !.out = To("sink")]
    [] id = "host" -> [Blank(id) EXCEPT !.ins = <<OneOf("A")>>, !.out = To("B"), !.timing = "delayed"]
    [] id = "pair" -> [Blank(id) EXCEPT !.ins = <<OneOf("A"), OneOf("B")>>, !.out = To("C"),
                                        !.keys = <<Name("A"), Name("B")>>, !.relays = <<Name("C")>>]
    [] id = "sync" -> [Blank(id) EXCEPT !.ins = <<OneOf("B")>>, !.out = To("C")]
    [] id = "late" -> [Blank(id) EXCEPT !.ins = <<OneOf("C")>>, !.resets = {<<"a", "in">>}]
    [] id = "post" -> [Blank(id) EXCEPT !.ins = <<OneOf("A")>>, !.out = To("D"), !.reads = {Name("C")}]
    [] OTHER       -> [Blank(id) EXCEPT !.ins = <<In("C", "at-least", 2), In("D", "at-least", 1)>>]

AuthoredDef ==
  [id \in {"take", "give", "slot", "done", "tap", "mix", "host", "pair", "sync", "late", "post", "last"} |-> T(id)]

Body(ids) ==
  [places |-> UNION {ArcPlaces(T(id)) : id \in ids}, trans |-> {T(id) : id \in ids},
   terminals |-> {}, glue |-> {}]

Port(p, dir) == [place |-> Name(p), dir |-> dir]

Ports(in, out) == [n \in {"in", "out"} |-> IF n = "in" THEN Port(in, "input") ELSE Port(out, "output")]

Subnet(ids, ports, chans) == [body |-> Body(ids), ports |-> ports, chans |-> chans]

Go(t) == [c \in {"go"} |-> Name(t)]

DefsDef ==
  [d \in {"pipe", "pool", "tap", "mix"} |->
     CASE d = "pipe" -> Subnet({"take", "give"}, Ports("in", "out"), Go("take"))
       [] d = "pool" -> Subnet({"slot", "done"}, Ports("req", "busy"), NoMap)
       [] d = "tap"  -> Subnet({"tap"}, NoMap, NoMap)
       [] OTHER      -> Subnet({"mix"}, NoMap, NoMap)]

Bind(in, out) == [n \in {"in", "out"} |-> IF n = "in" THEN Name(in) ELSE Name(out)]

InOnly(p) == [n \in {"in"} |-> p]

Call(kind, def, prefix, bind, chans) ==
  [kind |-> kind, def |-> def, prefix |-> prefix, bind |-> bind, chans |-> chans, acts |-> NoMap]

Add(t) == [kind |-> "add", t |-> t]

FuseOf(members) == [kind |-> "fuse", members |-> members]

InnerInterface ==
  [kind |-> "interface", ports |-> Ports("A", "C"), chans |-> NoMap]

ActFor(t) == [n \in {Name(t)} |-> "bound"]

ScriptDef ==
  <<{Add("host"), Add("pair"), Add("late"),
     Call("compose", "pipe", "a", Bind("A", "C"), <<<<"go", "sync">>>>),
     [Call("compose", "pool", "p", InOnly(Name("C")), <<>>) EXCEPT !.acts = ActFor("slot")],
     Call("auto", "tap", "t", NoMap, <<>>), Call("direct", "mix", "", NoMap, <<>>),
     FuseOf(<<Name("B"), <<"p", "free">>>>), FuseOf(<<Name("A"), Name("B")>>),
     [kind |-> "terminal", place |-> Name("sink")],
     [kind |-> "verify", def |-> "pool", generators |-> {"in"}],
     [kind |-> "bind", acts |-> ActFor("host")]},
    {InnerInterface, Add("last"), Add("post"),
     Call("compose", "inner", "o", InOnly(Name("C")), <<>>), Call("compose", "inner", "q", Bind("A", "D"), <<>>),
     Call("auto", "inner", "u", NoMap, <<>>), Call("direct", "inner", "", NoMap, <<>>),
     FuseOf(<<Name("D"), Name("C"), <<"o", "B">>>>)}>>

BoundDef == <<5, 4>>
=============================================================================

---------------------------- MODULE MCValidator ----------------------------
(* Definitions with a class for each kind of rule, literals included, and    *)
(* one of another version; for each, values that its rules tell apart.       *)
EXTENDS Validator

N(n) == Number("unsigned", n)
T(text) == String(text)
A(list) == Array(list)
M(k, v) == WithKey(k, v)
O(members) == Object(members)

\* Names of members and classes, characters of texts.
a == 97
b == 98
c == 99
d == 100
e == 101
f == 102
g == 103
h == 104
i == 105
j == 106
k == 107
l == 108
m == 109
n == 110
o == 111
p == 112
q == 113
r == 114
s == 115
t == 116
u == 117
v == 118
w == 119
y == 121
z == 122
brace == 123
one == 49
dot == 46
X == <<This + 1>>
G == <<This + 2>>

MCNative(x, name) == x.type = "number" /\ x.n > 0

AllClasses == <<
  M(a, A(<<W("string"), W("number")>>)),
  M(b, O(<<M(Percent, W("boolean")), M(a, W("number")),
           M(b, A(<<W("string"), W("optional")>>))>>)),
  M(c, A(<<A(<<>>), W("number"), T(<<b>>)>>)),
  M(d, A(<<A(<<N(2)>>), W("number"), W("any"), W("boolean"), T(<<c>>)>>)),
  M(e, A(<<W("all"), A(<<W("minsize"), N(2)>>), T(<<CommentEscape, a>>), W("hex")>>)),
  M(f, A(<<W(">="), N(1), W("<"), N(3), W("integer")>>)),
  M(g, A(<<W("setvar"), T(X), O(<<M(a, W("any")), M(b, A(<<T(X), T(<<a>>)>>))>>)>>)),
  M(h, A(<<W("explode"), T(<<dot>>), A(<<A(<<>>), W("digits")>>)>>)),
  M(i, A(<<W("prefix"), T(<<a>>), W("digits"), A(<<W("not"), W("nonempty")>>)>>)),
  M(j, A(<<W("suffix"), A(<<N(1)>>), T(<<c>>)>>)),
  M(k, A(<<W("not"), W("string"), T(<<c>>)>>)),
  M(l, A(<<A(<<>>), A(<<W("emit"), A(<<T(<<This>>)>>), W("number")>>), W("string")>>)),
  M(m, O(<<M(PercentTwice, W("number")), M(a, T(<<l>>))>>)),
  M(n, A(<<W("usevar"), T(G), T(<<f>>)>>)),
  M(o, A(<<W("setvar"), T(X), W("number"), T(<<z>>)>>)),
  M(p, A(<<W("date"), T(<<CharSetBegin, a, 45, c, one, dot, CharSetEnd>>)>>)),
  M(q, A(<<A(<<>>), O(<<M(Percent, A(<<W("key"), T(<<ValueEscape, a>>)>>))>>)>>)),
  M(r, A(<<W("split"), N(1), A(<<A(<<>>), W("number")>>), T(<<q>>)>>)),
  M(s, W("native")),
  M(t, A(<<A(<<>>), T(<<s>>), A(<<W("tonumber"), A(<<W(">"), N(0)>>)>>), Null>>)),
  M(u, A(<<W("all"), A(<<W("maxsize"), A(<<T(G)>>)>>), A(<<W("not"), W("empty")>>)>>)),
  M(v, A(<<W("explode"), T(<<dot>>), A(<<A(<<N(1)>>), W("digits"), T(<<ValueEscape, a>>)>>),
           N(1)>>)),
  M(w, Null),
  M(y, A(<<A(<<>>), W("number"), Null>>)),
  M(brace, O(<<M(a, Null), M(b, A(<<T(<<y>>), A(<<>>), N(1)>>))>>))>>
Class(names) == O(SelectSeq(AllClasses, LAMBDA x : x.key \in names))
MCPlain == {a, b, c, d, e, f, k, l, m, q, s, w, y, brace}

MCSubjects ==
  Class({a, c, d, j, k}) :>
    {Boolean(TRUE), T(<<a>>), N(2), A(<<>>), A(<<N(1), T(<<b>>)>>), A(<<N(2), Null, Boolean(TRUE)>>),
     A(<<N(1), Null, A(<<N(1)>>)>>), A(<<N(2), T(<<a>>), N(1)>>), A(<<N(0)>>), O(<<M(a, N(1))>>)} @@
  Class({b, l, m, q}) :>
    {Null, O(<<>>), O(<<M(a, N(1))>>), O(<<M(a, N(1)), M(b, N(1))>>),
     O(<<M(a, A(<<N(2), T(<<a>>)>>)), M(b, T(<<a>>)), M(c, N(1))>>),
     O(<<M(a, N(2)), M(b, T(<<b>>)), M(c, Boolean(TRUE))>>),
     O(<<M(Percent, N(1)), M(a, A(<<N(2)>>))>>), O(<<M(Percent, T(<<a>>))>>),
     A(<<N(1), T(<<>>)>>), A(<<N(1), Null>>), A(<<O(<<M(a, Null)>>), O(<<M(a, N(1)), M(b, N(1))>>)>>)} @@
  Class({f, g, n, o}) :>
    {Null, N(0), N(2), N(3), T(<<>>), O(<<M(a, N(1)), M(b, N(1))>>), O(<<M(a, N(1)), M(b, N(2))>>),
     O(<<M(a, N(2)), M(c, N(1))>>)} @@
  Class({e, h, i, p, v}) :>
    {N(7), T(<<>>), T(<<a, one>>), T(<<a>>), T(<<one, dot, one>>), T(<<one, dot, a>>),
     T(<<50, 48, 50, 48, 45, 48, 50, 45, 50, 57>>), T(<<50, 49, 48, 48, 45, 48, 50, 45, 50, 57>>)} @@
  Class({q, r, s, t, u}) :>
    {Null, N(0), N(2), T(<<one>>), A(<<N(2), T(<<one>>), Null>>), A(<<N(1), O(<<M(a, Null)>>)>>),
     A(<<N(0), O(<<M(a, N(1)), M(b, N(1))>>)>>), A(<<N(1), N(2)>>)} @@
  Class({w, y, brace}) :>
    {Null, N(1), A(<<>>), A(<<Null, T(<<a>>)>>), A(<<N(1), Null>>), O(<<M(a, N(1))>>),
     O(<<M(a, Null), M(b, N(1))>>), O(<<M(a, Null), M(b, A(<<T(<<b>>)>>))>>)} @@
  O(<<M(Version, N(2)), M(a, W("any"))>>) :>
    {Null}
MCVariables == {<<>>, <<M(This + 2, N(2))>>}
=============================================================================

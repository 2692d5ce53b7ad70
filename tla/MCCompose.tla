------------------------------- MODULE MCCompose -------------------------------
(***************************************************************************)
(* Instances of Compose for TLC: two addresses, one of them in two cases.  *)
(***************************************************************************)
EXTENDS Compose

MCCells == {Address("a", FALSE), Address("a", TRUE), Address("b", FALSE),
            Plain("header"), Plain("blank"), Plain("other")}

a == <<Address("a", FALSE)>>
A == <<Address("a", TRUE)>>
b == <<Address("b", FALSE)>>
other == <<Plain("other")>>
header == <<Plain("header")>>

Rows == BoundedSeq(MCCells, 2) \ {<<>>}

\* Files of two rows, and of three behind a header or what hides one.
Pairs(seconds) == {<<first, second>>: first \in Rows, second \in seconds}
Headers == {header, other \o header, <<Plain("blank"), Plain("blank")>>}
Headed == {<<first>> \o pair: first \in Headers, pair \in Pairs({other \o a})}

MCFiles == BoundedSeq(Rows, 1) \union Pairs({A, other \o a, header \o b}) \union Headed

\* One file at hand; or several to replace each other: an address, two that are
\* one, none, and one behind a header.
MCFolders == {{file}: file \in MCFiles} \union {{<<a>>, <<a, A>>, <<other>>, <<header, b>>}}

MCTexts == {A \o a \o other}
===============================================================================

----------------------------- MODULE MCListening -----------------------------
(* Listen tasks of every strategy on two types of event and one key.       *)
EXTENDS Listening, TLC

CONSTANTS order, payment, id, x, y

Types  == {order, payment}
Keys   == {id}
Values == {x, y}
Events == [type : Types, key : [Keys -> Values]]

Free     == [k \in Keys |-> Unset]
Expect_x == [k \in Keys |-> x]

Filter(types, keys, expect) == [types |-> types, keys |-> keys, expect |-> expect]
Listen(strategy, filters, until, count) ==
    [strategy |-> strategy, filters |-> filters, until |-> until, enough |-> count]

Order   == Filter({order}, Keys, Free)
Payment == Filter({payment}, Keys, Free)
OrderX  == Filter({order}, Keys, Expect_x)
AnyPay  == Filter({payment}, {}, Free)
Either  == Filter(Types, Keys, Free)

Tasks == {
    Listen("one", <<OrderX>>, <<>>, 0),
    Listen("one", <<OrderX, AnyPay>>, <<>>, 0),
    Listen("one", <<>>, <<>>, 0),
    Listen("one", <<Order>>, <<Payment>>, 0),
    Listen("one", <<Order>>, <<>>, 2),
    Listen("all", <<Order, Payment>>, <<>>, 0),
    Listen("all", <<OrderX, AnyPay>>, <<>>, 0),
    Listen("all", <<OrderX, Either>>, <<Payment>>, 0),
    Listen("all", <<Order, Payment, Either>>, <<>>, 0) }

=============================================================================

------------------------------ MODULE MCTools ------------------------------
(* A small shop for the tools: two tables in the default namespace that share *)
(* a foreign key, a second namespace with an orders table of its own, to      *)
(* which a key of the first refers too, and two later states of it.           *)
EXTENDS Tools

N(words)      == [w |-> words, s |-> FALSE, up |-> FALSE]
Plural(words) == [w |-> words, s |-> TRUE, up |-> FALSE]
Upper(n)      == [n EXCEPT !.up = TRUE]

users   == Plural(<<"user">>)
orders  == Plural(<<"order">>)
tb_user == N(<<"tb", "user">>)
id      == N(<<"id">>)
user_id == N(<<"user", "id">>)
email   == N(<<"email">>)
created == N(<<"created", "at">>)
buyer   == N(<<"buyer">>)

Col(n, type, comment) == [name |-> n, type |-> {type}, comment |-> comment]
V(t, v) == [t |-> t, v |-> v]
Table(ns, n, cols, pk, fks, indexes, rows) ==
    [ns |-> ns, name |-> n, comment |-> {}, count |-> Len(rows), cols |-> cols, pk |-> pk, fks |-> fks,
     indexes |-> indexes, rows |-> rows, slowlog |-> n = users]
Pk(name, cols) == [name |-> name, cols |-> cols]
Index(name, cols, incl, used) == [name |-> name, cols |-> cols, incl |-> incl, unique |-> FALSE, used |-> used]
OrderFk == [name |-> "orders_user_fk", cols |-> <<user_id>>, ref |-> users, refNs |-> "shop",
            refCols |-> <<id>>, key |-> "users_pk"]
RawFk   == [name |-> "orders_raw_fk", cols |-> <<buyer>>, ref |-> orders, refNs |-> "raw",
            refCols |-> <<id>>, key |-> "orders_pk"]

Users(mail, type) ==
    Table("shop", users, <<Col(id, "int", {}), Col(mail, type, {"user", "name", "mail"})>>, Pk("users_pk", <<id>>), <<>>,
          <<Index("PRIMARY", <<id>>, <<>>, 4), Index("ix_mail", <<mail>>, <<>>, 0)>>,
          << (id :> V("int", "1") @@ mail :> V("null", "")), (id :> V("int", "2") @@ mail :> V("str", "a")),
             (id :> V("int", "3") @@ mail :> V("str", "a")), (id :> V("int", "4") @@ mail :> V("str", "b")) >>)

Orders(keys, fks) ==
    Table("shop", orders, <<Col(id, "int", {}), Col(user_id, "int", {}), Col(buyer, "text", {"user", "name"}),
                            Col(created, "date", {})>>,
          Pk("orders_pk", keys), fks, <<Index("PRIMARY", keys, <<>>, 1), Index("ix_user", <<user_id>>, <<created>>, 2)>>,
          << (id :> V("int", "1") @@ user_id :> V("int", "9") @@ buyer :> V("str", "a") @@ created :> V("date", "d")) >>)

RawOrders(key) ==
    Table("raw", orders, <<Col(id, "text", {}), Col(N(<<"amount">>), "num", {})>>, Pk(key, <<id>>), <<>>, <<>>,
          << (id :> V("str", "x") @@ N(<<"amount">>) :> V("null", "")) >>)

TbUser == Table("shop", tb_user, <<Col(id, "text", {}), Col(Upper(email), "text", {})>>, Pk("tb_user_pk", <<>>), <<>>, <<>>,
                << (id :> V("str", "q") @@ Upper(email) :> V("str", "b")) >>)

-----------------------------------------------------------------------------
W(v, word)  == [k |-> "word", v |-> v, n |-> N(<<word>>), q |-> FALSE]
I(n)        == [k |-> "word", v |-> "", n |-> n, q |-> FALSE]
Sign(v)     == [k |-> "sign", v |-> v, n |-> Empty, q |-> FALSE]
Quoted(s)   == <<Sign("'")>> \o [i \in DOMAIN s |-> [s[i] EXCEPT !.q = TRUE]] \o <<Sign("'")>>
Eq          == [Sign("=") EXCEPT !.k = "op"]
Star        == Sign("*")
Dot         == Sign(".")
Open        == Sign("(")
Close       == Sign(")")
One         == Sign("1")
Semi        == Sign(";")
select      == W("SELECT", "select")
from        == W("FROM", "from")
where       == W("WHERE", "where")
in          == W("IN", "in")
o           == N(<<"o">>)

(* SELECT * FROM users WHERE EMAIL = 'mail in trash from nope'                *)
(* OR user_id NOT IN (1) ORDER BY buyer DESC                                  *)
ByMail == <<select, Star, from, I(users), where, I(Upper(email)), Eq>>
          \o Quoted(<<I(N(<<"mail">>)), in, I(N(<<"trash">>)), from, I(N(<<"nope">>))>>)
          \o <<W("OR", "or"), I(user_id), W("NOT", "not"), in, Open, One, Close,
               W("ORDER BY", "order"), I(buyer), W("DESC", "desc")>>
(* SELECT DISTINCT o.buyer FROM orders o JOIN users ON o.user_id =            *)
(* shop.users.id WHERE LOWER(buyer) = 1 ORDER BY o.created_at;                *)
Joined == <<select, W("DISTINCT", "distinct"), I(o), Dot, I(buyer), from, I(orders), I(o), W("JOIN", "join"), I(users),
            W("ON", "on"), I(o), Dot, I(user_id), Eq, I(N(<<"shop">>)), Dot, I(users), Dot, I(id),
            where, W("LOWER", "lower"), Open, I(buyer), Close, Eq, One,
            W("ORDER BY", "order"), I(o), Dot, I(created), Semi>>
OfRaw   == <<select, Star, from, I(N(<<"raw">>)), Dot, I(orders)>>
Stacked == <<select, Star, from, I(users), Semi, select, Star, from, I(users)>>
Writes  == <<W("UPDATE", "update"), I(users)>>
Missing == <<select, I(email), from, I(N(<<"nope">>)), W("LIMIT", "limit"), One>>

-----------------------------------------------------------------------------
Key(segs, type, fields) == [key |-> segs, type |-> type, fields |-> fields]
TheKeys == <<Key(<<"user", "1">>, "hash", {"name"}), Key(<<"user", "2">>, "hash", {"mail"}), Key(<<"user">>, "string", {}),
             Key(<<"jobs">>, "list", {})>>
Slow == << <<[text |-> ByMail, ms |-> 500], [text |-> Joined, ms |-> 1500]>>, <<[text |-> Missing, ms |-> 2500]>> >>
TheSessions == <<[sql |-> Joined, idle |-> FALSE], [sql |-> <<>>, idle |-> TRUE], [sql |-> ByMail, idle |-> TRUE]>>
TheLocks == <<[holder |-> 1, waiter |-> 2]>>
TheErrors == <<[code |-> "E2", words |-> {"deadlock"}], [code |-> "E1", words |-> {"timeout"}]>>

Db(tables, sessions, locks, errors) ==
    [default |-> "shop", tables |-> tables, keys |-> TheKeys, slow |-> Slow, sessions |-> sessions,
     locks |-> locks, errors |-> errors]

MCDatabases ==
    << (* default names of constraints: two schemas share orders_pk *)
       Db(<<Orders(<<id>>, <<OrderFk, RawFk>>), Users(Upper(email), "text"), RawOrders("orders_pk")>>, TheSessions, TheLocks, TheErrors),
       (* the constraint is dropped, a second table is named after users *)
       Db(<<Orders(<<id>>, <<>>), TbUser, Users(email, "text"), RawOrders("raw_orders_pk")>>, <<>>, <<>>, <<>>),
       (* a key of two columns, users is gone *)
       Db(<<Orders(<<id, user_id>>, <<>>), TbUser>>, TheSessions, <<>>, <<>>) >>

Tables(names) == [ns |-> "", limit |-> 0, tables |-> names]
MCScopes == {Tables(<<Plain(orders), Plain(users), Plain(tb_user)>>), Tables(<<Plain(orders)>>), Tables(<<>>),
             Tables(<<[ns |-> "raw", name |-> orders]>>),
             [ns |-> "shop", limit |-> 2, tables |-> <<>>], [ns |-> "shop", limit |-> -1, tables |-> <<>>], [ns |-> "raw", limit |-> 2, tables |-> <<>>]}
MCRefs == {Plain(users), Plain(orders), Plain(tb_user), Plain(N(<<"nope">>)), [ns |-> "raw", name |-> orders],
           [ns |-> "shop", name |-> users]}
MCSQLs == {<<>>, ByMail, Joined, OfRaw, Stacked, Writes, Missing}
MCPatterns == <<[freq |-> 1, objects |-> {users}], [freq |-> 2, objects |-> {orders, users}]>>
MCLimits == {-1, 0, 1, 3}
MCDbTypes == Engines \ {"opensearch"}
=============================================================================

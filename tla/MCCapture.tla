----------------------------- MODULE MCCapture -----------------------------
EXTENDS Capture

MCWords == [img \in {"plain", "card", "tiny", "torn", "digits"} |->
              IF img = "plain" THEN {"menu"} ELSE {"menu", "number"}]

P(img, key) == New(img, key, FALSE)
L(img, key) == New(img, key, TRUE)
Env(own, old) == [redaction |-> TRUE, engine |-> TRUE, storage |-> TRUE, media |-> TRUE,
                  production |-> FALSE, own |-> own, old |-> old, views |-> {"card", "text"}]
With(env, strict, s1, s2, sq) ==
  [config |-> env, strict |-> strict,
   sends |-> [r \in Requests |-> CASE r = "c1" -> s1 [] r = "c2" -> s2 [] OTHER -> sq]]

Lists == <<P("card", 1), L("plain", 2), L("digits", 2)>>
Many  == <<L("card", 1), L("card", 1), L("card", 1)>>

SomeStarts ==
  LET Posts == Env({}, {"c2"})
      Alone == Env({}, {"c2", "q1"})
  IN  \* what other clients send, beside an old row and a question
      { With(Posts, FALSE, Lists, <<L("torn", 1), P("card", 2)>>, <<P("card", 1), P("tiny", 2)>>),
        With([Posts EXCEPT !.production = TRUE, !.redaction = FALSE],
             FALSE, Many, <<P("card", 1)>>, <<P("plain", 1), P("torn", 2)>>),
        With([Alone EXCEPT !.media = FALSE], FALSE, <<P("card", 1), P("tiny", 2)>>, <<>>, <<>>),
        With([Posts EXCEPT !.engine = FALSE], FALSE, <<P("card", 1)>>, <<>>, <<P("card", 1)>>),
        With([Alone EXCEPT !.storage = FALSE], TRUE, Many, <<>>, <<>>),
        With(Env({}, {"q1"}), FALSE, <<L("card", 1), L("plain", 1)>>, <<P("card", 1)>>, <<>>),
        \* the panel, that may have to post its draft again, with storage off and on
        With([Env({"c1", "c2"}, {"q1"}) EXCEPT !.storage = FALSE], FALSE, <<>>, <<>>, <<>>),
        With([Env({"c1"}, {"c2", "q1"}) EXCEPT !.views = {"card", "tiny"}],
             FALSE, <<>>, <<>>, <<>>) }
=============================================================================

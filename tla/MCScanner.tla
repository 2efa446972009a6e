----------------------------- MODULE MCScanner -----------------------------
(* Finite instances of Scanner: the characters of texts, and their length. *)
EXTENDS Scanner

Family(characters, length) == [characters |-> characters, length |-> length]

Numbers == Family({"1", ".", "a", "space", "/"}, 6)
Strings == Family({Quote, Newline, "a", "/", NUL}, 6)
Comments == Family({"/", Newline, "space", "1", "@"}, 6)
Operators == Family({"!", "=", "<", ">", "space", "a"}, 5)
Words == Family({"o", "r", "_", "emoji", "1", "@"}, 5)
Bytes == Family({"ill", Quote, "/", "1", ".", "a", "="}, 4)
Ends == Family({NUL, "/", "@", "1"}, 5)

Texts == {Numbers, Strings, Comments, Operators, Words, Bytes, Ends}
SomeLetters == {"a", "o", "r"}
Or == {<<"o", "r">>}
=============================================================================

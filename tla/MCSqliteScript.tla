--------------------------- MODULE MCSqliteScript ---------------------------
(* Pairs and triples of short statements without line comments, any single   *)
(* statement of up to four tokens, and pairs with line comments.             *)
EXTENDS SqliteScript

TextsUpTo(n, T) == UNION {[1..k -> T] : k \in 1..n}

MCPairs == [1..2 -> TextsUpTo(2, Tokens \ {"--"})]
MCSingles == [1..1 -> TextsUpTo(4, Tokens)]
MCTriples == [1..3 -> TextsUpTo(1, Tokens \ {"--"})]
MCCorpora == MCPairs \cup MCTriples \cup MCSingles
MCCommentPairs == [1..2 -> TextsUpTo(2, {"--", "sq", "x"})]
=============================================================================

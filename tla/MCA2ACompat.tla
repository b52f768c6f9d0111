---- MODULE MCA2ACompat ----
EXTENDS A2ACompat
CONSTANTS u1, u2

MCUrl == {u1, u2}

\* Every value of a part names its key.
MCPart ==
  {[k \in keys |-> k] : keys \in {{"text"}, {"text", "metadata", "mediaType"}, {"data", "metadata"},
     {"url", "metadata"}, {"url", "mediaType", "filename"}, {"raw", "mediaType", "metadata"}}}

J(v, u) == [binding |-> "JSONRPC", version |-> v, url |-> u]
Ifaces ==
  {J("1.0", u1), J("1.0", u2), J("0.3", u1), J("absent", u2), J("2.0", u1), J("1.0", NoUrl),
   [binding |-> "GRPC", version |-> "1.0", url |-> u1]}
Lists == {<<>>} \cup {<<i>> : i \in Ifaces} \cup {<<i, j>> : i, j \in Ifaces}
MCCard ==
  {[url |-> NoUrl, lists |-> TRUE, interfaces |-> l] : l \in Lists} \cup
  {[url |-> u2, lists |-> TRUE, interfaces |-> l] : l \in {m \in Lists : Len(m) < 2}} \cup
  {[url |-> u1, lists |-> FALSE, interfaces |-> <<>>]}
====

--------------------------- MODULE MCToolExecutor ---------------------------
(* A small instance of ToolExecutor for TLC: a stdio server whose tools may  *)
(* change, and an HTTP one that may turn out to have a name too many.        *)
EXTENDS ToolExecutor

Tool(n, d) == [name |-> n, def |-> d]

MCOrder == <<"files", "web">>
MCStdio == {"files"}
MCAdvertised ==
    [s \in {"files", "web"} |->
        IF s = "files"
        THEN {{Tool("read", "v1")}, {Tool("read", "v2")}, {Tool("read", "invalid")}}
        ELSE {{Tool("read", "v1")}, {Tool("shell", "v1")},
              {Tool("get", "v1"), Tool("put", "v1")},
              {Tool("get", "v1"), Tool("put", "v1"), Tool("post", "v1")}}]
MCAllowed == {"read", "get", "shell", "read_knowledge", "kubernetes_read"}
MCNames == MCAllowed \cup {"put", "delete"}
MCKinds == {"silent", "holding", "escaped"}
=============================================================================

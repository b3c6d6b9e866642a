--------------------------- MODULE MCReplSession ---------------------------
(* A handful of inputs that depend on, shadow and break one another.       *)
EXTENDS ReplSession

Input(id, head, name, gives, uses) ==
  [id |-> id, head |-> head, name |-> name, gives |-> gives, uses |-> uses,
   broken |-> FALSE, exits |-> FALSE, open |-> FALSE]

Fine == {Input("import strings", "import", "strings", {"strings"}, {}),
         Input("func f()", "func", "f", {"f/0"}, {}),
         Input("func g() = f()", "func", "g", {"g"}, {"f/0"}),
         Input("class f", "class", "f", {"f/class"}, {}),
         Input("f()", "call", "", {}, {"f/0"}),
         Input("let x = 1", "let", "x", {"x"}, {}),
         Input("var x = 1", "var", "x", {"x", "x/var"}, {}),
         Input("x = 2", "assign", "", {}, {"x/var"}),
         Input("strings.upper(s)", "expr", "", {}, {"strings"})}

MCInputs ==
  Fine \cup
  {[Input("func f(n) {", "func", "f", {"f/1"}, {}) EXCEPT !.open = TRUE],
   [Input("func f() = oops", "func", "f", {"f/0"}, {}) EXCEPT !.broken = TRUE],
   [Input("import 7", "import", "7", {}, {}) EXCEPT !.broken = TRUE],
   [Input("os.exit(1)", "call", "", {}, {}) EXCEPT !.exits = TRUE],
   [Input("if x {", "if", "", {}, {}) EXCEPT !.open = TRUE],
   Input("func main() {}", "func", "main", {}, {})}
=============================================================================

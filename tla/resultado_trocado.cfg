SPECIFICATION SpecPainel
CONSTANTS
  Jogos = {a, b}
  Placares = {zero}
  Zero = zero
  Fetches = {f1, f2, f3}
  MaxCliques = 2
  Nulo = Nulo
INVARIANT ResultadoDoJogoAtual
CHECK_DEADLOCK FALSE

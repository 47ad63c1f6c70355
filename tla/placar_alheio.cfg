SPECIFICATION SpecPainel
CONSTANTS
  Jogos = {a, b}
  Placares = {zero, umAzero}
  Zero = zero
  Fetches = {f1, f2}
  MaxCliques = 2
  Nulo = Nulo
INVARIANT ResultadoComPlacarProprio
CHECK_DEADLOCK FALSE

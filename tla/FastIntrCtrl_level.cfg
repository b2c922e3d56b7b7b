SPECIFICATION FicSpec
CONSTANTS
    Lines = {"timer_1", "dma", "gpio_0"}
    Pulsing = {"gpio_0"}
    MaxEvents = 2
PROPERTY LevelServed
